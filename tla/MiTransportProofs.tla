------------------------- MODULE MiTransportProofs -------------------------
(***************************************************************************)
(* The management transport is correct for every length of request and     *)
(* answer, every unit size, every number of packets and either byte count, *)
(* the endpoint's and the tool's, as long as line is not lost: a request   *)
(* runs as it was made, the slave holds whole answers, a host reads the    *)
(* answer to the request that was executed while it wrote, and the bus     *)
(* implements MiService.  What a sequence of packets makes of the endpoint *)
(* and the slave is proved by induction over its bytes, with a set in the  *)
(* place of the predicate (NatSetInduction).                               *)
(***************************************************************************)
EXTENDS MiTransport, WellFoundedInduction, TLAPS

-----------------------------------------------------------------------------
(* Induction over data                                                     *)

\* Induction over the naturals, with a set in the place of the predicate.
LEMMA NatSetInduction ==
  ASSUME NEW S, 0 \in S, \A n \in Nat : n \in S => n + 1 \in S
  PROVE  \A n \in Nat : n \in S
<1> DEFINE T == Nat \ S
           R == OpToRel(<, Nat)
<1> SUFFICES ASSUME T # {} PROVE FALSE
  OBVIOUS
<1>1. PICK x \in T : \A y \in T : <<y, x>> \notin R
  <2>1. T \subseteq Nat
    OBVIOUS
  <2> HIDE DEF T, R
  <2>2. IsWellFoundedOn(R, Nat)
    BY NatLessThanWellFounded DEF R
  <2> QED BY <2>1, <2>2, WFMin, ZenonT(30)
<1>2. x \in Nat /\ x # 0 /\ x \notin S
  OBVIOUS
<1>3. x - 1 \in Nat /\ (x - 1) + 1 = x
  BY <1>2
<1>4. x - 1 \in T
  BY <1>2, <1>3
<1>5. <<x - 1, x>> \in R
  BY <1>2, <1>3 DEF OpToRel
<1> QED BY <1>1, <1>4, <1>5

\* The greatest element of a set that has one.
LEMMA MaxIs ==
  ASSUME NEW S \in SUBSET Int, NEW m \in S, \A x \in S : x <= m
  PROVE  Max(S) = m
<1> DEFINE IsMax(x) == \A y \in S : x >= y
<1>1. m \in S /\ IsMax(m)
  OBVIOUS
<1>2. \A x \in S : IsMax(x) => x = m
  OBVIOUS
<1>3. Max(S) = CHOOSE x \in S : IsMax(x)
  BY DEF Max
<1> HIDE DEF IsMax
<1> QED BY <1>1, <1>2, <1>3

\* The slave's states while it takes the bytes of seq, one after another, from
\* state s: they exist, and the fold is the last of them.
LEMMA FoldOfSlave ==
  ASSUME NEW s, NEW seq, NEW n \in Nat, DOMAIN seq = 1..n
  PROVE  \E f : /\ f[0] = s
                /\ \A k \in 1..n : f[k] = SlaveSend(f[k - 1], seq[k])
                /\ f[n] = FoldLeft(SlaveSend, s, seq)
<1> DEFINE Body(g, S) == IF S = {} THEN s ELSE SlaveSend(g[S \ {Max(S)}], seq[Max(S)])
           Iter(g, m) == g = [S \in SUBSET (1..m) |-> Body(g, S)]
           Good == {m \in Nat : \E g : Iter(g, m)}
<1>1. 0 \in Good
  <2> DEFINE g == [S \in SUBSET (1..0) |-> s]
  <2>1. \A S \in SUBSET (1..0) : S = {}
    OBVIOUS
  <2>2. Iter(g, 0)
    BY <2>1
  <2> QED BY <2>2
<1>2. ASSUME NEW m \in Nat, m \in Good
      PROVE  m + 1 \in Good
  <2>1. PICK g : Iter(g, m)
    BY <1>2
  <2> DEFINE h == [S \in SUBSET (1..(m + 1)) |->
                     IF m + 1 \in S THEN SlaveSend(g[S \ {m + 1}], seq[m + 1]) ELSE g[S]]
  <2>2. ASSUME NEW S \in SUBSET (1..(m + 1))
        PROVE  h[S] = Body(h, S)
    <3>1. CASE m + 1 \in S
      <4>1. Max(S) = m + 1
        BY <3>1, MaxIs
      <4>2. S \ {m + 1} \in SUBSET (1..(m + 1)) /\ m + 1 \notin S \ {m + 1}
        OBVIOUS
      <4>3. h[S \ {m + 1}] = g[S \ {m + 1}]
        BY <4>2
      <4>4. h[S] = SlaveSend(g[S \ {m + 1}], seq[m + 1])
        BY <3>1
      <4> HIDE DEF h
      <4> QED BY <3>1, <4>1, <4>3, <4>4
    <3>2. CASE m + 1 \notin S
      <4>1. S \in SUBSET (1..m)
        BY <3>2
      <4>2. g[S] = Body(g, S)
        BY <2>1, <4>1
      <4>3. S \ {Max(S)} \in SUBSET (1..(m + 1)) /\ m + 1 \notin S \ {Max(S)}
        BY <3>2
      <4>4. h[S \ {Max(S)}] = g[S \ {Max(S)}] /\ h[S] = g[S]
        BY <3>2, <4>3
      <4> HIDE DEF h
      <4> QED BY <4>2, <4>4
    <3> QED BY <3>1, <3>2
  <2>3. h = [S \in SUBSET (1..(m + 1)) |-> h[S]]
    OBVIOUS
  <2>4. Iter(h, m + 1)
    <3> HIDE DEF h
    <3> QED BY <2>2, <2>3
  <2> HIDE DEF h, Iter
  <2> QED BY <2>4
<1>3. n \in Good
  <2> HIDE DEF Good
  <2> QED BY <1>1, <1>2, NatSetInduction
<1> DEFINE iter == CHOOSE g : Iter(g, n)
<1>4. Iter(iter, n)
  <2>1. \E g : Iter(g, n)
    BY <1>3
  <2> HIDE DEF Iter
  <2> QED BY <2>1
<1>5. FoldLeft(SlaveSend, s, seq) = iter[1..n]
  BY DEF FoldLeft, MapThenFoldSet
<1> DEFINE f == [k \in 0..n |-> iter[1..k]]
<1>6. \A S \in SUBSET (1..n) : iter[S] = Body(iter, S)
  <2> HIDE DEF iter
  <2> QED BY <1>4
<1>7. f[0] = s
  <2>1. 1..0 = {} /\ {} \in SUBSET (1..n) /\ 0 \in 0..n
    OBVIOUS
  <2>2. f[0] = iter[1..0]
    BY <2>1, Zenon
  <2>3. \A S \in SUBSET (1..n) : S = {} => iter[S] = s
    BY <1>6
  <2> HIDE DEF iter, f
  <2> QED BY <2>1, <2>2, <2>3
<1>8. ASSUME NEW k \in 1..n
      PROVE  f[k] = SlaveSend(f[k - 1], seq[k])
  <2>1. 1..k \in SUBSET (1..n) /\ 1..k # {} /\ (1..k) \ {k} = 1..(k - 1)
    OBVIOUS
  <2>2. Max(1..k) = k
    <3>1. 1..k \in SUBSET Int /\ k \in 1..k /\ \A x \in 1..k : x <= k
      OBVIOUS
    <3> QED BY <3>1, MaxIs, Zenon
  <2>3. f[k] = iter[1..k] /\ f[k - 1] = iter[1..(k - 1)]
    OBVIOUS
  <2> HIDE DEF iter, f
  <2>4. \A S \in SUBSET (1..n) : S # {} => iter[S] = SlaveSend(iter[S \ {Max(S)}], seq[Max(S)])
    BY <1>6
  <2>5. iter[1..k] = SlaveSend(iter[(1..k) \ {Max(1..k)}], seq[Max(1..k)])
    BY <2>1, <2>4, Zenon
  <2> QED BY <2>1, <2>2, <2>3, <2>5
<1>9. f[n] = iter[1..n]
  OBVIOUS
<1> HIDE DEF f, iter
<1> QED BY <1>5, <1>7, <1>8, <1>9, Zenon
-----------------------------------------------------------------------------
(* Packets in a row                                                        *)

\* What the positions of packets of equal width need of multiplication.
LEMMA Rows ==
  ASSUME NEW i \in Nat, NEW m \in Nat, NEW w \in Nat
  PROVE  /\ i * w \in Nat
         /\ (i + 1) * w = i * w + w
         /\ i <= m => i * w <= m * w
<1>1. i * w \in Nat /\ (i + 1) * w = i * w + w
  OBVIOUS
<1>2. ASSUME i <= m PROVE i * w <= m * w
  <2> DEFINE d == m - i
  <2>1. d \in Nat /\ m = i + d
    BY <1>2
  <2>2. d * w \in Nat /\ (i + d) * w = i * w + d * w
    BY <2>1
  <2> HIDE DEF d
  <2> QED BY <1>1, <2>1, <2>2
<1> QED BY <1>1, <1>2

\* What a concatenation is.
LEMMA Concatenation ==
  ASSUME NEW A, NEW s \in Seq(A), NEW t \in Seq(A)
  PROVE  /\ s \o t \in Seq(A)
         /\ Len(s \o t) = Len(s) + Len(t)
         /\ \A i \in 1..Len(s) : (s \o t)[i] = s[i]
         /\ \A i \in 1..Len(t) : (s \o t)[Len(s) + i] = t[i]
OBVIOUS

\* A message made of packets, all but the last of one width: its length, and
\* where the bytes of each packet lie.
InARow(s, pkts, n, w) ==
  /\ Len(s) = (n - 1) * w + Len(pkts[n])
  /\ \A i \in 1..n : \A j \in 1..Len(pkts[i]) : s[(i - 1) * w + j] = pkts[i][j]

\* What FlattenSeq makes of packets that are all, but the last, of one width.
LEMMA FlattenOf ==
  ASSUME NEW A, NEW pkts \in Seq(Seq(A)), NEW n \in Nat \ {0}, Len(pkts) = n,
         NEW w \in Nat, \A i \in 1..(n - 1) : Len(pkts[i]) = w
  PROVE  FlattenSeq(pkts) \in Seq(A) /\ InARow(FlattenSeq(pkts), pkts, n, w)
<1> DEFINE Body(g, i) == IF i = 1 THEN pkts[i] ELSE g[i - 1] \o pkts[i]
           Iter(g, m) == g = [i \in 1..m |-> Body(g, i)]
           Good == {m \in Nat : \E g : Iter(g, m)}
           flatten == CHOOSE g : Iter(g, n)
<1>1. 0 \in Good
  <2> DEFINE g == [i \in 1..0 |-> {}]
  <2>1. Iter(g, 0)
    OBVIOUS
  <2> QED BY <2>1
<1>2. ASSUME NEW m \in Nat, m \in Good
      PROVE  m + 1 \in Good
  <2>1. PICK g : Iter(g, m)
    BY <1>2
  <2> DEFINE h == [i \in 1..(m + 1) |->
                     IF i = m + 1 THEN Body(g, m + 1) ELSE g[i]]
  <2>2. ASSUME NEW i \in 1..(m + 1)
        PROVE  h[i] = Body(h, i)
    <3>1. CASE i = m + 1
      <4>1. i # 1 => i - 1 \in 1..(m + 1) /\ h[i - 1] = g[i - 1]
        BY <3>1
      <4>2. h[i] = Body(g, i)
        BY <3>1
      <4> HIDE DEF h
      <4> QED BY <4>1, <4>2
    <3>2. CASE i # m + 1
      <4>1. i \in 1..m /\ h[i] = g[i] /\ (i # 1 => i - 1 \in 1..(m + 1) /\ h[i - 1] = g[i - 1])
        BY <3>2
      <4>2. g[i] = Body(g, i)
        BY <2>1, <4>1
      <4> HIDE DEF h
      <4> QED BY <4>1, <4>2
    <3> QED BY <3>1, <3>2
  <2>3. h = [i \in 1..(m + 1) |-> h[i]]
    OBVIOUS
  <2>4. Iter(h, m + 1)
    <3> HIDE DEF h
    <3> QED BY <2>2, <2>3
  <2> HIDE DEF h, Iter
  <2> QED BY <2>4
<1>3. n \in Good
  <2> HIDE DEF Good
  <2> QED BY <1>1, <1>2, NatSetInduction
<1>4. Iter(flatten, n)
  <2>1. \E g : Iter(g, n)
    BY <1>3
  <2> HIDE DEF Iter
  <2> QED BY <2>1
<1>5. FlattenSeq(pkts) = flatten[n]
  BY DEF FlattenSeq
<1>6. \A i \in 1..n : flatten[i] = Body(flatten, i)
  <2> HIDE DEF flatten
  <2> QED BY <1>4
<1> HIDE DEF flatten
<1> DEFINE Holds(m) == /\ flatten[m] \in Seq(A)
                       /\ Len(flatten[m]) = (m - 1) * w + Len(pkts[m])
                       /\ \A i \in 1..m : \A j \in 1..Len(pkts[i]) :
                            flatten[m][(i - 1) * w + j] = pkts[i][j]
           Done == {m \in Nat : m + 1 <= n => Holds(m + 1)}
<1>7. 0 \in Done
  <2>1. 1 \in 1..n /\ pkts[1] \in Seq(A) /\ 0 * w = 0
    OBVIOUS
  <2>2. flatten[1] = pkts[1]
    BY <1>6, <2>1
  <2>3. \A j \in 1..Len(pkts[1]) : 0 * w + j = j
    BY <2>1
  <2>4. Holds(1)
    BY <2>1, <2>2, <2>3
  <2> HIDE DEF Holds
  <2> QED BY <2>4
<1>8. ASSUME NEW m \in Nat, m \in Done
      PROVE  m + 1 \in Done
  <2> SUFFICES ASSUME NEW k \in Nat, k = m + 1, k + 1 <= n, Holds(k)
               PROVE  Holds(k + 1)
    <3>1. m + 1 <= n => Holds(m + 1)
      BY <1>8
    <3>2. m + 1 \in Nat /\ ((m + 1) + 1 <= n => m + 1 <= n)
      OBVIOUS
    <3> HIDE DEF Holds
    <3> QED BY <3>1, <3>2
  <2>1. k \in 1..(n - 1) /\ k + 1 \in 1..n /\ k + 1 # 1 /\ (k + 1) - 1 = k
    OBVIOUS
  <2> DEFINE old == flatten[k]
             packet == pkts[k + 1]
             now == flatten[k + 1]
  <2>2. old \in Seq(A) /\ Len(old) = (k - 1) * w + Len(pkts[k])
    OBVIOUS
  <2>3. \A i \in 1..k : \A j \in 1..Len(pkts[i]) : old[(i - 1) * w + j] = pkts[i][j]
    OBVIOUS
  <2> HIDE DEF Holds
  <2>4. packet \in Seq(A)
    BY <2>1
  <2>5. now = old \o packet
    <3>1. now = Body(flatten, k + 1)
      BY <1>6, <2>1, Zenon
    <3> QED BY <2>1, <3>1
  <2>6. Len(old) = k * w /\ k * w \in Nat
    <3>1. Len(pkts[k]) = w
      BY <2>1
    <3>2. k - 1 \in Nat /\ k * w \in Nat /\ (k - 1) + 1 = k
      BY <2>1, Rows
    <3>3. ((k - 1) + 1) * w = (k - 1) * w + w
      BY <3>2, Rows
    <3> QED BY <2>2, <3>1, <3>2, <3>3
  <2> HIDE DEF old, now
  <2>7. /\ now \in Seq(A) /\ Len(now) = k * w + Len(packet)
        /\ \A i \in 1..Len(old) : now[i] = old[i]
        /\ \A i \in 1..Len(packet) : now[Len(old) + i] = packet[i]
    <3> HIDE DEF packet
    <3>1. /\ old \o packet \in Seq(A) /\ Len(old \o packet) = Len(old) + Len(packet)
          /\ \A i \in 1..Len(old) : (old \o packet)[i] = old[i]
          /\ \A i \in 1..Len(packet) : (old \o packet)[Len(old) + i] = packet[i]
      <4> HIDE DEF Body, Iter, Good, Done, Holds
      <4>1. old \in Seq(A) /\ packet \in Seq(A)
        BY <2>2, <2>4
      <4> QED BY ONLY <4>1, Concatenation
    <3> QED BY <2>5, <2>6, <3>1
  <2>8. ASSUME NEW i \in 1..(k + 1), NEW j \in 1..Len(pkts[i])
        PROVE  now[(i - 1) * w + j] = pkts[i][j]
    <3>1. CASE i = k + 1
      <4>1. (i - 1) * w + j = Len(old) + j /\ j \in 1..Len(packet)
        BY <2>1, <2>6, <3>1
      <4>2. packet[j] = pkts[i][j]
        BY <3>1
      <4> HIDE DEF packet
      <4> QED BY <2>7, <4>1, <4>2, Zenon
    <3>2. CASE i # k + 1
      <4>1. i \in 1..k /\ i \in 1..(n - 1) /\ i - 1 \in Nat /\ (i - 1) + 1 = i
        BY <3>2
      <4>2. Len(pkts[i]) = w /\ j \in 1..w
        BY <4>1
      <4>3. (i - 1) * w \in Nat /\ ((i - 1) + 1) * w = (i - 1) * w + w /\ i * w <= k * w /\ i * w \in Nat
        BY <4>1, Rows
      <4>4. (i - 1) * w + j \in 1..Len(old)
        <5> DEFINE a == (i - 1) * w
                   b == i * w
                   c == k * w
        <5>1. a \in Nat /\ b = a + w /\ b <= c /\ Len(old) = c /\ c \in Nat
          BY <2>6, <4>1, <4>3
        <5> HIDE DEF a, b, c
        <5>2. a + j \in 1..Len(old)
          BY <4>2, <5>1
        <5> QED BY <5>2 DEF a
      <4>5. old[(i - 1) * w + j] = pkts[i][j]
        BY <2>3, <4>1
      <4> HIDE DEF packet
      <4> QED BY <2>7, <4>4, <4>5, Zenon
    <3> QED BY <3>1, <3>2
  <2> QED BY <2>1, <2>7, <2>8 DEF Holds, now
<1>9. Holds(n)
  <2>1. n - 1 \in Nat
    OBVIOUS
  <2>2. n - 1 \in Done
    <3> HIDE DEF Done
    <3> QED BY <1>7, <1>8, <2>1, NatSetInduction
  <2>3. (n - 1) + 1 <= n /\ (n - 1) + 1 = n
    OBVIOUS
  <2> HIDE DEF Holds
  <2> QED BY <2>2, <2>3
<1> QED BY <1>5, <1>9 DEF InARow
-----------------------------------------------------------------------------
(* A message in packets                                                    *)

\* What packet i of len bytes carries, in packets of unit.
Payload(len, unit, i) == IF i = PacketsOf(len, unit) THEN len - (i - 1) * unit ELSE unit

\* How many packets of unit a message of len bytes takes.
LEMMA Packets ==
  ASSUME NEW len \in Nat \ {0}, NEW unit \in Nat \ {0}
  PROVE  /\ PacketsOf(len, unit) \in Nat \ {0}
         /\ (PacketsOf(len, unit) - 1) * unit < len
         /\ len <= PacketsOf(len, unit) * unit
<1> DEFINE k == len + unit - 1
           n == k \div unit
<1>1. k \in Nat /\ k >= unit
  OBVIOUS
<1>2. n \in Int /\ n * unit <= k /\ k < n * unit + unit
  <2> HIDE DEF k
  <2> QED BY <1>1
<1>3. n # 0 /\ n \in Nat
  <2> HIDE DEF k
  <2> QED BY <1>1
<1>4. (n - 1) * unit = n * unit - unit
  <2> HIDE DEF n
  <2> QED BY <1>2
<1> HIDE DEF n
<1>5. n \in Nat \ {0} /\ (n - 1) * unit < len /\ len <= n * unit
  BY <1>2, <1>3, <1>4
<1> QED BY <1>5 DEF n, PacketsOf

\* Where in the message the payload of each packet lies.
LEMMA Payloads ==
  ASSUME NEW len \in Nat \ {0}, NEW unit \in Nat \ {0},
         NEW i \in 1..PacketsOf(len, unit)
  PROVE  /\ (i - 1) * unit \in Nat
         /\ Payload(len, unit, i) \in 1..unit
         /\ (i - 1) * unit + Payload(len, unit, i)
              = IF i = PacketsOf(len, unit) THEN len ELSE i * unit
         /\ (i - 1) * unit + Payload(len, unit, i) <= len
<1> DEFINE n == PacketsOf(len, unit)
           a == (i - 1) * unit
           b == i * unit
           c == (n - 1) * unit
           d == n * unit
<1>1. n \in Nat \ {0} /\ c < len /\ len <= d
  BY Packets
<1> HIDE DEF n
<1>2. i \in Nat \ {0} /\ i <= n /\ i - 1 \in Nat /\ n - 1 \in Nat
  BY <1>1 DEF n
<1>3. a \in Nat /\ b = a + unit /\ (i # n => b <= c) /\ c \in Nat /\ d = c + unit
  <2>1. i # n => i <= n - 1
    BY <1>1, <1>2
  <2> QED BY <1>1, <1>2, <2>1, Rows
<1>4. Payload(len, unit, i) = IF i = n THEN len - a ELSE unit
  BY DEF Payload, n
<1>5. i = n => a = c
  OBVIOUS
<1> HIDE DEF a, b, c, d
<1>6. /\ a \in Nat
      /\ Payload(len, unit, i) \in 1..unit
      /\ a + Payload(len, unit, i) = IF i = n THEN len ELSE b
      /\ a + Payload(len, unit, i) <= len
  BY <1>1, <1>3, <1>4, <1>5
<1> QED BY <1>6 DEF a, b, n

\* Two sequences of equal elements are equal.
LEMMA SameSequence ==
  ASSUME NEW A, NEW s \in Seq(A), NEW t \in Seq(A), Len(s) = Len(t),
         \A k \in 1..Len(t) : s[k] = t[k]
  PROVE  s = t
OBVIOUS

\* What a piece of a sequence is.
LEMMA Piece ==
  ASSUME NEW A, NEW s \in Seq(A), NEW a \in Nat, NEW b \in Nat, a <= b, b <= Len(s)
  PROVE  /\ SubSeq(s, a + 1, b) \in Seq(A)
         /\ Len(SubSeq(s, a + 1, b)) = b - a
         /\ \A k \in 1..(b - a) : SubSeq(s, a + 1, b)[k] = s[a + k]
<1>1. SubSeq(s, a + 1, b) = [k \in 1..(b - a) |-> s[a + k]]
  OBVIOUS
<1>2. \A k \in 1..(b - a) : s[a + k] \in A
  OBVIOUS
<1> QED BY <1>1, <1>2

\* A piece of a sequence and the piece behind it are one piece.
LEMMA PieceAfterPiece ==
  ASSUME NEW A, NEW s \in Seq(A), NEW a \in Nat, NEW b \in Nat, a <= b, b <= Len(s)
  PROVE  SubSeq(s, 1, a) \o SubSeq(s, a + 1, b) = SubSeq(s, 1, b)
<1> DEFINE l == SubSeq(s, 1, a)
           r == SubSeq(s, a + 1, b)
           t == SubSeq(s, 1, b)
<1>1. l \in Seq(A) /\ Len(l) = a /\ \A k \in 1..a : l[k] = s[k]
  <2>1. SubSeq(s, 0 + 1, a) = l /\ a - 0 = a /\ \A k \in 1..a : 0 + k = k
    OBVIOUS
  <2> QED BY <2>1, Piece
<1>2. r \in Seq(A) /\ Len(r) = b - a /\ \A k \in 1..(b - a) : r[k] = s[a + k]
  BY Piece
<1>3. t \in Seq(A) /\ Len(t) = b /\ \A k \in 1..b : t[k] = s[k]
  <2>1. SubSeq(s, 0 + 1, b) = t /\ b - 0 = b /\ \A k \in 1..b : 0 + k = k
    OBVIOUS
  <2> QED BY <2>1, Piece
<1> DEFINE c == l \o r
<1> HIDE DEF l, r, t
<1>4. /\ c \in Seq(A) /\ Len(c) = Len(l) + Len(r)
      /\ \A k \in 1..Len(l) : c[k] = l[k]
      /\ \A k \in 1..Len(r) : c[Len(l) + k] = r[k]
  <2>1. l \in Seq(A) /\ r \in Seq(A)
    BY <1>1, <1>2
  <2> QED BY ONLY <2>1, Concatenation
<1> HIDE DEF c
<1>5. \A k \in 1..b : c[k] = s[k]
  <2> SUFFICES ASSUME NEW k \in 1..b PROVE c[k] = s[k]
    OBVIOUS
  <2>1. CASE k <= a
    BY <1>1, <1>4, <2>1
  <2>2. CASE k > a
    <3>1. k - a \in 1..(b - a) /\ a + (k - a) = k
      BY <2>2
    <3>2. c[a + (k - a)] = s[a + (k - a)]
      BY <1>1, <1>2, <1>4, <3>1
    <3> QED BY <3>1, <3>2
  <2>3. k <= a \/ k > a
    OBVIOUS
  <2> QED BY <2>1, <2>2, <2>3, Zenon
<1>6. c = t
  <2>1. Len(c) = b
    BY <1>1, <1>2, <1>4
  <2> QED BY <1>3, <1>4, <1>5, <2>1
<1> QED BY <1>6 DEF c, l, r, t

-----------------------------------------------------------------------------
(* The host's packets                                                      *)

\* The end-of-message flag of packet i of n.
EomOf(i, n) == IF i = n THEN 1 ELSE 0

\* The control byte of a request's packet carries its end-of-message flag.
LEMMA ChunkControlIs ==
  ASSUME NEW i \in Nat, NEW n \in Nat
  PROVE  ChunkControl(i, n) \in Bytes /\ EomBit(ChunkControl(i, n)) = EomOf(i, n)
BY DEF ChunkControl, EomBit, EomOf, Bytes, SOM, EOM

\* A packet of p bytes of payload, as the host writes it.
Carries(packet, payload, ctl, p) ==
  /\ packet \in Seq(Bytes)
  /\ Len(packet) = p + 8
  /\ packet[2] = p + CountExtra
  /\ packet[7] = ctl
  /\ packet[p + 8] = 0
  /\ SubSeq(packet, 8, p + 7) = payload

\* The bytes of a request's packet say how long it is and whether it is the last.
LEMMA HostPacketIs ==
  ASSUME CountExtra \in {4, 5}, NEW payload \in Seq(Bytes), NEW ctl \in Bytes,
         NEW p \in 1..250, Len(payload) = p
  PROVE  Carries(HostPacket(payload, ctl), payload, ctl, p)
<1> DEFINE head == <<MCTP_CMD_CODE, p + CountExtra, 45, 1, 0, 0, ctl>>
           front == head \o payload
           chunk == front \o <<0>>
<1>1. HostPacket(payload, ctl) = chunk
  BY DEF HostPacket
<1>2. head \in Seq(Bytes) /\ Len(head) = 7 /\ head[2] = p + CountExtra /\ head[7] = ctl
  <2>1. p + CountExtra \in Bytes /\ MCTP_CMD_CODE \in Bytes
    BY DEF Bytes, MCTP_CMD_CODE
  <2> QED BY <2>1 DEF Bytes
<1> HIDE DEF head
<1>3. /\ front \in Seq(Bytes) /\ Len(front) = Len(head) + Len(payload)
      /\ \A k \in 1..Len(head) : front[k] = head[k]
      /\ \A k \in 1..Len(payload) : front[Len(head) + k] = payload[k]
  <2>1. head \in Seq(Bytes) /\ payload \in Seq(Bytes)
    BY <1>2
  <2> QED BY ONLY <2>1, Concatenation
<1> HIDE DEF front
<1>4. /\ Len(front) = p + 7
      /\ \A k \in 1..7 : front[k] = head[k]
      /\ \A k \in 1..p : front[7 + k] = payload[k]
  BY <1>2, <1>3
<1>5. /\ chunk \in Seq(Bytes) /\ Len(chunk) = p + 8
      /\ \A k \in 1..(p + 7) : chunk[k] = front[k]
      /\ chunk[p + 8] = 0
  <2>1. front \in Seq(Bytes) /\ <<0>> \in Seq(Bytes)
    BY <1>3 DEF Bytes
  <2>2. /\ chunk \in Seq(Bytes) /\ Len(chunk) = Len(front) + Len(<<0>>)
        /\ \A k \in 1..Len(front) : chunk[k] = front[k]
        /\ \A k \in 1..Len(<<0>>) : chunk[Len(front) + k] = <<0>>[k]
    BY ONLY <2>1, Concatenation
  <2>3. chunk[Len(front) + 1] = 0
    <3>1. 1 \in 1..Len(<<0>>) /\ <<0>>[1] = 0
      OBVIOUS
    <3> HIDE DEF chunk
    <3> QED BY <2>2, <3>1
  <2>4. Len(front) + 1 = p + 8
    BY <1>4
  <2> HIDE DEF chunk
  <2> QED BY <1>4, <2>2, <2>3, <2>4
<1> HIDE DEF chunk
<1>6. SubSeq(chunk, 8, p + 7) = payload
  <2>1. /\ SubSeq(chunk, 7 + 1, p + 7) \in Seq(Bytes)
        /\ Len(SubSeq(chunk, 7 + 1, p + 7)) = p
        /\ \A k \in 1..p : SubSeq(chunk, 7 + 1, p + 7)[k] = chunk[7 + k]
    <3>1. 7 \in Nat /\ p + 7 \in Nat /\ 7 <= p + 7 /\ p + 7 <= Len(chunk) /\ (p + 7) - 7 = p
      BY <1>5
    <3> QED BY <1>5, <3>1, Piece
  <2>2. \A k \in 1..p : chunk[7 + k] = payload[k]
    BY <1>4, <1>5
  <2>3. SubSeq(chunk, 7 + 1, p + 7) = payload
    BY <2>1, <2>2
  <2> QED BY <2>3
<1>7. chunk[2] = p + CountExtra /\ chunk[7] = ctl
  BY <1>2, <1>4, <1>5
<1> QED BY <1>1, <1>5, <1>6, <1>7 DEF Carries

\* A packet of p bytes of payload, as the endpoint tells where it ends.
Chunk(c, p, f) ==
  /\ c \in Seq(Bytes)
  /\ Len(c) = p + 8
  /\ c[2] = p + 4
  /\ EomBit(c[7]) = f

\* What packet i of a message says and carries.
Carried(msg, i) ==
  LET n == PacketsOf(Len(msg), HostUnit)
      p == Payload(Len(msg), HostUnit, i)
      a == (i - 1) * HostUnit
      c == HostChunk(msg, i, n)
  IN /\ c \in Seq(Bytes)
     /\ Len(c) = p + 8
     /\ c[2] = p + CountExtra
     /\ EomBit(c[7]) = EomOf(i, n)
     /\ c[p + 8] = 0
     /\ SubSeq(c, 8, p + 7) = SubSeq(msg, a + 1, a + p)

\* The packet xmit_pkt makes of its piece of a message carries that piece.
LEMMA HostChunkIs ==
  ASSUME CountExtra \in {4, 5}, HostUnit \in 1..250,
         NEW msg \in Seq(Bytes), Len(msg) > 0,
         NEW n, n = PacketsOf(Len(msg), HostUnit), NEW i \in 1..n,
         NEW p, p = Payload(Len(msg), HostUnit, i),
         NEW a, a = (i - 1) * HostUnit
  PROVE  Carried(msg, i)
<1> DEFINE payload == SubSeq(msg, a + 1, a + p)
           ctl == ChunkControl(i, n)
<1>1. Len(msg) \in Nat \ {0} /\ HostUnit \in Nat \ {0}
  OBVIOUS
<1>2. n \in Nat
  BY <1>1, Packets
<1>3. /\ a \in Nat /\ p \in 1..HostUnit /\ a + p <= Len(msg)
      /\ a + p = IF i = n THEN Len(msg) ELSE i * HostUnit
  BY <1>1, Payloads
<1>4. p \in 1..250 /\ p \in Nat /\ a + p \in Nat /\ a <= a + p /\ (a + p) - a = p
  <2>1. HostUnit \in 1..250 /\ a \in Nat /\ p \in 1..HostUnit
    BY <1>3
  <2> QED BY ONLY <2>1
<1>5. payload \in Seq(Bytes) /\ Len(payload) = p
  <2>1. msg \in Seq(Bytes) /\ a \in Nat /\ a + p \in Nat /\ a <= a + p /\ a + p <= Len(msg)
        /\ (a + p) - a = p
    BY <1>3, <1>4
  <2> QED BY ONLY <2>1, Piece
<1>6. ctl \in Bytes /\ EomBit(ctl) = EomOf(i, n)
  BY <1>2, ChunkControlIs
<1>7. HostChunk(msg, i, n) = HostPacket(payload, ctl)
  <2>1. (IF i < n THEN i * HostUnit ELSE Len(msg)) = a + p
    BY <1>2, <1>3
  <2> QED BY <2>1 DEF HostChunk
<1> HIDE DEF payload, ctl
<1>8. Carries(HostPacket(payload, ctl), payload, ctl, p)
  <2>1. CountExtra \in {4, 5} /\ payload \in Seq(Bytes) /\ ctl \in Bytes /\ p \in 1..250 /\ Len(payload) = p
    BY <1>4, <1>5, <1>6
  <2> QED BY ONLY <2>1, HostPacketIs
<1> QED BY <1>6, <1>7, <1>8 DEF payload, Carries, Carried

\* ... stated as one fact to cite.
LEMMA ChunksCarry ==
  ASSUME CountExtra \in {4, 5}, HostUnit \in 1..250,
         NEW msg \in Seq(Bytes), Len(msg) > 0,
         NEW i \in 1..PacketsOf(Len(msg), HostUnit)
  PROVE  Carried(msg, i)
<1>1. i \in 1..PacketsOf(Len(msg), HostUnit)
  OBVIOUS
<1> QED BY <1>1, HostChunkIs

\* The message of a request, and the three bytes the endpoint looks at.
LEMMA MessageIs ==
  ASSUME NEW r \in Requests, NEW tag \in Tags
  PROVE  /\ Message(r, tag) \in Seq(Bytes)
         /\ Len(Message(r, tag)) = r.len
         /\ r.len \in Nat \ {0}
         /\ Message(r, tag)[1] = r.kind
         /\ Message(r, tag)[2] = r.arg
         /\ Message(r, tag)[3] = tag
<1> DEFINE head == <<r.kind, r.arg, tag>>
           rest == [i \in 1..(r.len - 3) |-> Pattern(tag, i)]
           msg == head \o rest
<1>1. /\ r.kind \in {READ, CONFIG_UNIT, UNKNOWN} /\ r.arg \in Bytes
      /\ r.len \in Nat /\ r.len >= 3
      /\ \A i \in 1..r.len : Pattern(tag, i) \in Bytes
  BY MiAssumption
<1>2. head \in Seq(Bytes) /\ Len(head) = 3 /\ head[1] = r.kind /\ head[2] = r.arg /\ head[3] = tag
  <2>1. r.kind \in Bytes /\ r.arg \in Bytes /\ tag \in Bytes
    BY <1>1 DEF Bytes, Tags, READ, CONFIG_UNIT, UNKNOWN
  <2> HIDE DEF Bytes
  <2> QED BY <2>1
<1>3. rest \in Seq(Bytes) /\ Len(rest) = r.len - 3
  <2>1. r.len - 3 \in Nat /\ \A i \in 1..(r.len - 3) : Pattern(tag, i) \in Bytes
    BY <1>1
  <2> QED BY <2>1
<1> HIDE DEF head, rest
<1>4. /\ msg \in Seq(Bytes) /\ Len(msg) = Len(head) + Len(rest)
      /\ \A k \in 1..Len(head) : msg[k] = head[k]
  BY ONLY <1>2, <1>3, Concatenation
<1>5. Message(r, tag) = msg
  BY DEF Message, head, rest
<1> HIDE DEF msg
<1> QED BY <1>1, <1>2, <1>3, <1>4, <1>5

\* What xmit_pkt writes: its packets in a row, each where Base says.
LEMMA XmitIs ==
  ASSUME CountExtra \in {4, 5}, HostUnit \in 1..250,
         NEW msg \in Seq(Bytes), Len(msg) > 0,
         NEW n, n = PacketsOf(Len(msg), HostUnit)
  PROVE  /\ xmit_pkt(msg) \in Seq(Bytes)
         /\ Len(xmit_pkt(msg))
              = (n - 1) * (HostUnit + 8) + Payload(Len(msg), HostUnit, n) + 8
         /\ \A i \in 1..n : \A j \in 1..(Payload(Len(msg), HostUnit, i) + 8) :
              xmit_pkt(msg)[(i - 1) * (HostUnit + 8) + j] = HostChunk(msg, i, n)[j]
<1> DEFINE w == HostUnit + 8
           p(i) == Payload(Len(msg), HostUnit, i)
           chunks == [i \in 1..n |-> HostChunk(msg, i, n)]
<1>1. n \in Nat \ {0} /\ w \in Nat
  <2>1. Len(msg) \in Nat \ {0} /\ HostUnit \in Nat \ {0}
    OBVIOUS
  <2> QED BY <2>1, Packets
<1>2. \A i \in 1..n : HostChunk(msg, i, n) \in Seq(Bytes) /\ Len(HostChunk(msg, i, n)) = p(i) + 8
  BY ChunksCarry DEF Carried
<1>3. \A i \in 1..n : p(i) \in Nat
  <2>1. Len(msg) \in Nat \ {0} /\ HostUnit \in Nat \ {0}
    OBVIOUS
  <2>2. \A i \in 1..n : p(i) \in 1..HostUnit
    BY <2>1, Payloads
  <2> HIDE DEF p
  <2> QED BY <2>2
<1>4. \A i \in 1..(n - 1) : p(i) = HostUnit
  BY <1>1 DEF Payload
<1>5. xmit_pkt(msg) = FlattenSeq(chunks)
  BY DEF xmit_pkt
<1> HIDE DEF p
<1>6. /\ chunks \in Seq(Seq(Bytes)) /\ Len(chunks) = n
      /\ \A i \in 1..n : Len(chunks[i]) = p(i) + 8 /\ chunks[i] = HostChunk(msg, i, n)
      /\ \A i \in 1..(n - 1) : Len(chunks[i]) = w
  BY <1>1, <1>2, <1>4
<1> HIDE DEF chunks, w
<1>7. /\ FlattenSeq(chunks) \in Seq(Bytes)
      /\ Len(FlattenSeq(chunks)) = (n - 1) * w + Len(chunks[n])
      /\ \A i \in 1..n : \A j \in 1..Len(chunks[i]) :
           FlattenSeq(chunks)[(i - 1) * w + j] = chunks[i][j]
  <2>1. /\ chunks \in Seq(Seq(Bytes)) /\ n \in Nat \ {0} /\ Len(chunks) = n /\ w \in Nat
        /\ \A i \in 1..(n - 1) : Len(chunks[i]) = w
    BY <1>1, <1>6
  <2>2. FlattenSeq(chunks) \in Seq(Bytes) /\ InARow(FlattenSeq(chunks), chunks, n, w)
    BY ONLY <2>1, FlattenOf
  <2> QED BY <2>2 DEF InARow
<1>8. n \in 1..n
  BY <1>1
<1>9. \A i \in 1..n : \A j \in 1..(p(i) + 8) : xmit_pkt(msg)[(i - 1) * w + j] = HostChunk(msg, i, n)[j]
  BY <1>5, <1>6, <1>7, Zenon
<1>10. Len(xmit_pkt(msg)) = (n - 1) * w + (p(n) + 8)
  BY <1>5, <1>6, <1>7, <1>8, Zenon
<1>11. (n - 1) * w + (p(n) + 8) = (n - 1) * w + p(n) + 8
  <2>1. (n - 1) * w \in Int /\ p(n) \in Int
    BY <1>1, <1>3, <1>8
  <2> QED BY ONLY <2>1
<1> QED BY <1>5, <1>7, <1>9, <1>10, <1>11, Zenon DEF w, p

-----------------------------------------------------------------------------
(* The endpoint's packets                                                  *)

\* Packet i of an answer, p bytes of payload from position a on, as the slave
\* and the host read it.
Delivers(packet, resp, last, p, a) ==
  /\ packet \in Seq(Bytes)
  /\ Len(packet) = p + 9
  /\ packet[3] = p + 5
  /\ EomBit(packet[8]) = IF last THEN 1 ELSE 0
  /\ \A k \in 1..p : a + k <= Len(resp) => packet[8 + k] = resp[a + k]

\* A packet of an answer says how long it is and whether it is the last, and has
\* its part of the data, if the checksum leaves its control byte alone.
LEMMA RespPacketIs ==
  ASSUME NEW resp \in Seq(Bytes), NEW unit \in 1..250, NEW crc \in Bytes,
         NEW size, size = Len(resp) + CrcSize,
         NEW n, n = PacketsOf(size, unit), NEW i \in 1..n,
         Payload(size, unit, n) >= 3
  PROVE  Delivers(RespPacket(resp, unit, crc, i), resp, i = n,
                  Payload(size, unit, i), (i - 1) * unit)
<1> DEFINE p == Payload(size, unit, i)
           a == (i - 1) * unit
           last == i = n
           Byte(j) ==
             IF last /\ j > p + Overhead - CrcSize THEN crc
             ELSE IF j = 3 THEN ByteCount(p)
             ELSE IF j = 8 THEN (IF i = 1 THEN SOM ELSE 0) + (IF last THEN EOM ELSE 0)
             ELSE IF j < 8 THEN 0
             ELSE IF j <= 8 + p /\ a + j - 8 <= Len(resp) THEN resp[a + j - 8] ELSE crc
           packet == [j \in 1..(p + Overhead) |-> Byte(j)]
<1>1. size \in Nat \ {0} /\ unit \in Nat \ {0} /\ i \in Nat /\ n \in Nat
  <2>1. size \in Nat \ {0} /\ unit \in Nat \ {0}
    BY DEF CrcSize
  <2>2. PacketsOf(size, unit) \in Nat \ {0}
    BY ONLY <2>1, Packets
  <2>3. n = PacketsOf(size, unit) /\ i \in 1..n
    OBVIOUS
  <2> QED BY ONLY <2>1, <2>2, <2>3
<1>2. /\ a \in Nat /\ p \in 1..unit /\ p \in 1..250
      /\ last => a + p = Len(resp) + 4 /\ p >= 3
  <2>1. a \in Nat /\ p \in 1..unit /\ (last => a + p = size)
    BY <1>1, Payloads
  <2> HIDE DEF p, a
  <2>2. last => p >= 3
    BY DEF p
  <2> HIDE DEF last
  <2>3. unit \in 1..250 /\ size = Len(resp) + 4
    BY DEF CrcSize
  <2> QED BY ONLY <2>1, <2>2, <2>3
<1>3. RespPacket(resp, unit, crc, i) = packet
  BY DEF RespPacket, Payload, PacketStart
<1> HIDE DEF p, a, last
<1>4. \A j \in 1..(p + 9) : Byte(j) \in Bytes
  <2>1. /\ crc \in Bytes /\ ByteCount(p) \in Bytes /\ i \in Nat
        /\ \A k \in 1..Len(resp) : resp[k] \in Bytes
    <3>1. ByteCount(p) \in Bytes
      BY <1>2 DEF ByteCount, Bytes
    <3> QED BY <1>1, <3>1
  <2>2. (IF i = 1 THEN SOM ELSE 0) + (IF last THEN EOM ELSE 0) \in Bytes /\ 0 \in Bytes
    BY DEF Bytes, SOM, EOM
  <2>3. ASSUME NEW j \in 1..(p + 9), j > 8, a + j - 8 <= Len(resp)
        PROVE  resp[a + j - 8] \in Bytes
    <3>1. a + j - 8 \in 1..Len(resp)
      BY <1>2, <2>3
    <3> QED BY <2>1, <3>1
  <2> HIDE DEF Bytes
  <2>4. ASSUME NEW j \in 1..(p + 9), ~(j = 8), ~(j < 8) PROVE j > 8
    BY <1>2, <2>4
  <2> QED BY <2>1, <2>2, <2>3, <2>4
<1>5. packet \in Seq(Bytes) /\ Len(packet) = p + 9 /\ \A j \in 1..(p + 9) : packet[j] = Byte(j)
  <2>1. p + 9 \in Nat /\ Overhead = 9
    BY <1>2 DEF Overhead
  <2> HIDE DEF Byte
  <2> QED BY <1>4, <2>1
<1> HIDE DEF packet
<1>6. packet[3] = p + 5
  <2>1. 3 \in 1..(p + 9) /\ ~(3 > p + Overhead - CrcSize) /\ ByteCount(p) = p + 5
    BY <1>2 DEF Overhead, CrcSize, ByteCount
  <2> QED BY <1>5, <2>1
<1>7. EomBit(packet[8]) = IF last THEN 1 ELSE 0
  <2>1. 8 \in 1..(p + 9) /\ ~(last /\ 8 > p + Overhead - CrcSize)
    BY <1>2 DEF Overhead, CrcSize
  <2>2. packet[8] = (IF i = 1 THEN SOM ELSE 0) + (IF last THEN EOM ELSE 0)
    BY <1>5, <2>1
  <2> QED BY <2>2 DEF EomBit, SOM, EOM
<1>8. ASSUME NEW k \in 1..p, a + k <= Len(resp)
      PROVE  packet[8 + k] = resp[a + k]
  <2>1. /\ 8 + k \in 1..(p + 9) /\ ~(last /\ 8 + k > p + Overhead - CrcSize)
        /\ 8 + k # 3 /\ 8 + k # 8 /\ ~(8 + k < 8) /\ 8 + k <= 8 + p /\ a + (8 + k) - 8 = a + k
    BY <1>2, <1>8 DEF Overhead, CrcSize
  <2>2. packet[8 + k] = Byte(8 + k)
    BY <1>5, <2>1
  <2> QED BY <1>8, <2>1, <2>2
<1> QED BY <1>3, <1>5, <1>6, <1>7, <1>8 DEF Delivers, p, a, last

\* Where packet i begins among packets of width bytes, the last one perhaps
\* shorter.
Base(i, width) == (i - 1) * width

\* What the bytes of an answer say of its packets, and where its data are.
Framed(stream, resp, unit) ==
  LET size == Len(resp) + CrcSize
      n == PacketsOf(size, unit)
  IN /\ stream \in Seq(Bytes)
     /\ Len(stream) = StreamLen(Len(resp), unit)
     /\ \A i \in 1..n :
          LET p == Payload(size, unit, i)
              b == Base(i, unit + 9)
          IN /\ stream[b + 3] = p + 5
             /\ EomBit(stream[b + 8]) = EomOf(i, n)
             /\ \A k \in 1..p : (i - 1) * unit + k <= Len(resp)
                                  => stream[b + 8 + k] = resp[(i - 1) * unit + k]

\* Packets of a payload and extra bytes each: where they begin and end.
Tiled(len, unit, extra, n) ==
  /\ n \in Nat \ {0}
  /\ Base(1, unit + extra) = 0
  /\ \A i \in 1..n :
       LET p == Payload(len, unit, i)
           b == Base(i, unit + extra)
       IN /\ b \in Nat
          /\ p \in 1..unit
          /\ i # n => b + p + extra = Base(i + 1, unit + extra)
          /\ i = n => b + p + extra = len + extra * n
          /\ b + p + extra <= len + extra * n

\* Packets of a payload and extra bytes each lie side by side.
LEMMA Bases ==
  ASSUME NEW len \in Nat \ {0}, NEW unit \in Nat \ {0}, NEW extra \in Nat
  PROVE  Tiled(len, unit, extra, PacketsOf(len, unit))
<1> DEFINE n == PacketsOf(len, unit)
           w == unit + extra
           p(i) == Payload(len, unit, i)
<1>1. n \in Nat \ {0} /\ w \in Nat
  BY Packets
<1> HIDE DEF n
<1>2. Base(1, w) = 0
  BY <1>1 DEF Base
<1>3. ASSUME NEW i \in 1..n
      PROVE  /\ Base(i, w) \in Nat
             /\ p(i) \in 1..unit
             /\ i # n => Base(i, w) + p(i) + extra = Base(i + 1, w)
             /\ i = n => Base(i, w) + p(i) + extra = len + extra * n
             /\ Base(i, w) + p(i) + extra <= len + extra * n
  <2>0. n = PacketsOf(len, unit)
    BY DEF n
  <2> DEFINE a == (i - 1) * unit
             e == (i - 1) * extra
             f == extra * n
             q == p(i)
  <2>1. /\ a \in Nat /\ q \in 1..unit /\ a + q <= len
        /\ a + q = IF i = n THEN len ELSE i * unit
    BY <2>0, Payloads
  <2>2. i - 1 \in Nat /\ i \in Nat /\ (i - 1) + 1 = i /\ i <= n
    BY <1>1
  <2>3. /\ e \in Nat /\ e + extra = i * extra /\ i * extra <= f /\ f \in Nat
        /\ i = n => i * extra = f
    <3>1. n * extra = f
      BY <1>1
    <3>2. ((i - 1) + 1) * extra = (i - 1) * extra + extra /\ i * extra <= n * extra
      BY <1>1, <2>2, Rows
    <3>3. (i - 1) * extra \in Nat /\ n * extra \in Nat
      BY <1>1, <2>2, Rows
    <3> QED BY <2>2, <3>1, <3>2, <3>3
  <2>4. Base(i, w) = a + e
    <3>1. (i - 1) * (unit + extra) = (i - 1) * unit + (i - 1) * extra
      BY <2>2
    <3> QED BY <3>1 DEF Base
  <2>5. Base(i + 1, w) = i * unit + i * extra
    <3>1. i * (unit + extra) = i * unit + i * extra /\ (i + 1) - 1 = i
      BY <2>2
    <3> QED BY <3>1 DEF Base
  <2>6. i * unit \in Nat /\ i * extra \in Nat
    BY <2>2
  <2> HIDE DEF a, e, f, q
  <2>7. /\ a + e \in Nat /\ q \in 1..unit
        /\ i # n => (a + e) + q + extra = i * unit + i * extra
        /\ i = n => (a + e) + q + extra = len + f
        /\ (a + e) + q + extra <= len + f
    <3>1. len \in Nat /\ unit \in Nat /\ extra \in Nat
      OBVIOUS
    <3> QED BY ONLY <2>1, <2>3, <2>6, <3>1
  <2> QED BY <2>4, <2>5, <2>7 DEF q, f
<1> QED BY <1>1, <1>2, <1>3 DEF Tiled, n

\* What nvme_mi_send_resp posts is framed as the slave and the host take it apart.
LEMMA SendIs ==
  ASSUME NEW resp \in Seq(Bytes), NEW unit \in 1..250, NEW crc \in Bytes,
         NEW size, size = Len(resp) + CrcSize,
         NEW n, n = PacketsOf(size, unit), Payload(size, unit, n) >= 3
  PROVE  Framed(send_resp(resp, unit, crc), resp, unit)
<1> DEFINE w == unit + 9
           p(i) == Payload(size, unit, i)
           pkts == [i \in 1..n |-> RespPacket(resp, unit, crc, i)]
           stream == FlattenSeq(pkts)
<1>1. size \in Nat \ {0} /\ unit \in Nat \ {0} /\ w \in Nat
  <2>1. size \in Nat \ {0} /\ unit \in Nat \ {0}
    BY DEF CrcSize
  <2> QED BY <2>1
<1>2. /\ n \in Nat \ {0}
      /\ \A i \in 1..n :
           /\ Base(i, w) \in Nat
           /\ p(i) \in 1..unit
           /\ Base(i, w) + p(i) + 9 <= size + 9 * n
           /\ i = n => Base(i, w) + p(i) + 9 = size + 9 * n
  <2>1. size \in Nat \ {0} /\ unit \in Nat \ {0} /\ 9 \in Nat /\ n = PacketsOf(size, unit)
    BY <1>1
  <2>2. Tiled(size, unit, 9, n)
    BY ONLY <2>1, Bases
  <2> QED BY <2>2 DEF Tiled
<1>3. \A i \in 1..n : Delivers(RespPacket(resp, unit, crc, i), resp, i = n, p(i), (i - 1) * unit)
  BY RespPacketIs
<1>4. \A i \in 1..(n - 1) : p(i) = unit
  <2>1. \A i \in 1..(n - 1) : i # n
    BY <1>2
  <2> QED BY <2>1 DEF Payload
<1> HIDE DEF p
<1>5. /\ pkts \in Seq(Seq(Bytes)) /\ Len(pkts) = n
      /\ \A i \in 1..n : Len(pkts[i]) = p(i) + 9 /\ Delivers(pkts[i], resp, i = n, p(i), (i - 1) * unit)
      /\ \A i \in 1..(n - 1) : Len(pkts[i]) = w
  <2>1. \A i \in 1..n : pkts[i] = RespPacket(resp, unit, crc, i)
    OBVIOUS
  <2>2. \A i \in 1..n : pkts[i] \in Seq(Bytes) /\ Len(pkts[i]) = p(i) + 9
    BY <1>3, <2>1 DEF Delivers
  <2>3. \A i \in 1..n : Delivers(pkts[i], resp, i = n, p(i), (i - 1) * unit)
    BY <1>3, <2>1, Zenon
  <2>4. pkts = [i \in 1..n |-> pkts[i]]
    OBVIOUS
  <2> HIDE DEF pkts
  <2>5. pkts \in Seq(Seq(Bytes)) /\ Len(pkts) = n
    <3>1. n \in Nat /\ \A i \in 1..n : pkts[i] \in Seq(Bytes)
      BY <1>2, <2>2
    <3> QED BY ONLY <2>4, <3>1
  <2>6. \A i \in 1..(n - 1) : Len(pkts[i]) = w
    BY <1>2, <1>4, <2>2
  <2> QED BY <2>2, <2>3, <2>5, <2>6
<1> HIDE DEF pkts
<1>6. stream \in Seq(Bytes) /\ InARow(stream, pkts, n, w)
  <2>1. /\ pkts \in Seq(Seq(Bytes)) /\ n \in Nat \ {0} /\ Len(pkts) = n /\ w \in Nat
        /\ \A i \in 1..(n - 1) : Len(pkts[i]) = w
    BY <1>1, <1>2, <1>5
  <2> HIDE DEF w
  <2> QED BY ONLY <2>1, FlattenOf
<1>7. send_resp(resp, unit, crc) = stream
  BY DEF send_resp, pkts
<1> HIDE DEF stream
<1>8. Len(stream) = StreamLen(Len(resp), unit)
  <2>1. Len(stream) = Base(n, w) + Len(pkts[n])
    BY <1>6 DEF InARow, Base
  <2>2. n \in 1..n /\ Len(pkts[n]) = p(n) + 9
    BY <1>2, <1>5
  <2>3. Len(stream) = size + 9 * n
    BY <1>2, <2>1, <2>2
  <2> QED BY <2>3 DEF StreamLen, Overhead
<1>9. ASSUME NEW i \in 1..n, NEW b, b = Base(i, w)
      PROVE  /\ stream[b + 3] = p(i) + 5
             /\ EomBit(stream[b + 8]) = EomOf(i, n)
             /\ \A k \in 1..p(i) : (i - 1) * unit + k <= Len(resp)
                                  => stream[b + 8 + k] = resp[(i - 1) * unit + k]
  <2>1. /\ Len(pkts[i]) = p(i) + 9 /\ pkts[i][3] = p(i) + 5
        /\ EomBit(pkts[i][8]) = EomOf(i, n)
        /\ \A k \in 1..p(i) : (i - 1) * unit + k <= Len(resp) => pkts[i][8 + k] = resp[(i - 1) * unit + k]
    BY <1>5 DEF Delivers, EomOf
  <2>2. \A j \in 1..Len(pkts[i]) : stream[b + j] = pkts[i][j]
    BY <1>6, <1>9 DEF InARow, Base
  <2>3. b \in Nat /\ p(i) \in 1..unit
    BY <1>2, <1>9
  <2>4. 3 \in 1..(p(i) + 9) /\ 8 \in 1..(p(i) + 9)
    BY <2>3
  <2>5. \A k \in 1..p(i) : 8 + k \in 1..(p(i) + 9) /\ b + (8 + k) = b + 8 + k
    BY <2>3
  <2>6. \A k \in 1..p(i) : stream[b + 8 + k] = pkts[i][8 + k]
    BY <2>1, <2>2, <2>5
  <2>7. stream[b + 3] = p(i) + 5 /\ EomBit(stream[b + 8]) = EomOf(i, n)
    BY <2>1, <2>2, <2>4
  <2> QED BY <2>1, <2>6, <2>7
<1> QED BY <1>6, <1>7, <1>8, <1>9 DEF Framed, p

-----------------------------------------------------------------------------
(* The slave takes an answer                                               *)

SlaveType ==
  [sendlen : 0..BufSize, recvlen : 0..BufSize, pktpos : 0..259, pktlen : 0..256,
   eom : {0, 1}, syncflag : BOOLEAN, recvbuffer : [1..BufSize -> Bytes]]

\* The slave when no answer is on its way to it.
Rest(s) ==
  /\ s \in SlaveType
  /\ s.sendlen = 0 /\ s.pktpos = 0 /\ s.pktlen = 0 /\ s.eom = 0 /\ ~s.syncflag

\* The slave with an answer it has whole, not read yet.
Holds(s, stream) ==
  /\ Rest(s)
  /\ s.recvlen = 0
  /\ \A k \in 1..Len(stream) : s.recvbuffer[k] = stream[k]

\* The slave after j bytes of the packet of p bytes of payload that begins at b;
\* e is the packet's end-of-message flag.
Taken(s, stream, b, j, p, e) ==
  /\ s.sendlen = b + j
  /\ s.pktpos = j
  /\ s.pktlen = IF j >= 3 THEN p + 6 ELSE 0
  /\ s.eom = IF j >= 8 THEN e ELSE 0
  /\ s.recvlen \in 0..BufSize
  /\ s.recvbuffer \in [1..BufSize -> Bytes]
  /\ \A k \in 1..(b + j) : s.recvbuffer[k] = stream[k]

\* The slave between two packets of an answer, after x bytes.
Between(s, stream, x) == \A p \in 1..250, e \in {0, 1} : Taken(s, stream, x, 0, p, e)

\* A packet of the stream.
PacketAt(stream, b, p, e) ==
  /\ b + p + 9 <= Len(stream)
  /\ stream[b + 3] = p + 5
  /\ EomBit(stream[b + 8]) = e

\* The slave's buffer after one more byte.
LEMMA StoreByte ==
  ASSUME NEW stream \in Seq(Bytes), BufSize \in Nat, Len(stream) <= BufSize,
         NEW x \in Nat, x + 1 <= Len(stream),
         NEW old \in [1..BufSize -> Bytes], \A k \in 1..x : old[k] = stream[k]
  PROVE  LET new == [old EXCEPT ![x + 1] = stream[x + 1]]
         IN /\ new \in [1..BufSize -> Bytes]
            /\ \A k \in 1..(x + 1) : new[k] = stream[k]
<1> HIDE DEF Bytes
<1>1. stream[x + 1] \in Bytes /\ x + 1 \in 1..BufSize
  OBVIOUS
<1> QED BY <1>1

\* A byte of a packet that is not its last one.
LEMMA ByteTaken ==
  ASSUME NEW stream \in Seq(Bytes), BufSize \in Nat, Len(stream) <= BufSize,
         NEW b \in Nat, NEW p \in 1..250, NEW e \in {0, 1}, PacketAt(stream, b, p, e),
         NEW j \in 0..(p + 7), NEW s, Taken(s, stream, b, j, p, e)
  PROVE  Taken(SlaveSend(s, stream[b + j + 1]), stream, b, j + 1, p, e)
<1> DEFINE data == stream[b + j + 1]
           t == SlaveSend(s, data)
           len == IF s.pktpos = 2 THEN data + 1 ELSE s.pktlen
           eom == IF s.pktpos = 7 THEN EomBit(data) ELSE s.eom
<1>1. len = IF j >= 2 THEN p + 6 ELSE 0
  <2>1. j = 2 => data = p + 5
    BY DEF PacketAt
  <2>2. j \in Nat /\ s.pktpos = j /\ s.pktlen = (IF j >= 3 THEN p + 6 ELSE 0)
    BY DEF Taken
  <2> HIDE DEF data
  <2> QED BY ONLY <2>1, <2>2, p \in 1..250
<1>2. eom = IF j >= 7 THEN e ELSE 0
  <2>1. j = 7 => EomBit(data) = e
    BY DEF PacketAt
  <2>2. j \in Nat /\ s.pktpos = j /\ s.eom = (IF j >= 8 THEN e ELSE 0)
    BY DEF Taken
  <2> HIDE DEF data
  <2> QED BY ONLY <2>1, <2>2, e \in {0, 1}
<1> HIDE DEF data
<1>3. s.pktpos + 1 # len + 3
  <2>1. s.pktpos = j
    BY DEF Taken
  <2> QED BY ONLY <1>1, <2>1, j \in 0..(p + 7), p \in 1..250
<1> HIDE DEF len, eom
<1>4. t = [sendlen |-> s.sendlen + 1, recvlen |-> s.recvlen, pktpos |-> s.pktpos + 1,
           pktlen |-> len, eom |-> eom, syncflag |-> TRUE,
           recvbuffer |-> [s.recvbuffer EXCEPT ![s.sendlen + 1] = data]]
  BY <1>3 DEF SlaveSend, ReaderAfter, len, eom
<1> HIDE DEF t
<1>5. s.sendlen = b + j /\ b + j \in Nat /\ b + (j + 1) = (b + j) + 1 /\ b + j + 1 <= Len(stream)
  BY DEF Taken, PacketAt
<1>6. /\ t.recvbuffer \in [1..BufSize -> Bytes]
      /\ \A k \in 1..(b + (j + 1)) : t.recvbuffer[k] = stream[k]
  <2>1. /\ s.recvbuffer \in [1..BufSize -> Bytes]
        /\ \A k \in 1..(b + j) : s.recvbuffer[k] = stream[k]
    BY DEF Taken
  <2>2. t.recvbuffer = [s.recvbuffer EXCEPT ![(b + j) + 1] = stream[(b + j) + 1]]
    BY <1>4, <1>5 DEF data
  <2> QED BY <1>5, <2>1, <2>2, StoreByte
<1>7. /\ t.sendlen = b + (j + 1) /\ t.recvlen \in 0..BufSize /\ t.pktpos = j + 1
      /\ t.pktlen = (IF j + 1 >= 3 THEN p + 6 ELSE 0) /\ t.eom = (IF j + 1 >= 8 THEN e ELSE 0)
  <2>1. s.pktpos = j /\ s.recvlen \in 0..BufSize
    BY DEF Taken
  <2>2. t.sendlen = s.sendlen + 1 /\ t.recvlen = s.recvlen /\ t.pktpos = s.pktpos + 1
        /\ t.pktlen = len /\ t.eom = eom
    BY <1>4
  <2>3. j \in Nat /\ (j + 1 >= 3 <=> j >= 2) /\ (j + 1 >= 8 <=> j >= 7)
    OBVIOUS
  <2> QED BY <1>1, <1>2, <1>5, <2>1, <2>2, <2>3 DEF len, eom
<1> QED BY <1>6, <1>7 DEF Taken, t, data

\* The last byte of a packet: the slave waits for another one, or has the answer.
LEMMA LastByteTaken ==
  ASSUME NEW stream \in Seq(Bytes), BufSize \in Nat, Len(stream) <= BufSize,
         NEW b \in Nat, NEW p \in 1..250, NEW e \in {0, 1}, PacketAt(stream, b, p, e),
         NEW s, Taken(s, stream, b, p + 8, p, e),
         e = 1 => b + p + 9 = Len(stream)
  PROVE  /\ e = 0 => Between(SlaveSend(s, stream[b + p + 9]), stream, b + p + 9)
         /\ e = 1 => Holds(SlaveSend(s, stream[b + p + 9]), stream)
<1> DEFINE x == b + p + 8
           data == stream[x + 1]
           t == SlaveSend(s, data)
           new == [s.recvbuffer EXCEPT ![s.sendlen + 1] = data]
<1>1. /\ s.sendlen = x /\ s.pktpos = p + 8 /\ s.pktlen = p + 6 /\ s.eom = e
      /\ s.recvlen \in 0..BufSize
      /\ s.recvbuffer \in [1..BufSize -> Bytes]
      /\ \A k \in 1..x : s.recvbuffer[k] = stream[k]
  <2>1. p + 8 >= 8 /\ p + 8 >= 3 /\ b + (p + 8) = b + p + 8
    OBVIOUS
  <2> QED BY <2>1 DEF Taken
<1>2. x \in Nat /\ x + 1 <= Len(stream) /\ x + 1 = b + p + 9
  BY DEF PacketAt
<1>3. /\ new \in [1..BufSize -> Bytes]
      /\ \A k \in 1..(x + 1) : new[k] = stream[k]
  <2> HIDE DEF x
  <2> QED BY <1>1, <1>2, StoreByte
<1>4. s.pktpos + 1 = s.pktlen + 3 /\ s.pktpos # 2 /\ s.pktpos # 7
  <2>1. s.pktpos = p + 8 /\ s.pktlen = p + 6
    BY <1>1
  <2> QED BY ONLY <2>1, p \in 1..250
<1> HIDE DEF new, data
<1>5. t = [sendlen |-> IF e = 1 THEN 0 ELSE s.sendlen + 1,
           recvlen |-> IF e = 1 THEN 0 ELSE s.recvlen,
           pktpos |-> 0, pktlen |-> 0, eom |-> IF e = 1 THEN 0 ELSE e,
           syncflag |-> ~(e = 1), recvbuffer |-> new]
  BY <1>1, <1>4 DEF SlaveSend, ReaderAfter, new
<1> HIDE DEF t
<1>6. ASSUME e = 0, NEW q \in 1..250, NEW f \in {0, 1}
      PROVE  Taken(t, stream, b + p + 9, 0, q, f)
  <2>1. t.sendlen = b + p + 9 /\ t.recvlen = s.recvlen /\ t.pktpos = 0 /\ t.pktlen = 0
        /\ t.eom = 0 /\ t.recvbuffer = new
    BY <1>1, <1>2, <1>5, <1>6
  <2>2. (b + p + 9) + 0 = x + 1 /\ b + p + 9 = x + 1
    BY <1>2
  <2> HIDE DEF x
  <2>3. ~(0 >= 3) /\ ~(0 >= 8)
    OBVIOUS
  <2> QED BY <1>1, <1>3, <2>1, <2>2, <2>3 DEF Taken
<1>7. ASSUME e = 1
      PROVE  Holds(t, stream)
  <2>1. t = [sendlen |-> 0, recvlen |-> 0, pktpos |-> 0, pktlen |-> 0, eom |-> 0,
             syncflag |-> FALSE, recvbuffer |-> new]
    BY <1>5, <1>7
  <2>2. x + 1 = Len(stream)
    BY <1>2, <1>7
  <2>3. 0 \in 0..BufSize
    OBVIOUS
  <2> HIDE DEF x
  <2> QED BY <1>3, <2>1, <2>2, <2>3 DEF Holds, Rest, SlaveType
<1> QED BY <1>2, <1>6, <1>7 DEF t, data, Between

\* An answer posted byte by byte to a slave at rest is whole and unread after it:
\* induction over its packets, and over the bytes of each.
LEMMA SlaveTakesAnswer ==
  ASSUME NEW resp, NEW unit \in 1..250, NEW stream, Framed(stream, resp, unit),
         NEW size \in Nat \ {0}, size = Len(resp) + CrcSize,
         BufSize \in Nat, Len(stream) <= BufSize,
         NEW s, Rest(s)
  PROVE  Holds(FoldLeft(SlaveSend, s, stream), stream)
<1> DEFINE n == PacketsOf(size, unit)
           p(i) == Payload(size, unit, i)
           b(i) == Base(i, unit + 9)
           At(t, x) == \E i \in 1..n : \E j \in 0..(p(i) + 8) :
                          /\ x = b(i) + j
                          /\ Taken(t, stream, b(i), j, p(i), EomOf(i, n))
           total == size + 9 * n
<1>1. /\ stream \in Seq(Bytes) /\ Len(stream) = total
      /\ \A i \in 1..n : stream[b(i) + 3] = p(i) + 5 /\ EomBit(stream[b(i) + 8]) = EomOf(i, n)
  <2>1. Len(stream) = StreamLen(Len(resp), unit)
    BY DEF Framed
  <2>2. StreamLen(Len(resp), unit) = total
    BY DEF StreamLen, Overhead
  <2> QED BY <2>1, <2>2 DEF Framed
<1>2. /\ n \in Nat \ {0} /\ b(1) = 0
      /\ \A i \in 1..n :
           /\ b(i) \in Nat
           /\ p(i) \in 1..unit
           /\ i # n => b(i) + p(i) + 9 = b(i + 1)
           /\ i = n => b(i) + p(i) + 9 = total
           /\ b(i) + p(i) + 9 <= total
  <2>1. size \in Nat \ {0} /\ unit \in Nat \ {0} /\ 9 \in Nat
    OBVIOUS
  <2>2. Tiled(size, unit, 9, n)
    BY ONLY <2>1, Bases
  <2> QED BY <2>2 DEF Tiled
<1> HIDE DEF n, p, b, total
<1>3. \A i \in 1..n : /\ PacketAt(stream, b(i), p(i), EomOf(i, n))
                      /\ p(i) \in 1..250 /\ EomOf(i, n) \in {0, 1}
                      /\ EomOf(i, n) = 1 <=> i = n
  <2>1. \A i \in 1..n : p(i) \in 1..250
    <3>1. unit \in 1..250 /\ \A i \in 1..n : p(i) \in 1..unit
      BY <1>2
    <3> QED BY ONLY <3>1
  <2> QED BY <1>1, <1>2, <2>1 DEF PacketAt, EomOf
<1>4. PICK f : /\ f[0] = s
               /\ \A k \in 1..total : f[k] = SlaveSend(f[k - 1], stream[k])
               /\ f[total] = FoldLeft(SlaveSend, s, stream)
  <2>1. total \in Nat /\ DOMAIN stream = 1..total
    BY <1>1
  <2> QED BY ONLY <2>1, FoldOfSlave
<1> DEFINE Reached == {x \in Nat : x < total => At(f[x], x)}
<1>5. 0 \in Reached
  <2>1. 1 \in 1..n
    BY <1>2
  <2>2. 0 \in 0..(p(1) + 8) /\ 0 = b(1) + 0
    BY <1>2, <2>1
  <2>3. Taken(s, stream, b(1), 0, p(1), EomOf(1, n))
    BY <1>2 DEF Taken, Rest, SlaveType
  <2> QED BY <1>4, <2>1, <2>2, <2>3
<1>6. ASSUME NEW x \in Nat, x \in Reached
      PROVE  x + 1 \in Reached
  <2> SUFFICES ASSUME x + 1 < total, At(f[x], x)
               PROVE  At(f[x + 1], x + 1)
    <3>1. x + 1 < total => x < total
      BY <1>1
    <3> HIDE DEF At
    <3> QED BY <1>6, <3>1
  <2>1. PICK i \in 1..n : \E j \in 0..(p(i) + 8) :
               /\ x = b(i) + j
               /\ Taken(f[x], stream, b(i), j, p(i), EomOf(i, n))
    OBVIOUS
  <2>2. PICK j \in 0..(p(i) + 8) :
               /\ x = b(i) + j
               /\ Taken(f[x], stream, b(i), j, p(i), EomOf(i, n))
    BY <2>1
  <2>3. f[x + 1] = SlaveSend(f[x], stream[x + 1])
    <3>1. x + 1 \in 1..total /\ (x + 1) - 1 = x
      BY <1>1
    <3> QED BY <1>4, <3>1
  <2>4. /\ b(i) \in Nat /\ p(i) \in 1..250 /\ EomOf(i, n) \in {0, 1}
        /\ PacketAt(stream, b(i), p(i), EomOf(i, n))
    BY <1>2, <1>3
  <2>5. CASE j < p(i) + 8
    <3>1. j \in 0..(p(i) + 7) /\ x + 1 = b(i) + j + 1 /\ j + 1 \in 0..(p(i) + 8)
          /\ x + 1 = b(i) + (j + 1)
      BY ONLY <2>2, <2>4, <2>5, j \in 0..(p(i) + 8)
    <3>2. Taken(SlaveSend(f[x], stream[b(i) + j + 1]), stream, b(i), j + 1, p(i), EomOf(i, n))
      BY <1>1, <2>2, <2>4, <3>1, ByteTaken
    <3> QED BY <2>3, <3>1, <3>2
  <2>6. CASE j = p(i) + 8
    <3>1. x + 1 = b(i) + p(i) + 9
      BY ONLY <2>2, <2>4, <2>6
    <3>2. i # n
      BY <1>2, <3>1
    <3>3. i + 1 \in 1..n /\ EomOf(i, n) = 0
      BY <1>2, <3>2 DEF EomOf
    <3>4. b(i + 1) = x + 1 /\ 0 \in 0..(p(i + 1) + 8) /\ b(i + 1) + 0 = x + 1
          /\ p(i + 1) \in 1..250 /\ EomOf(i + 1, n) \in {0, 1}
      <4>1. /\ b(i + 1) = b(i) + p(i) + 9 /\ p(i + 1) \in 1..250
            /\ EomOf(i + 1, n) \in {0, 1} /\ b(i + 1) \in Nat
        BY <1>2, <1>3, <3>2, <3>3
      <4> QED BY ONLY <4>1, <3>1
    <3>5. Between(SlaveSend(f[x], stream[b(i) + p(i) + 9]), stream, b(i) + p(i) + 9)
      <4>1. /\ stream \in Seq(Bytes) /\ Len(stream) <= BufSize /\ BufSize \in Nat
            /\ Taken(f[x], stream, b(i), p(i) + 8, p(i), EomOf(i, n)) /\ EomOf(i, n) # 1
        BY <1>1, <2>2, <2>6, <3>3
      <4> QED BY ONLY <2>4, <3>3, <4>1, LastByteTaken
    <3>6. Taken(f[x + 1], stream, b(i + 1), 0, p(i + 1), EomOf(i + 1, n))
      BY <2>3, <3>1, <3>4, <3>5 DEF Between
    <3> QED BY <3>3, <3>4, <3>6
  <2>7. j < p(i) + 8 \/ j = p(i) + 8
    BY ONLY <2>4, j \in 0..(p(i) + 8)
  <2> HIDE DEF At
  <2> QED BY <2>5, <2>6, <2>7
<1>7. \A x \in Nat : x \in Reached
  <2> HIDE DEF Reached
  <2> QED BY <1>5, <1>6, NatSetInduction
<1>8. At(f[total - 1], total - 1) /\ total \in 1..total
  <2>1. total - 1 \in Nat /\ total - 1 < total /\ total \in 1..total
    <3>1. total \in Nat
      BY <1>1
    <3>2. total # 0
      <4>1. n \in 1..n
        BY <1>2
      <4>2. b(n) \in Nat /\ p(n) \in 1..250 /\ b(n) + p(n) + 9 = total
        BY <1>2, <1>3, <4>1
      <4> QED BY ONLY <4>2
    <3> QED BY ONLY <3>1, <3>2
  <2> HIDE DEF At
  <2> QED BY <1>7, <2>1
<1>9. PICK i \in 1..n : \E j \in 0..(p(i) + 8) :
             /\ total - 1 = b(i) + j
             /\ Taken(f[total - 1], stream, b(i), j, p(i), EomOf(i, n))
  BY <1>8
<1>10. PICK j \in 0..(p(i) + 8) :
             /\ total - 1 = b(i) + j
             /\ Taken(f[total - 1], stream, b(i), j, p(i), EomOf(i, n))
  BY <1>9
<1>11. /\ b(i) \in Nat /\ p(i) \in 1..250
       /\ EomOf(i, n) \in {0, 1} /\ PacketAt(stream, b(i), p(i), EomOf(i, n))
  BY <1>2, <1>3
<1>12. j = p(i) + 8 /\ b(i) + p(i) + 9 = total
  <2>1. b(i) + p(i) + 9 <= total /\ total \in Nat /\ total - 1 = b(i) + j
    BY <1>1, <1>2, <1>10
  <2> QED BY ONLY <1>11, <2>1, j \in 0..(p(i) + 8)
<1>13. i = n
  <2> SUFFICES ASSUME i # n PROVE FALSE
    OBVIOUS
  <2>1. i + 1 \in 1..n
    BY <1>2
  <2>2. b(i + 1) = total /\ b(i + 1) + p(i + 1) + 9 <= total /\ p(i + 1) \in 1..250 /\ b(i + 1) \in Nat
    BY <1>2, <1>3, <1>12, <2>1
  <2> QED BY ONLY <2>2
<1>14. Holds(SlaveSend(f[total - 1], stream[b(i) + p(i) + 9]), stream)
  <2>1. EomOf(i, n) = 1
    BY <1>13 DEF EomOf
  <2> QED BY <1>1, <1>10, <1>11, <1>12, <2>1, LastByteTaken
<1> QED BY <1>4, <1>8, <1>12, <1>14

-----------------------------------------------------------------------------
(* The endpoint takes a request                                            *)

\* The beginning of a sequence.
LEMMA Prefix ==
  ASSUME NEW A, NEW s \in Seq(A), NEW a \in 0..Len(s)
  PROVE  /\ SubSeq(s, 1, a) \in Seq(A)
         /\ Len(SubSeq(s, 1, a)) = a
         /\ \A k \in 1..a : SubSeq(s, 1, a)[k] = s[k]
<1>1. SubSeq(s, 0 + 1, a) = SubSeq(s, 1, a) /\ a - 0 = a /\ \A k \in 1..a : 0 + k = k
  OBVIOUS
<1>2. 0 \in Nat /\ a \in Nat /\ 0 <= a /\ a <= Len(s)
  OBVIOUS
<1> QED BY <1>1, <1>2, Piece

\* The beginning of a sequence and the element behind it.
LEMMA PrefixGrows ==
  ASSUME NEW A, NEW s \in Seq(A), NEW j \in 0..(Len(s) - 1)
  PROVE  Append(SubSeq(s, 1, j), s[j + 1]) = SubSeq(s, 1, j + 1)
<1> DEFINE l == SubSeq(s, 1, j)
           t == SubSeq(s, 1, j + 1)
<1>1. l \in Seq(A) /\ Len(l) = j /\ \A k \in 1..j : l[k] = s[k]
  <2>1. j \in 0..Len(s)
    OBVIOUS
  <2> QED BY <2>1, Prefix
<1>2. t \in Seq(A) /\ Len(t) = j + 1 /\ \A k \in 1..(j + 1) : t[k] = s[k]
  <2>1. j + 1 \in 0..Len(s)
    OBVIOUS
  <2> QED BY <2>1, Prefix
<1>3. s[j + 1] \in A
  OBVIOUS
<1> HIDE DEF l, t
<1>4. Append(l, s[j + 1]) = t
  BY <1>1, <1>2, <1>3
<1> QED BY <1>4 DEF l, t

\* A piece of the beginning is a piece of the whole.
LEMMA PieceOfPrefix ==
  ASSUME NEW A, NEW s \in Seq(A), NEW a \in Nat, NEW b \in Nat, NEW c \in 0..Len(s),
         a <= b, b <= c
  PROVE  SubSeq(SubSeq(s, 1, c), a + 1, b) = SubSeq(s, a + 1, b)
<1> DEFINE l == SubSeq(s, 1, c)
           x == SubSeq(l, a + 1, b)
           y == SubSeq(s, a + 1, b)
<1>1. l \in Seq(A) /\ Len(l) = c /\ \A k \in 1..c : l[k] = s[k]
  BY Prefix
<1>2. y \in Seq(A) /\ Len(y) = b - a /\ \A k \in 1..(b - a) : y[k] = s[a + k]
  BY Piece
<1> HIDE DEF l, y
<1>3. x \in Seq(A) /\ Len(x) = b - a /\ \A k \in 1..(b - a) : x[k] = l[a + k]
  BY <1>1, Piece
<1> HIDE DEF x
<1>4. x = y
  <2>1. \A k \in 1..(b - a) : a + k \in 1..c
    OBVIOUS
  <2>2. \A k \in 1..(b - a) : x[k] = y[k]
    BY <1>1, <1>2, <1>3, <2>1
  <2>3. x = [k \in 1..(b - a) |-> x[k]] /\ y = [k \in 1..(b - a) |-> y[k]]
    BY ONLY <1>2, <1>3
  <2> QED BY ONLY <2>2, <2>3
<1> QED BY <1>4 DEF x, y, l

EpType ==
  [pktlen : 0..256, pktpos : 0..259, eom : {0, 1}, packet : Seq(Bytes),
   cmdbuffer : Seq(Bytes), offset : Nat, unit : Units \cup {DefaultUnit}]

\* The end-of-message flag is a bit.
LEMMA EomBitIs ==
  ASSUME NEW b \in Bytes
  PROVE  EomBit(b) \in {0, 1}
BY DEF EomBit, Bytes

\* The endpoint has j bytes of packet c.
Got(e, c, p, f, j) ==
  /\ e.pktpos = j
  /\ e.packet = SubSeq(c, 1, j)
  /\ e.pktlen = IF j >= 2 THEN p + 5 ELSE 0
  /\ e.eom = IF j >= 7 THEN f ELSE 0

\* The endpoint has put together the first a bytes of a message.
Gathered(e, msg, a) ==
  /\ e.offset = a
  /\ a <= Len(e.cmdbuffer)
  /\ SubSeq(e.cmdbuffer, 1, a) = SubSeq(msg, 1, a)

\* A byte of a request's packet that is not its last one, at the endpoint.
LEMMA PacketGrows ==
  ASSUME NEW c, NEW p \in 1..251, NEW f \in {0, 1}, Chunk(c, p, f), NEW j \in 0..(p + 6),
         ep \in EpType, Got(ep, c, p, f, j), EndpointSend(c[j + 1])
  PROVE  /\ ~EndsPacket(c[j + 1])
         /\ ep' \in EpType
         /\ Got(ep', c, p, f, j + 1)
         /\ ep'.offset = ep.offset /\ ep'.cmdbuffer = ep.cmdbuffer /\ ep'.unit = ep.unit
         /\ UNCHANGED slave
<1> DEFINE data == c[j + 1]
           len == PacketLen(data)
           eom == PacketEom(data)
           packet == Append(ep.packet, data)
<1>1. len = IF j >= 1 THEN p + 5 ELSE 0
  <2>1. j = 1 => data = p + 4
    BY DEF Chunk
  <2>2. ep.pktpos = j /\ ep.pktlen = (IF j >= 2 THEN p + 5 ELSE 0)
    BY DEF Got
  <2> HIDE DEF data
  <2> QED BY ONLY <2>1, <2>2, p \in 1..251, j \in 0..(p + 6) DEF PacketLen
<1>2. eom = IF j >= 6 THEN f ELSE 0
  <2>1. j = 6 => EomBit(data) = f
    BY DEF Chunk
  <2>2. ep.pktpos = j /\ ep.eom = (IF j >= 7 THEN f ELSE 0)
    BY DEF Got
  <2> HIDE DEF data
  <2> QED BY ONLY <2>1, <2>2, f \in {0, 1}, j \in 0..(p + 6), p \in 1..251 DEF PacketEom
<1>3. ep.pktpos + 1 # len + 3 /\ ~EndsPacket(data)
  <2>1. ep.pktpos = j
    BY DEF Got
  <2>2. ep.pktpos + 1 # len + 3
    <3> HIDE DEF len
    <3> QED BY ONLY <1>1, <2>1, p \in 1..251, j \in 0..(p + 6)
  <2> QED BY ONLY <2>2 DEF EndsPacket
<1>4. packet = SubSeq(c, 1, j + 1) /\ packet \in Seq(Bytes)
  <2>1. j \in 0..(Len(c) - 1) /\ j + 1 \in 0..Len(c) /\ c \in Seq(Bytes)
    BY DEF Chunk
  <2>2. packet = Append(SubSeq(c, 1, j), c[j + 1])
    BY DEF Got
  <2>3. Append(SubSeq(c, 1, j), c[j + 1]) = SubSeq(c, 1, j + 1) /\ SubSeq(c, 1, j + 1) \in Seq(Bytes)
    BY ONLY <2>1, Prefix, PrefixGrows
  <2> QED BY <2>2, <2>3
<1> HIDE DEF data
<1>5. /\ ep' = [ep EXCEPT !.pktpos = @ + 1, !.pktlen = len, !.eom = eom, !.packet = packet]
      /\ UNCHANGED slave
  BY <1>3 DEF EndpointSend, data
<1> HIDE DEF len, eom, packet
<1>6. j + 1 \in 0..259 /\ len \in 0..256 /\ eom \in {0, 1} /\ ep.pktpos = j
  <2>1. j + 1 \in 0..259
    OBVIOUS
  <2>2. len \in 0..256
    BY ONLY <1>1, p \in 1..251
  <2> QED BY <1>2, <2>1, <2>2 DEF Got
<1>7. /\ ep'.pktpos = j + 1 /\ ep'.pktlen = len /\ ep'.eom = eom /\ ep'.packet = packet
      /\ ep'.offset = ep.offset /\ ep'.cmdbuffer = ep.cmdbuffer /\ ep'.unit = ep.unit
      /\ ep' \in EpType
  <2>1. ep \in EpType
    OBVIOUS
  <2>2. ep = [pktlen |-> ep.pktlen, pktpos |-> ep.pktpos, eom |-> ep.eom, packet |-> ep.packet,
              cmdbuffer |-> ep.cmdbuffer, offset |-> ep.offset, unit |-> ep.unit]
    BY ONLY <2>1 DEF EpType
  <2>3. ep' = [pktlen |-> len, pktpos |-> ep.pktpos + 1, eom |-> eom, packet |-> packet,
               cmdbuffer |-> ep.cmdbuffer, offset |-> ep.offset, unit |-> ep.unit]
    BY ONLY <1>5, <2>2
  <2>4. ep.cmdbuffer \in Seq(Bytes) /\ ep.offset \in Nat /\ ep.unit \in Units \cup {DefaultUnit}
    BY ONLY <2>1 DEF EpType
  <2>5. ep.pktpos + 1 \in 0..259 /\ ep.pktpos + 1 = j + 1
    BY ONLY <1>6
  <2>6. ep' \in EpType
    BY ONLY <1>4, <1>6, <2>3, <2>4, <2>5 DEF EpType
  <2> QED BY ONLY <2>3, <2>5, <2>6
<1>8. (j + 1 >= 2 <=> j >= 1) /\ (j + 1 >= 7 <=> j >= 6)
  OBVIOUS
<1> QED BY <1>1, <1>2, <1>3, <1>4, <1>5, <1>7, <1>8 DEF Got, data

\* The last byte: the payload joins the command buffer, or the command runs.
LEMMA PacketEnds ==
  ASSUME NEW c, NEW p \in 1..251, NEW f \in {0, 1}, Chunk(c, p, f),
         NEW msg \in Seq(Bytes), NEW a \in Nat, a + p <= Len(msg),
         SubSeq(c, 8, p + 7) = SubSeq(msg, a + 1, a + p),
         ep \in EpType, Got(ep, c, p, f, p + 7), Gathered(ep, msg, a),
         EndpointSend(c[p + 8])
  PROVE  /\ EndsPacket(c[p + 8]) /\ (EndsRequest(c[p + 8]) <=> f = 1)
         /\ f = 0 => /\ ep' = [pktlen |-> 0, pktpos |-> 0, eom |-> 0, packet |-> <<>>,
                               cmdbuffer |-> SubSeq(msg, 1, a + p), offset |-> a + p,
                               unit |-> ep.unit]
                     /\ UNCHANGED slave
         /\ f = 1 => RunCommand(SubSeq(msg, 1, a + p))
<1> DEFINE data == c[p + 8]
           len == PacketLen(data)
           eom == PacketEom(data)
           packet == Append(ep.packet, data)
           cmd == SubSeq(ep.cmdbuffer, 1, ep.offset) \o SubSeq(packet, 8, 8 + (len - 5) - 1)
<1>1. ep.pktpos = p + 7 /\ ep.pktlen = p + 5 /\ ep.eom = f /\ ep.packet = SubSeq(c, 1, p + 7)
  <2>1. p + 7 >= 2 /\ p + 7 >= 7
    OBVIOUS
  <2> QED BY <2>1 DEF Got
<1> HIDE DEF data
<1>2. len = p + 5 /\ eom = f /\ ep.pktpos + 1 = len + 3
  BY ONLY <1>1, p \in 1..251 DEF PacketLen, PacketEom
<1>9. EndsPacket(data) /\ (EndsRequest(data) <=> f = 1)
  <2>1. EndsPacket(data)
    BY ONLY <1>2 DEF EndsPacket
  <2>2. f \in {0, 1}
    OBVIOUS
  <2> QED BY ONLY <1>2, <2>1, <2>2 DEF EndsRequest
<1>3. packet = SubSeq(c, 1, p + 8)
  <2>1. p + 7 \in 0..(Len(c) - 1) /\ (p + 7) + 1 = p + 8 /\ c \in Seq(Bytes)
    BY DEF Chunk
  <2>2. Append(SubSeq(c, 1, p + 7), c[(p + 7) + 1]) = SubSeq(c, 1, (p + 7) + 1)
    BY ONLY <2>1, PrefixGrows
  <2> QED BY <1>1, <2>1, <2>2 DEF data
<1> HIDE DEF packet, len, eom
<1>4. cmd = SubSeq(msg, 1, a + p)
  <2>1. SubSeq(packet, 8, 8 + (len - 5) - 1) = SubSeq(packet, 8, p + 7)
    <3>1. 8 + (len - 5) - 1 = p + 7
      BY ONLY <1>2, p \in 1..251
    <3> QED BY <3>1
  <2>2. SubSeq(packet, 8, p + 7) = SubSeq(c, 8, p + 7)
    <3>1. /\ c \in Seq(Bytes) /\ 7 \in Nat /\ p + 7 \in Nat /\ p + 8 \in 0..Len(c)
          /\ 7 <= p + 7 /\ p + 7 <= p + 8
      BY DEF Chunk
    <3>2. SubSeq(SubSeq(c, 1, p + 8), 7 + 1, p + 7) = SubSeq(c, 7 + 1, p + 7)
      BY ONLY <3>1, PieceOfPrefix
    <3>3. 7 + 1 = 8
      OBVIOUS
    <3> QED BY ONLY <1>3, <3>2, <3>3
  <2>3. SubSeq(ep.cmdbuffer, 1, ep.offset) = SubSeq(msg, 1, a)
    BY DEF Gathered
  <2>4. SubSeq(msg, 1, a) \o SubSeq(msg, a + 1, a + p) = SubSeq(msg, 1, a + p)
    <3>1. msg \in Seq(Bytes) /\ a \in Nat /\ a + p \in Nat /\ a <= a + p /\ a + p <= Len(msg)
      OBVIOUS
    <3> QED BY ONLY <3>1, PieceAfterPiece
  <2> QED BY <2>1, <2>2, <2>3, <2>4
<1> HIDE DEF cmd
<1>5. IF eom = 0
      THEN /\ ep' = [ep EXCEPT !.pktpos = 0, !.pktlen = 0, !.packet = <<>>,
                               !.cmdbuffer = cmd, !.offset = Len(cmd)]
           /\ UNCHANGED slave
      ELSE RunCommand(cmd)
  <2>1. EndpointSend(data)
    BY DEF data
  <2>2. EndsPacket(data) /\ (EndsRequest(data) <=> eom # 0)
    BY <1>2, <1>9
  <2> QED BY ONLY <2>1, <2>2, Zenon DEF EndpointSend, len, eom, packet, cmd
<1>6. Len(SubSeq(msg, 1, a + p)) = a + p
  <2>1. a + p \in 0..Len(msg)
    OBVIOUS
  <2> QED BY <2>1, Prefix
<1>7. ASSUME f = 0
      PROVE  /\ ep' = [pktlen |-> 0, pktpos |-> 0, eom |-> 0, packet |-> <<>>,
                       cmdbuffer |-> SubSeq(msg, 1, a + p), offset |-> a + p,
                       unit |-> ep.unit]
             /\ UNCHANGED slave
  <2>1. ep = [pktlen |-> ep.pktlen, pktpos |-> ep.pktpos, eom |-> ep.eom, packet |-> ep.packet,
              cmdbuffer |-> ep.cmdbuffer, offset |-> ep.offset, unit |-> ep.unit]
    <3>1. ep \in EpType
      OBVIOUS
    <3> QED BY ONLY <3>1 DEF EpType
  <2>2. /\ ep' = [ep EXCEPT !.pktpos = 0, !.pktlen = 0, !.packet = <<>>,
                            !.cmdbuffer = cmd, !.offset = Len(cmd)]
        /\ UNCHANGED slave
    BY <1>2, <1>5, <1>7
  <2>3. ep.eom = 0
    BY <1>1, <1>7
  <2> QED BY ONLY <1>4, <1>6, <2>1, <2>2, <2>3
<1>8. ASSUME f = 1
      PROVE  RunCommand(SubSeq(msg, 1, a + p))
  BY <1>2, <1>4, <1>5, <1>8
<1> QED BY <1>7, <1>8, <1>9 DEF data

-----------------------------------------------------------------------------
(* The endpoint runs a request                                             *)

\* The size of an answer is one of those of the model's constants.
LEMMA SizeIs ==
  ASSUME NEW r \in Requests, r.kind # UNKNOWN
  PROVE  DataSize(r) \in AnswerSizes /\ DataSize(r) \in Nat
<1>1. r.kind = READ => r.arg \in DOMAIN ReadSizes
  BY MiAssumption
<1>2. DataSize(r) \in AnswerSizes
  BY <1>1 DEF DataSize, AnswerSizes
<1>3. AnswerSizes \subseteq Nat
  BY MiAssumption
<1> QED BY <1>2, <1>3

\* The data of an answer.
LEMMA DataIs ==
  ASSUME NEW s \in AnswerSizes, NEW tag \in Tags
  PROVE  /\ AnswerData(s, tag) \in Seq(Bytes)
         /\ Len(AnswerData(s, tag)) = s
         /\ \A k \in 1..s : AnswerData(s, tag)[k] = Pattern(tag, k)
<1>1. s \in Nat /\ \A k \in 1..s : Pattern(tag, k) \in Bytes
  BY MiAssumption
<1> HIDE DEF Bytes
<1> QED BY <1>1 DEF AnswerData

\* The answer to a request, with the bytes crc where its checksum is.
AnswerTo(r, tag, unit, crc) == send_resp(AnswerData(DataSize(r), tag), unit, crc)

\* An answer is framed, if the checksum leaves its last control byte alone, and
\* fits the slave's buffer.
LEMMA AnswerFramed ==
  ASSUME NEW r \in Requests, r.kind # UNKNOWN, NEW tag \in Tags, NEW crc \in CrcBytes,
         NEW unit \in Units \cup {DefaultUnit}, KeepsEnd(DataSize(r), unit)
  PROVE  /\ Framed(AnswerTo(r, tag, unit, crc), AnswerData(DataSize(r), tag), unit)
         /\ Len(AnswerTo(r, tag, unit, crc)) = StreamLen(DataSize(r), unit)
         /\ Len(AnswerTo(r, tag, unit, crc)) <= BufSize
<1> DEFINE data == AnswerData(DataSize(r), tag)
<1>1. data \in Seq(Bytes) /\ Len(data) = DataSize(r) /\ DataSize(r) \in AnswerSizes
  BY SizeIs, DataIs
<1>2. StreamLen(DataSize(r), unit) <= BufSize
  BY <1>1, MiAssumption
<1> HIDE DEF data
<1>3. unit \in 1..250 /\ crc \in Bytes
  BY MiAssumption
<1>4. Payload(Len(data) + CrcSize, unit, PacketsOf(Len(data) + CrcSize, unit)) >= 3
  <2> DEFINE size == DataSize(r) + CrcSize
             n == PacketsOf(size, unit)
             sent == size - (n - 1) * unit
  <2>1. sent >= 3
    BY Zenon DEF KeepsEnd
  <2>2. Payload(size, unit, n) = sent
    BY Zenon DEF Payload
  <2> HIDE DEF sent
  <2>3. Payload(size, unit, n) >= 3
    BY ONLY <2>1, <2>2
  <2> QED BY <1>1, <2>3, Zenon
<1>5. Framed(send_resp(data, unit, crc), data, unit)
  BY ONLY <1>1, <1>3, <1>4, SendIs
<1>6. Framed(AnswerTo(r, tag, unit, crc), data, unit)
  BY <1>5 DEF AnswerTo, data
<1>7. Len(AnswerTo(r, tag, unit, crc)) = StreamLen(Len(data), unit)
  BY <1>6 DEF Framed
<1> QED BY <1>1, <1>2, <1>6, <1>7 DEF data

\* A command buffer that says a request: its message, and perhaps a byte after it.
Says(cmd, r, tag) ==
  /\ cmd \in Seq(Bytes)
  /\ SubSeq(cmd, 1, r.len) = Message(r, tag)
  /\ cmd[1] = r.kind /\ cmd[2] = r.arg /\ cmd[3] = tag

LEMMA SaysIs ==
  ASSUME NEW r \in Requests, NEW tag \in Tags
  PROVE  Says(Message(r, tag), r, tag) /\ Says(Message(r, tag) \o <<0>>, r, tag)
<1> DEFINE msg == Message(r, tag)
           cmd == msg \o <<0>>
<1>1. /\ msg \in Seq(Bytes) /\ Len(msg) = r.len /\ r.len \in Nat /\ r.len >= 3
      /\ msg[1] = r.kind /\ msg[2] = r.arg /\ msg[3] = tag
  BY MessageIs, MiAssumption
<1> HIDE DEF msg
<1>2. <<0>> \in Seq(Bytes)
  BY DEF Bytes
<1>3. /\ cmd \in Seq(Bytes) /\ Len(cmd) = Len(msg) + Len(<<0>>)
      /\ \A k \in 1..Len(msg) : cmd[k] = msg[k]
  BY ONLY <1>1, <1>2, Concatenation
<1> HIDE DEF cmd
<1>4. SubSeq(msg, 1, r.len) = msg
  BY ONLY <1>1
<1>5. SubSeq(cmd, 1, r.len) = msg
  <2>1. r.len \in 0..Len(cmd) /\ Len(<<0>>) = 1
    BY <1>1, <1>3
  <2>2. /\ SubSeq(cmd, 1, r.len) \in Seq(Bytes) /\ Len(SubSeq(cmd, 1, r.len)) = r.len
        /\ \A k \in 1..r.len : SubSeq(cmd, 1, r.len)[k] = cmd[k]
    BY ONLY <1>3, <2>1, Prefix
  <2>3. \A k \in 1..Len(msg) : SubSeq(cmd, 1, r.len)[k] = msg[k]
    BY ONLY <1>1, <1>3, <2>2
  <2> QED BY ONLY <1>1, <2>2, <2>3, SameSequence
<1>6. cmd[1] = r.kind /\ cmd[2] = r.arg /\ cmd[3] = tag
  <2>1. 1 \in 1..Len(msg) /\ 2 \in 1..Len(msg) /\ 3 \in 1..Len(msg)
    BY ONLY <1>1
  <2> QED BY ONLY <1>1, <1>3, <2>1
<1> QED BY <1>1, <1>3, <1>4, <1>5, <1>6 DEF Says, msg, cmd

\* The handler's answer to a command that says a request is the answer to it.
LEMMA AnswerIs ==
  ASSUME NEW r \in Requests, NEW tag \in Tags, NEW crc \in CrcBytes,
         ep.unit \in Units \cup {DefaultUnit}, NEW cmd, Says(cmd, r, tag)
  PROVE  /\ UnitAfter(cmd) = UnitSet(ep.unit, r)
         /\ UnitSet(ep.unit, r) \in Units \cup {DefaultUnit}
         /\ r.kind = UNKNOWN => Answer(cmd, crc) = <<>>
         /\ r.kind # UNKNOWN =>
              Answer(cmd, crc) = AnswerTo(r, tag, UnitSet(ep.unit, r), crc)
<1> DEFINE unit == UnitSet(ep.unit, r)
<1>1. cmd[1] = r.kind /\ cmd[2] = r.arg /\ cmd[3] = tag
  BY DEF Says
<1>2. /\ r.kind \in {READ, CONFIG_UNIT, UNKNOWN}
      /\ r.kind = READ => r.arg \in DOMAIN ReadSizes
      /\ r.kind = CONFIG_UNIT => r.arg \in Units
  BY MiAssumption
<1>3. UnitAfter(cmd) = unit
  BY <1>1 DEF UnitAfter, UnitSet
<1>4. unit \in Units \cup {DefaultUnit}
  BY <1>2 DEF UnitSet
<1>5. READ # CONFIG_UNIT /\ READ # UNKNOWN /\ CONFIG_UNIT # UNKNOWN
  BY DEF READ, CONFIG_UNIT, UNKNOWN
<1> HIDE DEF unit
<1>6. r.kind = UNKNOWN => Answer(cmd, crc) = <<>>
  BY <1>1, <1>5 DEF Answer
<1>7. r.kind # UNKNOWN => Answer(cmd, crc) = AnswerTo(r, tag, unit, crc)
  BY <1>1, <1>2, <1>3, <1>5 DEF Answer, DataSize, AnswerTo
<1> QED BY <1>3, <1>4, <1>6, <1>7 DEF unit

\* Running a request leaves the endpoint at rest with the unit size asked for, and
\* the slave with the whole answer, unless the slave loses its end.
LEMMA RunIs ==
  ASSUME NEW r \in Requests, NEW tag \in Tags, ~SlaveLosesEnd(r), Rest(slave), ep \in EpType,
         NEW cmd, Says(cmd, r, tag), RunCommand(cmd)
  PROVE  /\ ep' = [pktlen |-> 0, pktpos |-> 0, eom |-> 0, packet |-> <<>>,
                   cmdbuffer |-> cmd, offset |-> 0, unit |-> UnitSet(ep.unit, r)]
         /\ ep' \in EpType
         /\ UnitSet(ep.unit, r) \in Units \cup {DefaultUnit}
         /\ Rest(slave')
         /\ r.kind # UNKNOWN =>
              \E crc \in CrcBytes : Holds(slave', AnswerTo(r, tag, UnitSet(ep.unit, r), crc))
<1> DEFINE unit == UnitSet(ep.unit, r)
<1>1. PICK crc \in CrcBytes :
        slave' = FoldLeft(SlaveSend, slave, Answer(cmd, crc))
  BY DEF RunCommand
<1>2. ep.unit \in Units \cup {DefaultUnit}
  BY DEF EpType
<1>3. /\ UnitAfter(cmd) = unit /\ unit \in Units \cup {DefaultUnit}
      /\ r.kind = UNKNOWN => Answer(cmd, crc) = <<>>
      /\ r.kind # UNKNOWN => Answer(cmd, crc) = AnswerTo(r, tag, unit, crc)
  BY <1>2, AnswerIs
<1>4. cmd \in Seq(Bytes)
  BY DEF Says
<1>9. r.kind # UNKNOWN => KeepsEnd(DataSize(r), unit)
  BY DEF SlaveLosesEnd
<1> HIDE DEF unit
<1>5. ep' = [pktlen |-> 0, pktpos |-> 0, eom |-> 0, packet |-> <<>>,
             cmdbuffer |-> cmd, offset |-> 0, unit |-> unit]
  BY <1>3 DEF RunCommand
<1>6. ep' \in EpType
  BY <1>3, <1>4, <1>5 DEF EpType
<1>7. CASE r.kind = UNKNOWN
  <2>1. Answer(cmd, crc) = <<>>
    BY <1>3, <1>7
  <2>2. DOMAIN <<>> = 1..0 /\ 0 \in Nat
    OBVIOUS
  <2>3. \E f : f[0] = slave /\ f[0] = FoldLeft(SlaveSend, slave, <<>>)
    BY <2>2, FoldOfSlave
  <2>4. slave' = slave
    BY <1>1, <2>1, <2>3
  <2> QED BY <1>3, <1>5, <1>6, <1>7, <2>4 DEF unit, Rest
<1>8. CASE r.kind # UNKNOWN
  <2> DEFINE stream == AnswerTo(r, tag, unit, crc)
             data == AnswerData(DataSize(r), tag)
             size == DataSize(r) + CrcSize
  <2>1. Framed(stream, data, unit) /\ Len(stream) <= BufSize
    BY <1>3, <1>8, <1>9, AnswerFramed
  <2>2. Len(data) = DataSize(r) /\ DataSize(r) \in Nat
    BY <1>8, SizeIs, DataIs
  <2> HIDE DEF stream, data
  <2>3. size \in Nat \ {0} /\ size = Len(data) + CrcSize
    BY <2>2 DEF CrcSize
  <2>4. unit \in 1..250 /\ BufSize \in Nat
    BY <1>3, MiAssumption
  <2>5. Rest(slave)
    OBVIOUS
  <2> HIDE DEF size
  <2>6. Holds(FoldLeft(SlaveSend, slave, stream), stream)
    BY ONLY <2>1, <2>3, <2>4, <2>5, SlaveTakesAnswer
  <2>7. Holds(slave', stream)
    BY <1>1, <1>3, <1>8, <2>6 DEF stream
  <2>8. Rest(slave')
    BY <2>7 DEF Holds
  <2> QED BY <1>3, <1>5, <1>6, <2>7, <2>8 DEF unit, stream
<1> QED BY <1>7, <1>8

-----------------------------------------------------------------------------
(* A request is written, to an endpoint that counts alike                  *)

\* Of message msg the host has sent the packets before i and j bytes of packet
\* i, todo is what remains, and the endpoint has what they carry.
Sending(e, todo, msg, i, j) ==
  LET n == PacketsOf(Len(msg), HostUnit)
      p == Payload(Len(msg), HostUnit, i)
  IN /\ Got(e, HostChunk(msg, i, n), p, EomOf(i, n), j)
     /\ Gathered(e, msg, (i - 1) * HostUnit)
     /\ todo = SubSeq(xmit_pkt(msg), Base(i, HostUnit + 8) + j + 1, Len(xmit_pkt(msg)))

Sent(e, todo, msg) ==
  \E i \in 1..PacketsOf(Len(msg), HostUnit) :
    \E j \in 0..(Payload(Len(msg), HostUnit, i) + 7) : Sending(e, todo, msg, i, j)

\* What remains of a sequence, its head and its tail.
LEMMA RestOfMessage ==
  ASSUME NEW A, NEW s \in Seq(A), NEW a \in 0..(Len(s) - 1)
  PROVE  /\ Len(SubSeq(s, a + 1, Len(s))) = Len(s) - a
         /\ Head(SubSeq(s, a + 1, Len(s))) = s[a + 1]
         /\ Tail(SubSeq(s, a + 1, Len(s))) = SubSeq(s, a + 2, Len(s))
<1> DEFINE t == SubSeq(s, a + 1, Len(s))
           u == SubSeq(s, a + 2, Len(s))
<1>1. t \in Seq(A) /\ Len(t) = Len(s) - a /\ \A k \in 1..(Len(s) - a) : t[k] = s[a + k]
  <2>1. s \in Seq(A) /\ a \in Nat /\ Len(s) \in Nat /\ a <= Len(s) /\ Len(s) <= Len(s)
    OBVIOUS
  <2> QED BY ONLY <2>1, Piece
<1>2. u \in Seq(A) /\ Len(u) = Len(s) - (a + 1) /\ \A k \in 1..(Len(s) - (a + 1)) : u[k] = s[(a + 1) + k]
  <2>1. /\ s \in Seq(A) /\ a + 1 \in Nat /\ Len(s) \in Nat /\ a + 1 <= Len(s) /\ Len(s) <= Len(s)
        /\ (a + 1) + 1 = a + 2
    OBVIOUS
  <2> QED BY ONLY <2>1, Piece
<1>3. Len(s) - a \in Nat \ {0} /\ 1 \in 1..(Len(s) - a)
  OBVIOUS
<1> HIDE DEF t, u
<1>4. Head(t) = s[a + 1]
  BY <1>1, <1>3
<1>5. Tail(t) = u
  <2>1. Tail(t) \in Seq(A) /\ Len(Tail(t)) = Len(s) - a - 1
        /\ \A k \in 1..(Len(s) - a - 1) : Tail(t)[k] = t[k + 1]
    BY ONLY <1>1, <1>3
  <2>2. \A k \in 1..(Len(s) - a - 1) : k + 1 \in 1..(Len(s) - a) /\ a + (k + 1) = (a + 1) + k
    OBVIOUS
  <2>3. Len(s) - a - 1 = Len(s) - (a + 1)
    OBVIOUS
  <2>4. \A k \in 1..(Len(s) - (a + 1)) : Tail(t)[k] = u[k]
    <3> TAKE k \in 1..(Len(s) - (a + 1))
    <3>1. k \in 1..(Len(s) - a - 1)
      BY ONLY <2>3, k \in 1..(Len(s) - (a + 1))
    <3>2. Tail(t)[k] = t[k + 1]
      BY ONLY <2>1, <3>1
    <3>3. k + 1 \in 1..(Len(s) - a) /\ a + (k + 1) = (a + 1) + k
      BY ONLY <2>2, <3>1
    <3>4. t[k + 1] = s[a + (k + 1)]
      BY ONLY <1>1, <3>3
    <3>5. u[k] = s[(a + 1) + k]
      BY ONLY <1>2, k \in 1..(Len(s) - (a + 1))
    <3> QED BY ONLY <3>2, <3>3, <3>4, <3>5
  <2>5. /\ Tail(t) \in Seq(A) /\ u \in Seq(A) /\ Len(Tail(t)) = Len(u)
        /\ \A k \in 1..Len(u) : Tail(t)[k] = u[k]
    BY <1>2, <2>1, <2>3, <2>4
  <2> QED BY ONLY <2>5, SameSequence
<1> QED BY <1>1, <1>4, <1>5 DEF t, u

\* A byte of a message that is being sent: the endpoint gets further in it, or it
\* was the last one, and the very message is run.
LEMMA SendingStep ==
  ASSUME CountExtra = 4, NEW msg, msg \in Seq(Bytes), Len(msg) > 0,
         NEW i, i \in 1..PacketsOf(Len(msg), HostUnit),
         NEW j, j \in 0..(Payload(Len(msg), HostUnit, i) + 7),
         NEW todo, ep \in EpType, Sending(ep, todo, msg, i, j), EndpointSend(Head(todo))
  PROVE  \/ /\ Len(todo) > 1 /\ Sent(ep', Tail(todo), msg) /\ ~EndsRequest(Head(todo))
            /\ ep' \in EpType /\ ep'.offset <= Len(ep'.cmdbuffer)
            /\ ep'.unit = ep.unit /\ UNCHANGED slave
         \/ Len(todo) = 1 /\ EndsRequest(Head(todo)) /\ RunCommand(msg)
<1> DEFINE n == PacketsOf(Len(msg), HostUnit)
           p(k) == Payload(Len(msg), HostUnit, k)
           b(k) == Base(k, HostUnit + 8)
           c(k) == HostChunk(msg, k, n)
           a == (i - 1) * HostUnit
           x == xmit_pkt(msg)
           total == Len(x)
           rest == Len(todo)
           len == Len(msg)
<1>0. HostUnit \in 1..250 /\ HostUnit \in Nat \ {0} /\ len \in Nat \ {0}
  BY MiAssumption
<1>1. /\ n \in Nat \ {0}
      /\ \A k \in 1..n :
           /\ b(k) \in Nat
           /\ p(k) \in 1..250
           /\ k # n => b(k) + p(k) + 8 = b(k + 1)
           /\ b(k) + p(k) + 8 <= total
           /\ k = n => b(k) + p(k) + 8 = total
  <2>1. 8 \in Nat
    OBVIOUS
  <2>2. Tiled(len, HostUnit, 8, n)
    BY ONLY <1>0, <2>1, Bases
  <2>3. total = b(n) + p(n) + 8
    BY <1>0, XmitIs DEF Base
  <2> HIDE DEF n, p, b, x, total, len
  <2>4. /\ n \in Nat \ {0}
        /\ \A k \in 1..n :
             /\ b(k) \in Nat
             /\ p(k) \in 1..HostUnit
             /\ k # n => b(k) + p(k) + 8 = b(k + 1)
             /\ k = n => b(k) + p(k) + 8 = len + 8 * n
             /\ b(k) + p(k) + 8 <= len + 8 * n
    BY <2>2 DEF Tiled, n, p, b, len
  <2>5. n \in 1..n
    BY <2>4
  <2>6. total = len + 8 * n
    BY <2>3, <2>4, <2>5
  <2>7. \A k \in 1..n : p(k) \in 1..250
    <3>1. \A k \in 1..n : p(k) \in 1..HostUnit
      BY <2>4
    <3> QED BY ONLY <1>0, <3>1
  <2> QED BY <2>4, <2>6, <2>7
<1>2. /\ x \in Seq(Bytes)
      /\ \A k \in 1..n : \A l \in 1..(p(k) + 8) : x[b(k) + l] = c(k)[l]
  BY <1>0, XmitIs DEF Base
<1>3. \A k \in 1..n : Chunk(c(k), p(k), EomOf(k, n))
  <2>1. \A k \in 1..n : Carried(msg, k)
    BY <1>0, ChunksCarry
  <2> QED BY <2>1 DEF Carried, Chunk
<1>4. SubSeq(c(i), 8, p(i) + 7) = SubSeq(msg, a + 1, a + p(i))
  <2>1. Carried(msg, i)
    BY <1>0, ChunksCarry
  <2> QED BY <2>1 DEF Carried
<1>5. /\ a \in Nat /\ a + p(i) <= len
      /\ a + p(i) = IF i = n THEN len ELSE ((i + 1) - 1) * HostUnit
  <2>1. (i + 1) - 1 = i
    BY <1>1
  <2> QED BY <1>0, <2>1, Payloads
<1>6. /\ Got(ep, c(i), p(i), EomOf(i, n), j) /\ Gathered(ep, msg, a)
      /\ todo = SubSeq(x, b(i) + j + 1, Len(x))
  BY DEF Sending
<1>7. i \in 1..n /\ j \in 0..(p(i) + 7)
  OBVIOUS
<1>8. Sent(ep', Tail(todo), msg)
        <=> \E k \in 1..n : \E l \in 0..(p(k) + 7) :
              /\ Got(ep', c(k), p(k), EomOf(k, n), l) /\ Gathered(ep', msg, (k - 1) * HostUnit)
              /\ Tail(todo) = SubSeq(x, b(k) + l + 1, Len(x))
  BY DEF Sent, Sending
<1> HIDE DEF n, p, b, c, a, x, total, rest, len
<1>9. /\ rest = total - (b(i) + j)
      /\ Head(todo) = c(i)[j + 1]
      /\ Tail(todo) = SubSeq(x, (b(i) + j) + 2, Len(x))
  <2>1. b(i) + j \in 0..(total - 1) /\ b(i) \in Nat
    <3>1. b(i) \in Nat /\ p(i) \in 1..250 /\ b(i) + p(i) + 8 <= total
      BY <1>1, <1>7
    <3>2. total \in Nat
      BY <1>2 DEF total
    <3> QED BY ONLY <1>7, <3>1, <3>2
  <2>2. j + 1 \in 1..(p(i) + 8) /\ b(i) + (j + 1) = (b(i) + j) + 1
    <3>1. b(i) \in Nat /\ p(i) \in 1..250
      BY <1>1, <1>7
    <3> QED BY ONLY <1>7, <3>1
  <2>3. x[(b(i) + j) + 1] = c(i)[j + 1]
    BY <1>2, <1>7, <2>2
  <2>4. x \in Seq(Bytes)
    BY <1>2
  <2>5. /\ Len(SubSeq(x, (b(i) + j) + 1, Len(x))) = Len(x) - (b(i) + j)
        /\ Head(SubSeq(x, (b(i) + j) + 1, Len(x))) = x[(b(i) + j) + 1]
        /\ Tail(SubSeq(x, (b(i) + j) + 1, Len(x))) = SubSeq(x, (b(i) + j) + 2, Len(x))
    <3>1. b(i) + j \in 0..(Len(x) - 1)
      BY <2>1 DEF total
    <3> QED BY ONLY <2>4, <3>1, RestOfMessage
  <2> QED BY <1>6, <2>3, <2>5 DEF rest, total
<1>10. /\ b(i) \in Nat /\ p(i) \in 1..250 /\ EomOf(i, n) \in {0, 1} /\ Chunk(c(i), p(i), EomOf(i, n))
       /\ b(i) + p(i) + 8 <= total /\ total \in Nat
  BY <1>1, <1>2, <1>3, <1>7 DEF EomOf, total
<1>14. rest = total - (b(i) + j)
  BY <1>9
<1>11. CASE j < p(i) + 7
  <2>1. j \in 0..(p(i) + 6) /\ j + 1 \in 0..(p(i) + 7) /\ rest > 1
        /\ b(i) + (j + 1) + 1 = (b(i) + j) + 2
    BY ONLY <1>7, <1>14, <1>10, <1>11
  <2>2. ep \in EpType /\ EndpointSend(c(i)[j + 1])
    BY <1>9
  <2>3. /\ ~EndsPacket(c(i)[j + 1])
        /\ ep' \in EpType /\ Got(ep', c(i), p(i), EomOf(i, n), j + 1)
        /\ ep'.offset = ep.offset /\ ep'.cmdbuffer = ep.cmdbuffer /\ ep'.unit = ep.unit
        /\ UNCHANGED slave
    <3>1. p(i) \in 1..251
      BY <1>10
    <3> QED BY <1>6, <1>10, <2>1, <2>2, <3>1, PacketGrows
  <2>4. Gathered(ep', msg, a) /\ ep'.offset <= Len(ep'.cmdbuffer)
    BY <1>6, <2>3 DEF Gathered
  <2>5. Tail(todo) = SubSeq(x, b(i) + (j + 1) + 1, Len(x))
    BY <1>9, <2>1
  <2>6. Sent(ep', Tail(todo), msg)
    BY <1>7, <1>8, <2>1, <2>3, <2>4, <2>5 DEF a
  <2>7. ~EndsRequest(Head(todo))
    BY <1>9, <2>3 DEF EndsRequest
  <2> QED BY <2>1, <2>3, <2>4, <2>6, <2>7 DEF rest
<1>12. CASE j = p(i) + 7
  <2>1. ep \in EpType /\ EndpointSend(c(i)[p(i) + 8])
    <3>1. j + 1 = p(i) + 8
      BY ONLY <1>10, <1>12
    <3> QED BY <1>9, <3>1
  <2>2. /\ EndsRequest(c(i)[p(i) + 8]) <=> EomOf(i, n) = 1
        /\ EomOf(i, n) = 0 =>
            /\ ep' = [pktlen |-> 0, pktpos |-> 0, eom |-> 0, packet |-> <<>>,
                      cmdbuffer |-> SubSeq(msg, 1, a + p(i)), offset |-> a + p(i), unit |-> ep.unit]
            /\ UNCHANGED slave
        /\ EomOf(i, n) = 1 => RunCommand(SubSeq(msg, 1, a + p(i)))
    <3>1. a + p(i) <= Len(msg) /\ a \in Nat
      BY <1>5 DEF len
    <3>2. p(i) \in 1..251
      BY <1>10
    <3> QED BY <1>4, <1>6, <1>10, <1>12, <2>1, <3>1, <3>2, PacketEnds
  <2>5. Head(todo) = c(i)[p(i) + 8]
    <3>1. j + 1 = p(i) + 8
      BY ONLY <1>10, <1>12
    <3> QED BY <1>9, <3>1
  <2>3. CASE i = n
    <3>1. EomOf(i, n) = 1 /\ a + p(i) = len /\ b(i) + p(i) + 8 = total
      BY <1>1, <1>5, <1>7, <2>3 DEF EomOf
    <3>2. SubSeq(msg, 1, Len(msg)) = msg
      OBVIOUS
    <3>3. rest = 1
      BY ONLY <1>14, <1>10, <1>12, <3>1
    <3> QED BY <2>2, <2>5, <3>1, <3>2, <3>3 DEF rest, len
  <2>4. CASE i # n
    <3>1. /\ EomOf(i, n) = 0 /\ i + 1 \in 1..n /\ b(i) + p(i) + 8 = b(i + 1)
          /\ a + p(i) = ((i + 1) - 1) * HostUnit
      BY <1>1, <1>5, <1>7, <2>4 DEF EomOf
    <3>2. b(i + 1) \in Nat /\ p(i + 1) \in 1..250 /\ b(i + 1) + p(i + 1) + 8 <= total
      BY <1>1, <3>1
    <3>3. rest > 1 /\ b(i + 1) + 0 + 1 = (b(i) + j) + 2 /\ 0 \in 0..(p(i + 1) + 7)
      BY ONLY <1>14, <1>10, <1>12, <3>1, <3>2
    <3>4. /\ ep' = [pktlen |-> 0, pktpos |-> 0, eom |-> 0, packet |-> <<>>,
                    cmdbuffer |-> SubSeq(msg, 1, a + p(i)), offset |-> a + p(i), unit |-> ep.unit]
          /\ UNCHANGED slave
      BY <2>2, <3>1
    <3>5. /\ SubSeq(msg, 1, a + p(i)) \in Seq(Bytes) /\ Len(SubSeq(msg, 1, a + p(i))) = a + p(i)
          /\ a + p(i) \in Nat
      <4>1. a + p(i) \in 0..len /\ a + p(i) \in Nat
        <5>1. a \in Nat /\ p(i) \in 1..250 /\ a + p(i) <= len
          BY <1>5, <1>10
        <5> QED BY ONLY <1>0, <5>1
      <4>2. a + p(i) \in 0..Len(msg)
        BY <4>1 DEF len
      <4> QED BY <4>1, <4>2, Prefix
    <3>6. Got(ep', c(i + 1), p(i + 1), EomOf(i + 1, n), 0)
      <4>1. c(i + 1) \in Seq(Bytes)
        BY <1>3, <3>1 DEF Chunk
      <4>2. SubSeq(c(i + 1), 1, 0) = <<>>
        BY <4>1
      <4> QED BY <3>4, <4>2 DEF Got
    <3>7. Gathered(ep', msg, ((i + 1) - 1) * HostUnit)
      <4>1. SubSeq(SubSeq(msg, 1, a + p(i)), 1, a + p(i)) = SubSeq(msg, 1, a + p(i))
        BY <3>5
      <4> QED BY <3>1, <3>4, <3>5, <4>1 DEF Gathered
    <3>8. Tail(todo) = SubSeq(x, b(i + 1) + 0 + 1, Len(x))
      BY <1>9, <3>3
    <3>9. Sent(ep', Tail(todo), msg)
      BY <1>8, <3>1, <3>3, <3>6, <3>7, <3>8
    <3>10. /\ ep' \in EpType /\ ep'.offset <= Len(ep'.cmdbuffer) /\ ep'.unit = ep.unit
      <4>1. ep.unit \in Units \cup {DefaultUnit}
        BY DEF EpType
      <4> QED BY <3>4, <3>5, <4>1 DEF EpType
    <3>11. ~EndsRequest(Head(todo))
      BY <2>2, <2>5, <3>1
    <3> QED BY <3>3, <3>4, <3>9, <3>10, <3>11 DEF rest
  <2> QED BY <2>3, <2>4
<1>13. j < p(i) + 7 \/ j = p(i) + 7
  BY ONLY <1>7, <1>10
<1> QED BY <1>11, <1>12, <1>13

-----------------------------------------------------------------------------
(* A request is written, to an endpoint that counts one byte more          *)

\* The first packet of a message, as an endpoint reads it that takes the byte
\* after it, x, for its last.
Longer(msg, x) == HostChunk(msg, 1, PacketsOf(Len(msg), HostUnit)) \o <<x>>

\* What that packet is to the endpoint.
FirstLonger(msg, x) ==
  LET n == PacketsOf(Len(msg), HostUnit)
      p == Payload(Len(msg), HostUnit, 1)
      c == HostChunk(msg, 1, n)
  IN /\ n \in Nat \ {0} /\ p \in 1..250 /\ p <= Len(msg)
     /\ n = 1 => p = Len(msg)
     /\ c \in Seq(Bytes) /\ Len(c) = p + 8
     /\ Chunk(Longer(msg, x), p + 1, EomOf(1, n))
     /\ \A k \in 1..(p + 8) : Longer(msg, x)[k] = c[k]
     /\ Longer(msg, x)[p + 9] = x
     /\ SubSeq(Longer(msg, x), 1, p + 8) = c
     /\ SubSeq(Longer(msg, x), 8, p + 8) = SubSeq(msg, 1, p) \o <<0>>

LEMMA LongerIs ==
  ASSUME CountExtra = 5, HostUnit \in 1..250, NEW msg \in Seq(Bytes), Len(msg) > 0,
         NEW x \in Bytes
  PROVE  FirstLonger(msg, x)
<1> DEFINE n == PacketsOf(Len(msg), HostUnit)
           p == Payload(Len(msg), HostUnit, 1)
           c == HostChunk(msg, 1, n)
<1>n. n = PacketsOf(Len(msg), HostUnit) /\ c = HostChunk(msg, 1, n)
  OBVIOUS
<1>p. p = Payload(Len(msg), HostUnit, 1)
  OBVIOUS
<1> HIDE DEF n, p, c
<1>1. Len(msg) \in Nat \ {0} /\ HostUnit \in Nat \ {0}
  OBVIOUS
<1>2. n \in Nat \ {0} /\ 1 \in 1..n
  <2>1. n \in Nat \ {0}
    BY <1>1, <1>n, Packets
  <2> QED BY ONLY <2>1
<1>3. p \in 1..HostUnit /\ p <= Len(msg) /\ (n = 1 => p = Len(msg))
  <2> DEFINE a == (1 - 1) * HostUnit
  <2>1. a = 0
    BY <1>1
  <2>2. p \in 1..HostUnit /\ a + p <= Len(msg) /\ a + p = IF 1 = n THEN Len(msg) ELSE 1 * HostUnit
    BY ONLY <1>1, <1>2, <1>n, <1>p, Payloads
  <2> HIDE DEF a
  <2> QED BY ONLY <1>1, <2>1, <2>2
<1>4. p \in 1..250
  BY ONLY <1>3, HostUnit \in 1..250
<1>5. /\ c \in Seq(Bytes) /\ Len(c) = p + 8 /\ c[2] = p + 5 /\ EomBit(c[7]) = EomOf(1, n)
      /\ c[p + 8] = 0 /\ SubSeq(c, 8, p + 7) = SubSeq(msg, 1, p)
  <2>1. Carried(msg, 1)
    BY <1>2, <1>n, ChunksCarry
  <2>2. (1 - 1) * HostUnit = 0
    BY <1>1
  <2> DEFINE a == (1 - 1) * HostUnit
  <2>3. a = 0
    BY <2>2
  <2> HIDE DEF a
  <2>4. a + 1 = 1
    BY ONLY <2>3
  <2>5. a + p = p
    BY ONLY <1>4, <2>3
  <2> QED BY <1>n, <1>p, <2>1, <2>4, <2>5 DEF Carried, a
<1> DEFINE l == Longer(msg, x)
<1>6. /\ l \in Seq(Bytes) /\ Len(l) = p + 9
      /\ \A k \in 1..(p + 8) : l[k] = c[k]
      /\ l[p + 9] = x
  <2> DEFINE y == <<x>>
  <2>1. y \in Seq(Bytes) /\ Len(y) = 1 /\ y[1] = x /\ 1 \in 1..Len(y)
    OBVIOUS
  <2>2. l = c \o y
    BY <1>n, Zenon DEF Longer
  <2> HIDE DEF l, y
  <2>3. /\ c \o y \in Seq(Bytes) /\ Len(c \o y) = Len(c) + Len(y)
        /\ \A k \in 1..Len(c) : (c \o y)[k] = c[k]
        /\ \A k \in 1..Len(y) : (c \o y)[Len(c) + k] = y[k]
    <3>1. c \in Seq(Bytes) /\ y \in Seq(Bytes)
      BY ONLY <1>5, <2>1
    <3> QED BY ONLY <3>1, Concatenation
  <2>4. (c \o y)[Len(c) + 1] = x
    BY ONLY <2>1, <2>3
  <2>5. Len(c) + 1 = p + 9 /\ Len(c) + Len(y) = p + 9
    BY ONLY <1>4, <1>5, <2>1
  <2> QED BY ONLY <1>5, <2>2, <2>3, <2>4, <2>5
<1> HIDE DEF l
<1>7. Chunk(l, p + 1, EomOf(1, n))
  <2>1. 2 \in 1..(p + 8) /\ 7 \in 1..(p + 8) /\ (p + 1) + 8 = p + 9 /\ (p + 1) + 4 = p + 5
    BY ONLY <1>4
  <2> QED BY ONLY <1>5, <1>6, <2>1 DEF Chunk
<1>8. SubSeq(l, 1, p + 8) = c
  <2>1. p + 8 \in 0..Len(l) /\ p + 8 \in Nat
    BY ONLY <1>4, <1>6
  <2>2. /\ SubSeq(l, 1, p + 8) \in Seq(Bytes) /\ Len(SubSeq(l, 1, p + 8)) = p + 8
        /\ \A k \in 1..(p + 8) : SubSeq(l, 1, p + 8)[k] = l[k]
    BY ONLY <1>6, <2>1, Prefix
  <2> QED BY ONLY <1>5, <1>6, <2>2, SameSequence
<1>9. SubSeq(l, 8, p + 8) = SubSeq(msg, 1, p) \o <<0>>
  <2> DEFINE s == SubSeq(l, 7 + 1, p + 8)
             m == SubSeq(msg, 1, p)
             y == <<0>>
             t == m \o y
             u == SubSeq(c, 7 + 1, p + 7)
  <2>1. /\ s \in Seq(Bytes) /\ Len(s) = (p + 8) - 7
        /\ \A k \in 1..((p + 8) - 7) : s[k] = l[7 + k]
    <3>1. l \in Seq(Bytes)
      BY ONLY <1>6
    <3>2. 7 \in Nat /\ p + 8 \in Nat /\ 7 <= p + 8
      BY ONLY <1>4
    <3>3. p + 8 <= Len(l)
      BY ONLY <1>4, <1>6
    <3> QED BY ONLY <3>1, <3>2, <3>3, Piece
  <2>2. /\ u \in Seq(Bytes) /\ Len(u) = (p + 7) - 7
        /\ \A k \in 1..((p + 7) - 7) : u[k] = c[7 + k]
    <3>1. c \in Seq(Bytes) /\ Len(c) = p + 8
      BY ONLY <1>5
    <3>2. 7 \in Nat /\ p + 7 \in Nat /\ 7 <= p + 7
      BY ONLY <1>4
    <3>3. p + 7 <= Len(c)
      BY ONLY <1>4, <3>1
    <3> QED BY ONLY <3>1, <3>2, <3>3, Piece
  <2>3. u = m
    <3>1. 7 + 1 = 8
      OBVIOUS
    <3> QED BY <1>5, <3>1, Zenon
  <2>4. y \in Seq(Bytes) /\ Len(y) = 1 /\ y[1] = 0 /\ 1 \in 1..Len(y)
    BY DEF Bytes
  <2> HIDE DEF s, m, y, u
  <2>5. /\ m \in Seq(Bytes) /\ Len(m) = p /\ \A k \in 1..p : m[k] = c[7 + k]
    <3>1. (p + 7) - 7 = p
      BY ONLY <1>4
    <3> QED BY ONLY <2>2, <2>3, <3>1
  <2>6. /\ m \o y \in Seq(Bytes) /\ Len(m \o y) = Len(m) + Len(y)
        /\ \A k \in 1..Len(m) : (m \o y)[k] = m[k]
        /\ \A k \in 1..Len(y) : (m \o y)[Len(m) + k] = y[k]
    <3>1. m \in Seq(Bytes) /\ y \in Seq(Bytes)
      BY ONLY <2>4, <2>5
    <3> QED BY ONLY <3>1, Concatenation
  <2>7. (m \o y)[p + 1] = 0
    BY ONLY <2>4, <2>5, <2>6
  <2> HIDE DEF t
  <2>8. t \in Seq(Bytes) /\ Len(t) = p + 1 /\ t[p + 1] = 0 /\ \A k \in 1..p : t[k] = c[7 + k]
    BY ONLY <2>4, <2>5, <2>6, <2>7 DEF t
  <2>9. /\ Len(s) = p + 1 /\ \A k \in 1..(p + 1) : s[k] = c[7 + k]
    <3>1. (p + 8) - 7 = p + 1 /\ \A k \in 1..(p + 1) : 7 + k \in 1..(p + 8)
      BY ONLY <1>4
    <3> QED BY ONLY <1>6, <2>1, <3>1
  <2>10. c[7 + (p + 1)] = 0
    <3>1. 7 + (p + 1) = p + 8
      BY ONLY <1>4
    <3> QED BY ONLY <1>5, <3>1
  <2>11. \A k \in 1..Len(t) : s[k] = t[k]
    <3>1. \A k \in 1..(p + 1) : k \in 1..p \/ k = p + 1
      BY ONLY <1>4
    <3> QED BY ONLY <2>8, <2>9, <2>10, <3>1
  <2>12. s = t
    BY ONLY <2>1, <2>8, <2>9, <2>11, SameSequence
  <2>13. 7 + 1 = 8
    OBVIOUS
  <2> QED BY ONLY <2>12, <2>13 DEF s, t, m, y
<1> QED BY ONLY <1>2, <1>3, <1>4, <1>5, <1>6, <1>7, <1>8, <1>9, Zenon DEF l, n, p, c, FirstLonger

\* The endpoint has j bytes of the first packet of a message.
LateAt(e, msg, j) ==
  LET n == PacketsOf(Len(msg), HostUnit)
      p == Payload(Len(msg), HostUnit, 1)
  IN Got(e, Longer(msg, 0), p + 1, EomOf(1, n), j) /\ e.offset = 0

\* The host is in the first packet, or at the byte after it.
LateSent(e, todo, msg) ==
  \E j \in 0..(Payload(Len(msg), HostUnit, 1)
                 + IF PacketsOf(Len(msg), HostUnit) = 1 THEN 7 ELSE 8) :
    /\ LateAt(e, msg, j)
    /\ todo = SubSeq(xmit_pkt(msg), j + 1, Len(xmit_pkt(msg)))

\* A message of one packet is written, and the endpoint awaits a byte more.
ByteShort(e, msg) ==
  PacketsOf(Len(msg), HostUnit) = 1 /\ LateAt(e, msg, Payload(Len(msg), HostUnit, 1) + 8)

\* What xmit_pkt writes begins with the first packet, and goes on if there are more.
LEMMA XmitBegins ==
  ASSUME HostUnit \in 1..250, CountExtra = 5, NEW msg \in Seq(Bytes), Len(msg) > 0,
         NEW n, n = PacketsOf(Len(msg), HostUnit),
         NEW p, p = Payload(Len(msg), HostUnit, 1),
         NEW x, x = xmit_pkt(msg)
  PROVE  /\ x \in Seq(Bytes) /\ Len(x) \in Nat
         /\ n = 1 => Len(x) = p + 8
         /\ n # 1 => Len(x) > p + 9
         /\ \A k \in 1..(p + 8) : x[k] = HostChunk(msg, 1, n)[k]
<1> DEFINE w == HostUnit + 8
           last == Payload(Len(msg), HostUnit, n)
<1>1. /\ x \in Seq(Bytes)
      /\ Len(x) = (n - 1) * w + last + 8
      /\ \A i \in 1..n : \A j \in 1..(Payload(Len(msg), HostUnit, i) + 8) :
           x[(i - 1) * w + j] = HostChunk(msg, i, n)[j]
  BY XmitIs
<1>2. n \in Nat \ {0} /\ p \in 1..250
  <2>1. 0 \in Bytes
    BY DEF Bytes
  <2>2. FirstLonger(msg, 0)
    BY <2>1, LongerIs, Zenon
  <2> QED BY <2>2, Zenon DEF FirstLonger
<1>3. 1 \in 1..n /\ n \in 1..n
  BY ONLY <1>2
<1>4. last \in 1..HostUnit
  <2>1. Len(msg) \in Nat \ {0} /\ HostUnit \in Nat \ {0}
    OBVIOUS
  <2> QED BY ONLY <1>3, <2>1, n = PacketsOf(Len(msg), HostUnit), Payloads
<1>5. \A j \in 1..(p + 8) : x[j] = HostChunk(msg, 1, n)[j]
  <2>1. \A j \in 1..(p + 8) : x[(1 - 1) * w + j] = HostChunk(msg, 1, n)[j]
    BY <1>1, <1>3
  <2>2. \A j \in 1..(p + 8) : (1 - 1) * w + j = j
    OBVIOUS
  <2> QED BY ONLY <2>1, <2>2
<1>6. n # 1 => p = HostUnit
  BY DEF Payload
<1>7. n = 1 => last = p
  OBVIOUS
<1> HIDE DEF last
<1>8. CASE n = 1
  <2>1. (n - 1) * w = 0
    BY ONLY <1>8, HostUnit \in 1..250
  <2> QED BY ONLY <1>1, <1>2, <1>5, <1>7, <1>8, <2>1
<1>9. CASE n # 1
  <2>1. 1 * w <= (n - 1) * w /\ (n - 1) * w \in Nat /\ 1 * w = w
    <3>1. 1 \in Nat /\ n - 1 \in Nat /\ w \in Nat /\ 1 <= n - 1
      BY ONLY <1>2, <1>9, HostUnit \in 1..250
    <3>2. (1 <= n - 1 => 1 * w <= (n - 1) * w) /\ (n - 1) * w \in Nat /\ 1 * w = w
      <4> HIDE DEF w
      <4>1. 1 <= n - 1 => 1 * w <= (n - 1) * w
        BY ONLY <3>1, Rows
      <4>2. (n - 1) * w \in Nat
        BY ONLY <3>1, Rows
      <4>3. 1 * w = w
        BY ONLY <3>1
      <4> QED BY ONLY <4>1, <4>2, <4>3
    <3> QED BY ONLY <3>1, <3>2
  <2> DEFINE a == (n - 1) * w
  <2>2. a \in Nat /\ HostUnit + 8 <= a
    BY ONLY <2>1
  <2>3. Len(x) = a + last + 8
    BY <1>1
  <2> HIDE DEF a
  <2> QED BY ONLY <1>1, <1>4, <1>5, <1>6, <1>9, <2>2, <2>3, HostUnit \in 1..250
<1> QED BY ONLY <1>8, <1>9

\* A byte of a message to such an endpoint: it is one of the first packet's, or the
\* last one of a message of one packet, which leaves the endpoint a byte short, or
\* the byte behind the first packet, which ends it.  None ends a request.
LEMMA LateStep ==
  ASSUME CountExtra = 5, NEW msg, msg \in Seq(Bytes), Len(msg) > 0,
         NEW todo, ep \in EpType, ep.offset <= Len(ep.cmdbuffer),
         LateSent(ep, todo, msg), EndpointSend(Head(todo))
  PROVE  /\ ~EndsRequest(Head(todo)) /\ UNCHANGED slave
         /\ ep' \in EpType /\ ep'.offset <= Len(ep'.cmdbuffer) /\ ep'.unit = ep.unit
         /\ \/ Len(todo) > 1 /\ ~EndsPacket(Head(todo)) /\ LateSent(ep', Tail(todo), msg)
            \/ Len(todo) = 1 /\ ~EndsPacket(Head(todo)) /\ ByteShort(ep', msg)
            \/ Len(todo) > 1 /\ EndsPacket(Head(todo)) /\ ep'.pktpos = 0
<1> DEFINE n == PacketsOf(Len(msg), HostUnit)
           p == Payload(Len(msg), HostUnit, 1)
           c == HostChunk(msg, 1, n)
           x == xmit_pkt(msg)
           total == Len(x)
           l(y) == Longer(msg, y)
           f == EomOf(1, n)
<1>0. HostUnit \in 1..250
  BY MiAssumption
<1>1. PICK j \in 0..(p + IF n = 1 THEN 7 ELSE 8) :
        LateAt(ep, msg, j) /\ todo = SubSeq(x, j + 1, Len(x))
  BY DEF LateSent
<1>2. /\ x \in Seq(Bytes) /\ total \in Nat
      /\ n = 1 => total = p + 8
      /\ n # 1 => total > p + 9
      /\ \A k \in 1..(p + 8) : x[k] = c[k]
  BY <1>0, XmitBegins
<1>3. \A y \in Bytes :
        /\ n \in Nat \ {0} /\ p \in 1..250 /\ p <= Len(msg)
        /\ n = 1 => p = Len(msg)
        /\ c \in Seq(Bytes) /\ Len(c) = p + 8
        /\ Chunk(l(y), p + 1, f)
        /\ \A k \in 1..(p + 8) : l(y)[k] = c[k]
        /\ l(y)[p + 9] = y
        /\ SubSeq(l(y), 1, p + 8) = c
        /\ SubSeq(l(y), 8, p + 8) = SubSeq(msg, 1, p) \o <<0>>
  <2>1. \A y \in Bytes : FirstLonger(msg, y)
    BY <1>0, LongerIs, Zenon
  <2> QED BY <2>1, Zenon DEF FirstLonger
<1>4. 0 \in Bytes
  BY DEF Bytes
<1>5. Got(ep, l(0), p + 1, f, j) /\ ep.offset = 0
  BY <1>1 DEF LateAt
<1>6. f \in {0, 1} /\ (n # 1 => f = 0)
  BY DEF EomOf
<1>7. /\ LateSent(ep', Tail(todo), msg)
           <=> \E i \in 0..(p + IF n = 1 THEN 7 ELSE 8) :
                 /\ Got(ep', l(0), p + 1, f, i) /\ ep'.offset = 0
                 /\ Tail(todo) = SubSeq(x, i + 1, Len(x))
      /\ ByteShort(ep', msg) <=> n = 1 /\ Got(ep', l(0), p + 1, f, p + 8) /\ ep'.offset = 0
  BY DEF LateSent, LateAt, ByteShort
<1> HIDE DEF n, p, c, x, total, l, f
<1>8. n \in Nat \ {0} /\ p \in 1..250 /\ p <= Len(msg) /\ c \in Seq(Bytes) /\ Len(c) = p + 8
  BY <1>3, <1>4
<1>9. /\ j < total /\ j \in Nat
      /\ Len(todo) = total - j /\ Head(todo) = x[j + 1] /\ Tail(todo) = SubSeq(x, j + 2, Len(x))
  <2>1. j \in Nat /\ j < total
    <3>1. CASE n = 1
      BY ONLY <1>1, <1>2, <1>8, <3>1
    <3>2. CASE n # 1
      BY ONLY <1>1, <1>2, <1>8, <3>2
    <3> QED BY ONLY <3>1, <3>2
  <2>2. j \in 0..(Len(x) - 1)
    BY ONLY <1>2, <2>1 DEF total
  <2>3. /\ Len(SubSeq(x, j + 1, Len(x))) = Len(x) - j
        /\ Head(SubSeq(x, j + 1, Len(x))) = x[j + 1]
        /\ Tail(SubSeq(x, j + 1, Len(x))) = SubSeq(x, j + 2, Len(x))
    BY ONLY <1>2, <2>2, RestOfMessage
  <2> QED BY ONLY <1>1, <2>1, <2>3 DEF total
<1>10. CASE j < p + 8
  <2>1. j \in 0..(p + 7) /\ j + 1 \in 1..(p + 8) /\ p + 1 \in 1..251 /\ (p + 1) + 6 = p + 7
    BY ONLY <1>8, <1>9, <1>10
  <2>2. Head(todo) = l(0)[j + 1] /\ Chunk(l(0), p + 1, f)
    BY <1>2, <1>3, <1>4, <1>9, <2>1
  <2>3. j \in 0..((p + 1) + 6) /\ EndpointSend(l(0)[j + 1])
    BY <2>1, <2>2
  <2>4. /\ ~EndsPacket(l(0)[j + 1])
        /\ ep' \in EpType
        /\ Got(ep', l(0), p + 1, f, j + 1)
        /\ ep'.offset = ep.offset /\ ep'.cmdbuffer = ep.cmdbuffer /\ ep'.unit = ep.unit
        /\ UNCHANGED slave
    <3> DEFINE q == p + 1
    <3>1. q \in 1..251 /\ f \in {0, 1}
      BY ONLY <1>6, <1>8
    <3>2. Chunk(l(0), q, f) /\ Got(ep, l(0), q, f, j)
      BY ONLY <1>5, <2>2
    <3>3. j \in 0..(q + 6) /\ EndpointSend(l(0)[j + 1])
      BY ONLY <2>3
    <3> HIDE DEF q
    <3>4. /\ ~EndsPacket(l(0)[j + 1])
          /\ ep' \in EpType
          /\ Got(ep', l(0), q, f, j + 1)
          /\ ep'.offset = ep.offset /\ ep'.cmdbuffer = ep.cmdbuffer /\ ep'.unit = ep.unit
          /\ UNCHANGED slave
      BY ONLY ep \in EpType, <3>1, <3>2, <3>3, PacketGrows
    <3> QED BY ONLY <3>4 DEF q
  <2>5. ~EndsPacket(Head(todo)) /\ ~EndsRequest(Head(todo)) /\ ep'.offset = 0
        /\ ep'.offset <= Len(ep'.cmdbuffer)
    BY <1>5, <2>2, <2>4 DEF EndsRequest
  <2>6. CASE j = p + 7 /\ n = 1
    <3>1. Len(todo) = 1 /\ j + 1 = p + 8
      BY ONLY <1>2, <1>8, <1>9, <2>6
    <3>2. ByteShort(ep', msg)
      BY <1>7, <2>4, <2>5, <2>6, <3>1
    <3> QED BY ONLY <2>4, <2>5, <3>1, <3>2
  <2>7. CASE ~(j = p + 7 /\ n = 1)
    <3>1. Len(todo) > 1 /\ j + 1 \in 0..(p + IF n = 1 THEN 7 ELSE 8) /\ (j + 1) + 1 = j + 2
      <4>1. CASE n = 1
        BY ONLY <1>2, <1>8, <1>9, <2>1, <2>7, <4>1
      <4>2. CASE n # 1
        BY ONLY <1>2, <1>8, <1>9, <2>1, <2>7, <4>2
      <4> QED BY ONLY <4>1, <4>2
    <3>2. Tail(todo) = SubSeq(x, (j + 1) + 1, Len(x))
      BY <1>9, <3>1
    <3>3. LateSent(ep', Tail(todo), msg)
      BY <1>7, <2>4, <2>5, <3>1, <3>2
    <3> QED BY ONLY <2>4, <2>5, <3>1, <3>3
  <2> QED BY <2>6, <2>7
<1>11. CASE ~(j < p + 8)
  <2>1. n # 1 /\ j = p + 8 /\ f = 0 /\ total > p + 9
    <3>1. n # 1
      BY ONLY <1>1, <1>8, <1>9, <1>11
    <3> QED BY ONLY <1>1, <1>2, <1>6, <1>8, <1>9, <1>11, <3>1
  <2>2. Len(todo) > 1
    <3>1. Len(todo) = total - j
      BY ONLY <1>9
    <3>2. total \in Nat /\ p \in Nat
      BY ONLY <1>2, <1>8
    <3> QED BY ONLY <2>1, <3>1, <3>2
  <2> DEFINE y == Head(todo)
             msg1 == SubSeq(msg, 1, p) \o <<0>>
             q == p + 1
  <2>3. y \in Bytes
    <3>1. j + 1 \in 1..Len(x)
      BY <1>2, <1>9 DEF total
    <3> QED BY <1>2, <1>9, <3>1
  <2>4. /\ Chunk(l(y), p + 1, f) /\ l(y)[p + 9] = y
        /\ SubSeq(l(y), 1, p + 8) = c /\ SubSeq(l(0), 1, p + 8) = c
        /\ SubSeq(l(y), 8, p + 8) = msg1
    BY <1>3, <1>4, <2>3
  <2>5. Got(ep, l(y), p + 1, f, p + 8)
    BY <1>5, <2>1, <2>4 DEF Got
  <2>6. msg1 \in Seq(Bytes) /\ Len(msg1) = p + 1
    <3>1. p \in 0..Len(msg) /\ msg \in Seq(Bytes)
      BY <1>8
    <3>2. SubSeq(msg, 1, p) \in Seq(Bytes) /\ Len(SubSeq(msg, 1, p)) = p
      BY ONLY <3>1, Prefix
    <3>3. <<0>> \in Seq(Bytes) /\ Len(<<0>>) = 1
      BY DEF Bytes
    <3> QED BY ONLY <3>2, <3>3, Concatenation
  <2> HIDE DEF y, msg1
  <2>7. /\ q \in 1..251 /\ q + 7 = p + 8 /\ q + 8 = p + 9 /\ 0 \in Nat
        /\ 0 + q <= Len(msg1) /\ 0 + 1 = 1 /\ 0 + q = p + 1
    BY ONLY <1>8, <2>6
  <2>8. SubSeq(msg1, 1, p + 1) = msg1
    BY ONLY <2>6
  <2>9. Gathered(ep, msg1, 0)
    <3>1. ep.cmdbuffer \in Seq(Bytes)
      BY DEF EpType
    <3>2. SubSeq(ep.cmdbuffer, 1, 0) = <<>> /\ 0 <= Len(ep.cmdbuffer) /\ SubSeq(msg1, 1, 0) = <<>>
      BY ONLY <2>6, <3>1
    <3> QED BY <1>5, <3>2 DEF Gathered
  <2>10. /\ Chunk(l(y), q, f) /\ SubSeq(l(y), 8, q + 7) = SubSeq(msg1, 0 + 1, 0 + q)
         /\ Got(ep, l(y), q, f, q + 7) /\ EndpointSend(l(y)[q + 8])
    <3>1. EndpointSend(y)
      BY DEF y
    <3> QED BY <2>4, <2>5, <2>7, <2>8, <3>1
  <2> HIDE DEF q
  <2>11. /\ EndsPacket(l(y)[q + 8]) /\ (EndsRequest(l(y)[q + 8]) <=> f = 1)
         /\ f = 0 => /\ ep' = [pktlen |-> 0, pktpos |-> 0, eom |-> 0, packet |-> <<>>,
                               cmdbuffer |-> SubSeq(msg1, 1, 0 + q), offset |-> 0 + q,
                               unit |-> ep.unit]
                     /\ UNCHANGED slave
    BY ONLY <1>6, <2>6, <2>7, <2>9, <2>10, ep \in EpType, PacketEnds
  <2>12. /\ ep' = [pktlen |-> 0, pktpos |-> 0, eom |-> 0, packet |-> <<>>,
                   cmdbuffer |-> msg1, offset |-> p + 1, unit |-> ep.unit]
         /\ UNCHANGED slave /\ EndsPacket(y) /\ ~EndsRequest(y)
    <3>1. 0 + q = p + 1 /\ SubSeq(msg1, 1, 0 + q) = msg1
      <4>1. 0 + q = p + 1
        BY ONLY <2>7
      <4> QED BY ONLY <4>1, <2>8
    <3>2. l(y)[q + 8] = y
      <4>1. q + 8 = p + 9
        BY ONLY <2>7
      <4> QED BY ONLY <4>1, <2>4
    <3>3. EndsPacket(y) /\ (EndsRequest(y) <=> f = 1) /\ f = 0
      BY ONLY <2>1, <2>11, <3>2
    <3>4. /\ ep' = [pktlen |-> 0, pktpos |-> 0, eom |-> 0, packet |-> <<>>,
                    cmdbuffer |-> SubSeq(msg1, 1, 0 + q), offset |-> 0 + q,
                    unit |-> ep.unit]
          /\ UNCHANGED slave
      BY ONLY <2>11, <3>3
    <3>5. ~EndsRequest(y)
      BY ONLY <3>3
    <3> QED BY ONLY <3>1, <3>3, <3>4, <3>5
  <2>13. ep' \in EpType /\ ep'.offset <= Len(ep'.cmdbuffer) /\ ep'.unit = ep.unit /\ ep'.pktpos = 0
    <3>1. ep.unit \in Units \cup {DefaultUnit} /\ p + 1 \in Nat
      BY <1>8 DEF EpType
    <3> QED BY ONLY <2>6, <2>12, <3>1 DEF EpType
  <2> QED BY <2>2, <2>12, <2>13 DEF y
<1> QED BY <1>10, <1>11

\* The first byte of the next process ends the request that was a byte short.
LEMMA LateEnds ==
  ASSUME CountExtra = 5, NEW msg, msg \in Seq(Bytes), Len(msg) > 0,
         ep \in EpType, ByteShort(ep, msg), NEW y \in Bytes, EndpointSend(y)
  PROVE  EndsPacket(y) /\ EndsRequest(y) /\ RunCommand(msg \o <<0>>)
<1> DEFINE n == PacketsOf(Len(msg), HostUnit)
           p == Payload(Len(msg), HostUnit, 1)
           c == HostChunk(msg, 1, n)
           l(x) == Longer(msg, x)
           f == EomOf(1, n)
           msg1 == msg \o <<0>>
           q == p + 1
<1>0. HostUnit \in 1..250
  BY MiAssumption
<1>1. \A x \in Bytes :
        /\ n \in Nat \ {0} /\ p \in 1..250 /\ p <= Len(msg)
        /\ n = 1 => p = Len(msg)
        /\ c \in Seq(Bytes) /\ Len(c) = p + 8
        /\ Chunk(l(x), p + 1, f)
        /\ \A k \in 1..(p + 8) : l(x)[k] = c[k]
        /\ l(x)[p + 9] = x
        /\ SubSeq(l(x), 1, p + 8) = c
        /\ SubSeq(l(x), 8, p + 8) = SubSeq(msg, 1, p) \o <<0>>
  <2>1. \A x \in Bytes : FirstLonger(msg, x)
    BY <1>0, LongerIs, Zenon
  <2> QED BY <2>1, Zenon DEF FirstLonger
<1>2. n = 1 /\ Got(ep, l(0), p + 1, f, p + 8) /\ ep.offset = 0
  BY DEF ByteShort, LateAt
<1>3. f = 1
  BY <1>2 DEF EomOf
<1>4. 0 \in Bytes
  BY DEF Bytes
<1> HIDE DEF n, p, c, l, f
<1>5. p \in 1..250 /\ p = Len(msg) /\ SubSeq(msg, 1, p) = msg
  <2>1. p \in 1..250 /\ p = Len(msg)
    BY <1>1, <1>2, <1>4
  <2>2. p \in 0..Len(msg)
    BY ONLY <2>1
  <2>3. /\ SubSeq(msg, 1, p) \in Seq(Bytes) /\ Len(SubSeq(msg, 1, p)) = p
        /\ \A k \in 1..p : SubSeq(msg, 1, p)[k] = msg[k]
    BY ONLY msg \in Seq(Bytes), <2>2, Prefix
  <2>4. SubSeq(msg, 1, p) = msg
    BY ONLY msg \in Seq(Bytes), <2>1, <2>3, SameSequence
  <2> QED BY ONLY <2>1, <2>4
<1>6. /\ Chunk(l(y), p + 1, f) /\ l(y)[p + 9] = y
      /\ SubSeq(l(y), 1, p + 8) = c /\ SubSeq(l(0), 1, p + 8) = c
      /\ SubSeq(l(y), 8, p + 8) = msg1
  BY <1>1, <1>4, <1>5
<1>7. Got(ep, l(y), p + 1, f, p + 8)
  BY <1>2, <1>6 DEF Got
<1>8. msg1 \in Seq(Bytes) /\ Len(msg1) = p + 1
  <2>1. <<0>> \in Seq(Bytes) /\ Len(<<0>>) = 1
    BY DEF Bytes
  <2> QED BY <1>5, <2>1, Concatenation
<1> HIDE DEF msg1
<1>9. /\ q \in 1..251 /\ q + 7 = p + 8 /\ q + 8 = p + 9 /\ 0 \in Nat
      /\ 0 + q <= Len(msg1) /\ 0 + 1 = 1 /\ 0 + q = p + 1
  <2>1. p \in 1..250 /\ Len(msg1) = p + 1
    BY ONLY <1>5, <1>8
  <2>2. q \in 1..251 /\ q + 7 = p + 8 /\ q + 8 = p + 9
    BY ONLY <2>1
  <2>3. 0 + q <= Len(msg1) /\ 0 + q = p + 1
    BY ONLY <2>1
  <2>4. 0 \in Nat /\ 0 + 1 = 1
    OBVIOUS
  <2> QED BY ONLY <2>2, <2>3, <2>4
<1>10. SubSeq(msg1, 1, p + 1) = msg1
  BY ONLY <1>8
<1>11. Gathered(ep, msg1, 0)
  <2>1. ep.cmdbuffer \in Seq(Bytes)
    BY DEF EpType
  <2>2. SubSeq(ep.cmdbuffer, 1, 0) = <<>> /\ 0 <= Len(ep.cmdbuffer) /\ SubSeq(msg1, 1, 0) = <<>>
    BY ONLY <1>8, <2>1
  <2> QED BY <1>2, <2>2 DEF Gathered
<1>12. /\ Chunk(l(y), q, f) /\ SubSeq(l(y), 8, q + 7) = SubSeq(msg1, 0 + 1, 0 + q)
       /\ Got(ep, l(y), q, f, q + 7) /\ EndpointSend(l(y)[q + 8])
  BY <1>6, <1>7, <1>9, <1>10
<1> HIDE DEF q
<1>13. /\ EndsPacket(l(y)[q + 8]) /\ (EndsRequest(l(y)[q + 8]) <=> f = 1)
       /\ f = 1 => RunCommand(SubSeq(msg1, 1, 0 + q))
  <2>1. f \in {0, 1}
    BY <1>3
  <2> QED BY ONLY <1>8, <1>9, <1>11, <1>12, <2>1, ep \in EpType, PacketEnds
<1> QED BY <1>3, <1>6, <1>9, <1>10, <1>13 DEF msg1

\* The middle of packets: a byte that ends none of those the endpoint makes of them.
LEMMA ShiftedStep ==
  ASSUME NEW y \in Bytes, ep \in EpType, ep.offset <= Len(ep.cmdbuffer),
         ep.pktpos <= 1 \/ ep.pktpos < ep.pktlen + 3, EndpointSend(y), ~EndsPacket(y)
  PROVE  /\ ~EndsRequest(y) /\ UNCHANGED slave
         /\ ep' \in EpType /\ ep'.offset = ep.offset /\ ep'.cmdbuffer = ep.cmdbuffer
         /\ ep'.unit = ep.unit
         /\ ep'.pktpos <= 1 \/ ep'.pktpos < ep'.pktlen + 3
<1> DEFINE len == PacketLen(y)
           eom == PacketEom(y)
           packet == Append(ep.packet, y)
<1>1. /\ ep.pktlen \in 0..256 /\ ep.pktpos \in 0..259 /\ ep.eom \in {0, 1} /\ ep.packet \in Seq(Bytes)
      /\ ep.cmdbuffer \in Seq(Bytes) /\ ep.offset \in Nat /\ ep.unit \in Units \cup {DefaultUnit}
      /\ ep = [pktlen |-> ep.pktlen, pktpos |-> ep.pktpos, eom |-> ep.eom, packet |-> ep.packet,
               cmdbuffer |-> ep.cmdbuffer, offset |-> ep.offset, unit |-> ep.unit]
  BY DEF EpType
<1>2. y \in 0..255
  BY DEF Bytes
<1>3. len \in 0..256 /\ (ep.pktpos = 1 => len = y + 1) /\ (ep.pktpos # 1 => len = ep.pktlen)
  <2>1. ep.pktlen \in 0..256 /\ y \in 0..255 /\ len = IF ep.pktpos = 1 THEN y + 1 ELSE ep.pktlen
    BY <1>1, <1>2 DEF PacketLen
  <2> HIDE DEF len
  <2>2. CASE ep.pktpos = 1
    BY ONLY <2>1, <2>2
  <2>3. CASE ep.pktpos # 1
    BY ONLY <2>1, <2>3
  <2> QED BY ONLY <2>2, <2>3
<1>4. eom \in {0, 1}
  BY <1>1, EomBitIs DEF PacketEom
<1>5. ep.pktpos + 1 # len + 3
  BY DEF EndsPacket
<1>6. packet \in Seq(Bytes)
  BY <1>1
<1>7. /\ ep' = [ep EXCEPT !.pktpos = @ + 1, !.pktlen = len, !.eom = eom, !.packet = packet]
      /\ UNCHANGED slave
  BY DEF EndpointSend
<1> HIDE DEF len, eom, packet
<1>8. ep' = [pktlen |-> len, pktpos |-> ep.pktpos + 1, eom |-> eom, packet |-> packet,
             cmdbuffer |-> ep.cmdbuffer, offset |-> ep.offset, unit |-> ep.unit]
  BY ONLY <1>1, <1>7
<1>9. /\ ep.pktpos + 1 \in 0..259
      /\ ep.pktpos + 1 <= 1 \/ ep.pktpos + 1 < len + 3
  <2> DEFINE pos == ep.pktpos
             old == ep.pktlen
  <2>1. pos \in 0..259 /\ old \in 0..256
    BY ONLY <1>1
  <2>2. (pos = 1 => len = y + 1) /\ (pos # 1 => len = old) /\ len \in 0..256
    BY ONLY <1>3
  <2>3. pos <= 1 \/ pos < old + 3
    OBVIOUS
  <2>4. pos + 1 # len + 3
    BY ONLY <1>5
  <2> HIDE DEF pos, old
  <2>5. pos + 1 \in 0..259
    <3>1. CASE pos <= 1
      BY ONLY <2>1, <3>1
    <3>2. CASE pos < old + 3 /\ pos > 1
      BY ONLY <2>1, <2>2, <2>4, <3>2
    <3> QED BY ONLY <2>1, <2>3, <3>1, <3>2
  <2>6. pos + 1 <= 1 \/ pos + 1 < len + 3
    <3>1. CASE pos = 0
      BY ONLY <3>1
    <3>2. CASE pos = 1
      BY ONLY <1>2, <2>2, <3>2
    <3>3. CASE pos > 1
      BY ONLY <2>1, <2>2, <2>3, <2>4, <3>3
    <3> QED BY ONLY <2>1, <3>1, <3>2, <3>3
  <2> QED BY ONLY <2>5, <2>6 DEF pos
<1>10. ep' \in EpType
  BY ONLY <1>1, <1>3, <1>4, <1>6, <1>8, <1>9 DEF EpType
<1>11. ~EndsRequest(y)
  BY DEF EndsRequest
<1> QED BY ONLY <1>7, <1>8, <1>9, <1>10, <1>11


-----------------------------------------------------------------------------
(* The inductive invariant                                                 *)

Lefts == 0..(CountWrap - 1)

HostType ==
  [pc : {"idle", "write", "read", "done"}, req : Requests, tag : Tags,
   todo : Seq(Bytes), reply : Seq(Bytes), left : Lefts,
   inHeader : BOOLEAN, eom : {0, 1}, gets : SUBSET Whose]

LineType == [st : {"in step", "shifted", "lost"}, owed : SUBSET Whose]

Types ==
  /\ ep \in EpType /\ ep.offset <= Len(ep.cmdbuffer)
  /\ host \in HostType
  /\ Rest(slave)
  /\ line \in LineType

Said == Message(host.req, host.tag)

EndpointRests ==
  ep.pktpos = 0 /\ ep.pktlen = 0 /\ ep.eom = 0 /\ ep.packet = <<>> /\ ep.offset = 0

\* The host in the middle of a packet, with at least as much behind it as the
\* part of the header it has read.
InPacket ==
  /\ host.left >= 1
  /\ host.inHeader => host.left <= 8 /\ Len(host.reply) >= 8 - host.left

HostGoesOn ==
  /\ host.pc = "write" =>
       Len(host.todo) > 0 /\ host.reply = <<>> /\ host.inHeader /\ host.eom = 0
  /\ host.pc = "read" => InPacket

\* The slave has the whole of stream, and the host has read the beginning of it.
ReadingFrom(stream) ==
  /\ slave.recvlen = Len(host.reply)
  /\ Len(host.reply) <= Len(stream)
  /\ \A k \in 1..Len(stream) : slave.recvbuffer[k] = stream[k]
  /\ \A k \in 1..Len(host.reply) : host.reply[k] = stream[k]

\* Of the answer to request r the host is in packet i, before left bytes of its
\* header or of the rest.
ReadingAt(r, i) ==
  LET size == DataSize(r) + CrcSize
      n == PacketsOf(size, ep.unit)
      p == Payload(size, ep.unit, i)
      b == Base(i, ep.unit + 9)
  IN \/ host.inHeader /\ host.left \in 1..8 /\ Len(host.reply) = b + 8 - host.left
     \/ /\ ~host.inHeader /\ host.left \in 1..(p + 1)
        /\ Len(host.reply) = b + p + 9 - host.left
        /\ host.eom = EomOf(i, n)

\* The answer to q, whose end the slave has kept, is what the host reads.
Served(q) ==
  /\ KeepsEnd(DataSize(q.req), ep.unit)
  /\ \E crc \in CrcBytes : ReadingFrom(AnswerTo(q.req, q.tag, ep.unit, crc))
  /\ host.pc = "read" =>
       \E i \in 1..PacketsOf(DataSize(q.req) + CrcSize, ep.unit) : ReadingAt(q.req, i)
  /\ host.pc = "done" => Len(host.reply) = StreamLen(DataSize(q.req), ep.unit)

Executed ==
  \A q \in host.gets :
    /\ SubSeq(ep.cmdbuffer, 1, q.req.len) = Message(q.req, q.tag)
    /\ q.req.kind # UNKNOWN => Served(q)

\* Where the two sides count alike: the endpoint has what the host has written.
CountsAlike ==
  /\ line = InStep
  /\ IF host.pc = "write" THEN host.gets = {} /\ Sent(ep, host.todo, Said) ELSE EndpointRests
  /\ host.pc \in {"read", "done"} => host.gets = {Self}

\* Where they do not: the endpoint has what the host has written, or it is a
\* byte short of what an earlier one wrote, or it is in the middle of packets.
CountsOneMore ==
  /\ Self \notin host.gets
  /\ line.st = "in step" => host.gets = {}
  /\ line.st = "in step" /\ line.owed = {} =>
       IF host.pc = "write" THEN LateSent(ep, host.todo, Said) ELSE EndpointRests
  /\ line.st = "in step" /\ line.owed # {} =>
       \E q \in Whose :
         /\ line.owed = {q} /\ ByteShort(ep, Message(q.req, q.tag))
         /\ IF host.pc = "write" THEN q # Self /\ host.todo = xmit_pkt(Said)
            ELSE q.tag = host.tag
  /\ line.st = "shifted" => line.owed = {} /\ (ep.pktpos <= 1 \/ ep.pktpos < ep.pktlen + 3)

Followed ==
  /\ Types
  /\ HostGoesOn
  /\ Executed
  /\ CountExtra = 4 => CountsAlike
  /\ CountExtra = 5 => CountsOneMore

Inv == line.st # "lost" => Followed

\* What a host may have left to read: a packet's bytes fit, and a count that
\* is too small wraps.
LEMMA LeftIs ==
  /\ Lefts \subseteq Nat
  /\ 0..300 \subseteq Lefts
  /\ \A n \in Nat : (n - 4) % CountWrap \in Lefts
  /\ \A n \in 5..256 : (n - 4) % CountWrap = n - 4
  /\ \A n \in Lefts : n > 1 => n - 1 \in Lefts
<1>1. CountWrap \in Nat /\ CountWrap > 300
  BY SMT DEF CountWrap
<1>2. \A n \in Nat : (n - 4) % CountWrap \in 0..(CountWrap - 1)
  BY <1>1, SMT
<1>3. \A n \in 5..256 : (n - 4) % CountWrap = n - 4
  <2> SUFFICES ASSUME NEW n \in 5..256 PROVE (n - 4) % CountWrap = n - 4
    OBVIOUS
  <2>1. \A x \in 1..256 : x % CountWrap = x
    BY <1>1, SMT
  <2>2. n - 4 \in 1..256
    OBVIOUS
  <2> QED BY ONLY <2>1, <2>2
<1> QED BY ONLY <1>1, <1>2, <1>3 DEF Lefts

\* The state of a host that is not there.
LEMMA NoHostIs ==
  \E r \in Requests :
    NoHost = [pc |-> "idle", req |-> r, tag |-> 1, todo |-> <<>>, reply |-> <<>>, left |-> 0,
              inHeader |-> TRUE, eom |-> 0, gets |-> {}]
<1> DEFINE r == CHOOSE x \in Requests : TRUE
<1>1. r \in Requests
  BY MiAssumption
<1>2. NoHost = [pc |-> "idle", req |-> r, tag |-> 1, todo |-> <<>>, reply |-> <<>>, left |-> 0,
                inHeader |-> TRUE, eom |-> 0, gets |-> {}]
  BY DEF NoHost
<1> HIDE DEF r
<1> QED BY <1>1, <1>2

\* The invariant holds at first.
LEMMA InitInv == Init => Inv
<1> SUFFICES ASSUME Init PROVE Followed
  BY DEF Inv
<1>1. /\ ep = [pktlen |-> 0, pktpos |-> 0, eom |-> 0, packet |-> <<>>,
               cmdbuffer |-> <<>>, offset |-> 0, unit |-> DefaultUnit]
      /\ slave = [sendlen |-> 0, recvlen |-> 0, pktpos |-> 0, pktlen |-> 0, eom |-> 0,
                  syncflag |-> FALSE, recvbuffer |-> [i \in 1..BufSize |-> 0]]
      /\ host = NoHost /\ line = InStep
  BY DEF Init, InitialEp, InitialSlave
<1>2. ep \in EpType /\ ep.offset <= Len(ep.cmdbuffer) /\ EndpointRests
  BY <1>1 DEF EpType, EndpointRests
<1>3. Rest(slave)
  <2>1. [i \in 1..BufSize |-> 0] \in [1..BufSize -> Bytes] /\ BufSize \in Nat
    BY MiAssumption DEF Bytes
  <2> QED BY <1>1, <2>1 DEF Rest, SlaveType
<1>4. host \in HostType /\ host.pc = "idle" /\ host.gets = {}
  <2>1. PICK r \in Requests :
          NoHost = [pc |-> "idle", req |-> r, tag |-> 1, todo |-> <<>>, reply |-> <<>>, left |-> 0,
                    inHeader |-> TRUE, eom |-> 0, gets |-> {}]
    BY NoHostIs
  <2>2. 0 \in Lefts /\ 1 \in Tags
    BY LeftIs DEF Tags
  <2> QED BY ONLY <1>1, <2>1, <2>2 DEF HostType
<1>5. line \in LineType /\ line.st = "in step" /\ line.owed = {}
  BY ONLY <1>1 DEF InStep, LineType
<1>6. HostGoesOn /\ Executed
  BY ONLY <1>4 DEF HostGoesOn, Executed
<1>7. CountsAlike
  BY ONLY <1>1, <1>2, <1>4 DEF CountsAlike
<1>8. CountsOneMore
  BY ONLY <1>2, <1>4, <1>5 DEF CountsOneMore
<1> QED BY <1>2, <1>3, <1>4, <1>5, <1>6, <1>7, <1>8 DEF Followed, Types

\* ... and again when the machine is started again.
LEMMA RebootInv == Reboot => Inv'
<1>1. Reboot => Init'
  BY DEF Reboot, Init
<1> QED BY <1>1, InitInv, PTL

\* What the invariant says of the host and the devices, one fact at a time.
LEMMA TypesIs ==
  ASSUME Types
  PROVE  /\ ep \in EpType /\ ep.offset <= Len(ep.cmdbuffer) /\ Rest(slave) /\ line \in LineType
         /\ host = [pc |-> host.pc, req |-> host.req, tag |-> host.tag, todo |-> host.todo,
                    reply |-> host.reply, left |-> host.left, inHeader |-> host.inHeader,
                    eom |-> host.eom, gets |-> host.gets]
         /\ host.pc \in {"idle", "write", "read", "done"} /\ host.req \in Requests
         /\ host.tag \in Tags /\ host.todo \in Seq(Bytes) /\ host.reply \in Seq(Bytes)
         /\ host.left \in Lefts /\ host.inHeader \in BOOLEAN /\ host.eom \in {0, 1}
         /\ host.gets \subseteq Whose
         /\ line = [st |-> line.st, owed |-> line.owed]
         /\ line.st \in {"in step", "shifted", "lost"} /\ line.owed \subseteq Whose
<1>1. ep \in EpType /\ ep.offset <= Len(ep.cmdbuffer) /\ Rest(slave) /\ host \in HostType
      /\ line \in LineType
  BY DEF Types
<1> QED BY ONLY <1>1 DEF HostType, LineType

\* Who asked, and what.
LEMMA WhoseIs ==
  ASSUME NEW q \in Whose
  PROVE  q.req \in Requests /\ q.tag \in Tags /\ q = [req |-> q.req, tag |-> q.tag]
BY DEF Whose

\* What a request says, to the lemmas about the bytes of a message.
LEMMA SaidIs ==
  ASSUME NEW r \in Requests, NEW tag \in Tags, NEW msg, msg = Message(r, tag)
  PROVE  msg \in Seq(Bytes) /\ Len(msg) \in Nat \ {0} /\ Len(msg) > 0
<1>1. msg \in Seq(Bytes) /\ Len(msg) = r.len /\ r.len \in Nat \ {0}
  BY MessageIs
<1> QED BY ONLY <1>1

\* What xmit_pkt writes is longer than a packet's framing.
LEMMA XmitLong ==
  ASSUME CountExtra \in {4, 5}, HostUnit \in 1..250, NEW msg \in Seq(Bytes), Len(msg) > 0
  PROVE  xmit_pkt(msg) \in Seq(Bytes) /\ Len(xmit_pkt(msg)) > 1
<1> DEFINE n == PacketsOf(Len(msg), HostUnit)
           w == HostUnit + 8
           last == Payload(Len(msg), HostUnit, n)
           a == (n - 1) * w
<1>1. HostUnit \in Nat \ {0} /\ Len(msg) \in Nat \ {0}
  OBVIOUS
<1>2. n \in Nat \ {0}
  BY <1>1, Packets
<1>3. n \in 1..n
  <2> HIDE DEF n
  <2> QED BY <1>2
<1>4. last \in 1..HostUnit
  BY <1>1, <1>3, Payloads
<1>5. xmit_pkt(msg) \in Seq(Bytes) /\ Len(xmit_pkt(msg)) = a + last + 8
  BY XmitIs
<1> HIDE DEF n, last
<1>6. a \in Nat
  <2>1. n - 1 \in Nat /\ w \in Nat
    BY <1>1, <1>2
  <2> HIDE DEF w
  <2> QED BY <2>1, Rows
<1> HIDE DEF a
<1> QED BY <1>4, <1>5, <1>6

\* Nothing of a message is written yet.
LEMMA NothingSent ==
  ASSUME EndpointRests, ep \in EpType, NEW msg \in Seq(Bytes), Len(msg) > 0
  PROVE  /\ CountExtra = 4 => Sent(ep, xmit_pkt(msg), msg)
         /\ CountExtra = 5 => LateSent(ep, xmit_pkt(msg), msg)
<1> DEFINE n == PacketsOf(Len(msg), HostUnit)
           x == xmit_pkt(msg)
           p == Payload(Len(msg), HostUnit, 1)
           c == HostChunk(msg, 1, n)
<1>1. HostUnit \in 1..250 /\ HostUnit \in Nat \ {0} /\ CountExtra \in {4, 5}
      /\ Len(msg) \in Nat \ {0}
  BY MiAssumption
<1>2. x \in Seq(Bytes)
  BY <1>1, XmitIs
<1>3. n \in Nat \ {0} /\ Base(1, HostUnit + 8) = 0 /\ p \in 1..HostUnit /\ 1 \in 1..n
  <2>1. 8 \in Nat
    OBVIOUS
  <2>2. Tiled(Len(msg), HostUnit, 8, n)
    BY ONLY <1>1, <2>1, Bases
  <2>3. n \in Nat \ {0} => 1 \in 1..n
    OBVIOUS
  <2> QED BY <2>2, <2>3 DEF Tiled
<1>4. ep.cmdbuffer \in Seq(Bytes)
  BY DEF EpType
<1>5. SubSeq(ep.cmdbuffer, 1, 0) = <<>> /\ 0 <= Len(ep.cmdbuffer) /\ SubSeq(msg, 1, 0) = <<>>
      /\ SubSeq(x, 0 + 1, Len(x)) = x /\ (1 - 1) * HostUnit = 0
  BY <1>1, <1>2, <1>4
<1>6. c \in Seq(Bytes)
  <2>1. Carried(msg, 1)
    BY <1>1, <1>3, ChunksCarry
  <2> QED BY <2>1 DEF Carried
<1>7. ASSUME CountExtra = 4
      PROVE  Sent(ep, x, msg)
  <2>1. Got(ep, c, p, EomOf(1, n), 0)
    <3>1. SubSeq(c, 1, 0) = <<>>
      BY <1>6
    <3> QED BY <3>1 DEF Got, EndpointRests
  <2>2. Gathered(ep, msg, (1 - 1) * HostUnit)
    BY <1>5 DEF Gathered, EndpointRests
  <2>3. x = SubSeq(x, Base(1, HostUnit + 8) + 0 + 1, Len(x))
    BY <1>3, <1>5
  <2>4. Sending(ep, x, msg, 1, 0)
    BY <2>1, <2>2, <2>3 DEF Sending
  <2>5. 0 \in 0..(p + 7)
    BY <1>1, <1>3
  <2> QED BY <1>3, <2>4, <2>5 DEF Sent
<1>8. ASSUME CountExtra = 5
      PROVE  LateSent(ep, x, msg)
  <2>1. Longer(msg, 0) \in Seq(Bytes)
    <3>1. <<0>> \in Seq(Bytes)
      BY DEF Bytes
    <3> HIDE DEF c
    <3>2. c \o <<0>> \in Seq(Bytes)
      BY ONLY <1>6, <3>1, Concatenation
    <3> QED BY <3>2 DEF Longer, c
  <2>2. Got(ep, Longer(msg, 0), p + 1, EomOf(1, n), 0)
    <3>1. SubSeq(Longer(msg, 0), 1, 0) = <<>>
      BY <2>1
    <3> QED BY <3>1 DEF Got, EndpointRests
  <2>3. LateAt(ep, msg, 0)
    BY <2>2 DEF LateAt, EndpointRests
  <2>4. 0 \in 0..(p + IF n = 1 THEN 7 ELSE 8)
    BY <1>1, <1>3
  <2> QED BY <1>5, <2>3, <2>4 DEF LateSent
<1> QED BY <1>7, <1>8

\* A host that starts has its whole message to write, and the endpoint none of it.
LEMMA StartInv ==
  ASSUME Followed, NEW r \in Requests, Start(r)
  PROVE  Followed'
<1>1. PICK tag \in Tags \ {host.tag} :
        host' = [NoHost EXCEPT !.pc = "write", !.req = r, !.tag = tag,
                               !.todo = xmit_pkt(Message(r, tag))]
  BY DEF Start
<1>2. ep' = ep /\ slave' = slave /\ line' = line /\ host.pc # "write" /\ Types
  BY DEF Start, Followed
<1> DEFINE msg == Message(r, tag)
<1>3. msg \in Seq(Bytes) /\ Len(msg) \in Nat \ {0} /\ Len(msg) > 0
  BY SaidIs
<1> HIDE DEF msg
<1>4. ep \in EpType /\ CountExtra \in {4, 5}
  BY <1>2, TypesIs, MiAssumption
<1>5. xmit_pkt(msg) \in Seq(Bytes) /\ Len(xmit_pkt(msg)) > 1
  <2>1. HostUnit \in 1..250
    BY MiAssumption
  <2> QED BY <1>3, <1>4, <2>1, XmitLong
<1>6. /\ host'.pc = "write" /\ host'.req = r /\ host'.tag = tag /\ host'.todo = xmit_pkt(msg)
      /\ host'.reply = <<>> /\ host'.inHeader = TRUE /\ host'.eom = 0 /\ host'.gets = {}
      /\ host' \in HostType
  <2>1. PICK q \in Requests :
          NoHost = [pc |-> "idle", req |-> q, tag |-> 1, todo |-> <<>>, reply |-> <<>>,
                    left |-> 0, inHeader |-> TRUE, eom |-> 0, gets |-> {}]
    BY NoHostIs
  <2>2. host' = [NoHost EXCEPT !.pc = "write", !.req = r, !.tag = tag, !.todo = xmit_pkt(msg)]
    BY <1>1 DEF msg
  <2>3. host' = [pc |-> "write", req |-> r, tag |-> tag, todo |-> xmit_pkt(msg), reply |-> <<>>,
                 left |-> 0, inHeader |-> TRUE, eom |-> 0, gets |-> {}]
    BY ONLY <2>1, <2>2
  <2>4. r \in Requests /\ tag \in Tags /\ 0 \in Lefts
    BY LeftIs
  <2>5. host' \in HostType
    BY ONLY <1>5, <2>3, <2>4 DEF HostType
  <2> QED BY ONLY <2>3, <2>5
<1>7. Types' /\ HostGoesOn' /\ Executed'
  <2>1. Types'
    BY <1>2, <1>6 DEF Types
  <2>2. HostGoesOn'
    BY ONLY <1>5, <1>6 DEF HostGoesOn
  <2>3. Executed'
    BY ONLY <1>6 DEF Executed
  <2> QED BY <2>1, <2>2, <2>3
<1>8. Said' = msg
  BY <1>6 DEF Said, msg
<1>9. ASSUME CountExtra = 4
      PROVE  CountsAlike'
  <2>1. line = InStep /\ EndpointRests
    BY <1>2, <1>9 DEF Followed, CountsAlike
  <2>2. Sent(ep, xmit_pkt(msg), msg)
    BY <1>3, <1>4, <1>9, <2>1, NothingSent
  <2>3. Sent(ep', host'.todo, Said') /\ line' = InStep
    BY ONLY <1>2, <1>6, <1>8, <2>1, <2>2
  <2> QED BY ONLY <1>6, <2>3 DEF CountsAlike, InStep
<1>10. ASSUME CountExtra = 5
       PROVE  CountsOneMore'
  <2>1. /\ line.st = "in step" /\ line.owed = {} => EndpointRests
        /\ line.st = "in step" /\ line.owed # {} =>
             \E q \in Whose : /\ line.owed = {q} /\ ByteShort(ep, Message(q.req, q.tag))
                              /\ q.tag = host.tag
        /\ line.st = "shifted" =>
             line.owed = {} /\ (ep.pktpos <= 1 \/ ep.pktpos < ep.pktlen + 3)
    BY <1>2, <1>10 DEF Followed, CountsOneMore
  <2>2. ASSUME line'.st = "in step", line'.owed = {}
        PROVE  LateSent(ep', host'.todo, Said')
    <3>1. EndpointRests
      BY <1>2, <2>1, <2>2
    <3>2. LateSent(ep, xmit_pkt(msg), msg)
      BY <1>3, <1>4, <1>10, <3>1, NothingSent
    <3> QED BY ONLY <1>2, <1>6, <1>8, <3>2
  <2>3. ASSUME line'.st = "in step", line'.owed # {}
        PROVE  \E q \in Whose : /\ line'.owed = {q} /\ ByteShort(ep', Message(q.req, q.tag))
                                /\ q # Self' /\ host'.todo = xmit_pkt(Said')
    <3>1. PICK q \in Whose : /\ line.owed = {q} /\ ByteShort(ep, Message(q.req, q.tag))
                             /\ q.tag = host.tag
      BY <1>2, <2>1, <2>3
    <3>2. q # Self'
      <4>1. Self'.tag = tag
        BY <1>6 DEF Self
      <4> QED BY <3>1, <4>1
    <3> QED BY <1>2, <1>6, <1>8, <3>1, <3>2
  <2>4. line'.st = "shifted" =>
          line'.owed = {} /\ (ep'.pktpos <= 1 \/ ep'.pktpos < ep'.pktlen + 3)
    BY ONLY <1>2, <2>1
  <2> QED BY ONLY <1>6, <2>2, <2>3, <2>4 DEF CountsOneMore
<1> QED BY <1>7, <1>9, <1>10 DEF Followed

\* A host killed while it reads leaves both devices as they are.
LEMMA AbortInv ==
  ASSUME Followed, Abort, line'.st # "lost"
  PROVE  Followed'
<1>0. Types /\ host.pc \in {"write", "read"}
  BY MiAssumption DEF Followed, Abort
<1>1. host.pc = "read" /\ host' = [NoHost EXCEPT !.tag = host.tag] /\ ep' = ep /\ slave' = slave
      /\ line' = line
  <2>1. /\ host' = [NoHost EXCEPT !.tag = host.tag] /\ ep' = ep /\ slave' = slave
        /\ line' = IF host.pc = "write" THEN [line EXCEPT !.st = "lost"] ELSE line
    BY DEF Abort
  <2>2. line \in LineType
    BY <1>0, TypesIs
  <2>3. [line EXCEPT !.st = "lost"].st = "lost"
    BY ONLY <2>2 DEF LineType
  <2> QED BY <1>0, <2>1, <2>3
<1>2. host' \in HostType /\ host'.pc = "idle" /\ host'.gets = {} /\ host'.tag = host.tag
  <2>1. host.tag \in Tags
    BY <1>0, TypesIs
  <2>2. PICK q \in Requests :
          NoHost = [pc |-> "idle", req |-> q, tag |-> 1, todo |-> <<>>, reply |-> <<>>,
                    left |-> 0, inHeader |-> TRUE, eom |-> 0, gets |-> {}]
    BY NoHostIs
  <2>3. host' = [pc |-> "idle", req |-> q, tag |-> host.tag, todo |-> <<>>, reply |-> <<>>,
                 left |-> 0, inHeader |-> TRUE, eom |-> 0, gets |-> {}]
    BY ONLY <1>1, <2>2
  <2>4. q \in Requests /\ 0 \in Lefts
    BY LeftIs
  <2> QED BY ONLY <2>1, <2>3, <2>4 DEF HostType
<1>3. Types'
  BY <1>0, <1>1, <1>2 DEF Types
<1>4. HostGoesOn' /\ Executed'
  BY ONLY <1>2 DEF HostGoesOn, Executed
<1>5. ASSUME CountExtra = 4
      PROVE  CountsAlike'
  <2>1. line = InStep /\ EndpointRests
    BY <1>1, <1>5 DEF Followed, CountsAlike
  <2>2. line' = InStep /\ EndpointRests'
    BY <1>1, <2>1 DEF EndpointRests
  <2> QED BY ONLY <1>2, <2>2 DEF CountsAlike, InStep
<1>6. ASSUME CountExtra = 5
      PROVE  CountsOneMore'
  <2>1. /\ line.st = "in step" /\ line.owed = {} => EndpointRests
        /\ line.st = "in step" /\ line.owed # {} =>
             \E q \in Whose : /\ line.owed = {q} /\ ByteShort(ep, Message(q.req, q.tag))
                              /\ q.tag = host.tag
        /\ line.st = "shifted" =>
             line.owed = {} /\ (ep.pktpos <= 1 \/ ep.pktpos < ep.pktlen + 3)
    BY <1>1, <1>6 DEF Followed, CountsOneMore
  <2>2. EndpointRests => EndpointRests'
    BY ONLY <1>1 DEF EndpointRests
  <2>3. /\ line'.st = "in step" /\ line'.owed = {} => EndpointRests'
        /\ line'.st = "in step" /\ line'.owed # {} =>
             \E q \in Whose : /\ line'.owed = {q} /\ ByteShort(ep', Message(q.req, q.tag))
                              /\ q.tag = host'.tag
        /\ line'.st = "shifted" =>
             line'.owed = {} /\ (ep'.pktpos <= 1 \/ ep'.pktpos < ep'.pktlen + 3)
    BY <1>1, <1>2, <2>1, <2>2
  <2> QED BY ONLY <1>2, <2>3 DEF CountsOneMore
<1> QED BY <1>3, <1>4, <1>5, <1>6 DEF Followed

\* What is left of a sequence that is not empty.
LEMMA LenIs ==
  ASSUME NEW A, NEW s \in Seq(A), Len(s) > 0
  PROVE  /\ Head(s) \in A /\ Len(s) \in Nat
         /\ Len(s) > 1 \/ Len(s) = 1
         /\ Len(s) > 1 => /\ Len(s) # 1 /\ Tail(s) \in Seq(A)
                          /\ Len(Tail(s)) > 0 /\ Len(Tail(s)) = Len(s) - 1
         /\ Len(s) = 1 => ~(Len(s) > 1)
<1>1. s # <<>>
  OBVIOUS
<1>2. Head(s) \in A /\ Len(s) \in Nat
  BY <1>1
<1>3. Tail(s) \in Seq(A) /\ Len(Tail(s)) = Len(s) - 1
  BY <1>1
<1> DEFINE n == Len(s)
           m == Len(Tail(s))
<1> HIDE DEF n, m
<1>4. n \in Nat /\ n > 0 /\ m = n - 1
  BY <1>2, <1>3 DEF n, m
<1>5. (n > 1 \/ n = 1) /\ (n > 1 => n # 1 /\ m > 0) /\ (n = 1 => ~(n > 1))
  BY ONLY <1>4
<1> QED BY <1>2, <1>3, <1>5 DEF n, m

\* What a written byte is to the host.
LEMMA HostWrites ==
  ASSUME Followed, WriteByte, line'.st # "lost"
  PROVE  LET data == Head(host.todo)
         IN /\ host.pc = "write" /\ host.reply = <<>> /\ Len(host.todo) > 0 /\ data \in Bytes
            /\ ~(line.st = "shifted" /\ EndsPacket(data)) /\ EndpointSend(data)
            /\ line' = LineAfter(data)
            /\ host'.gets = host.gets \cup EndedBy(data)
            /\ host'.req = host.req /\ host'.tag = host.tag
            /\ host'.reply = <<>> /\ host'.inHeader /\ host'.eom = 0
            /\ host'.gets \subseteq Whose => host' \in HostType
            /\ Len(host.todo) > 1 =>
                 /\ host'.pc = "write" /\ host'.todo = Tail(host.todo)
                 /\ Len(host'.todo) > 0
            /\ Len(host.todo) = 1 => host'.pc = "read" /\ host'.left = 8
<1> DEFINE data == Head(host.todo)
           gets == host.gets \cup EndedBy(data)
<1>0. Types
  BY DEF Followed
<1>1. /\ host = [pc |-> host.pc, req |-> host.req, tag |-> host.tag, todo |-> host.todo,
                 reply |-> host.reply, left |-> host.left, inHeader |-> host.inHeader,
                 eom |-> host.eom, gets |-> host.gets]
      /\ host.req \in Requests /\ host.tag \in Tags /\ host.todo \in Seq(Bytes)
      /\ host.left \in Lefts /\ host.inHeader \in BOOLEAN
  BY <1>0, TypesIs
<1>2. /\ host.pc = "write"
      /\ IF line.st = "shifted" /\ EndsPacket(data) THEN UNCHANGED <<ep, slave>>
         ELSE EndpointSend(data)
      /\ line' = LineAfter(data)
      /\ host' = IF Len(host.todo) > 1
                 THEN [host EXCEPT !.todo = Tail(@), !.gets = gets]
                 ELSE [host EXCEPT !.pc = "read", !.todo = <<>>, !.left = 8, !.gets = gets]
  BY DEF WriteByte
<1>3. Len(host.todo) > 0 /\ host.reply = <<>> /\ host.inHeader = TRUE /\ host.eom = 0
  BY <1>1, <1>2 DEF Followed, HostGoesOn
<1>4. data \in Bytes
  BY <1>1, <1>3, LenIs
<1>5. ~(line.st = "shifted" /\ EndsPacket(data))
  <2> SUFFICES ASSUME line.st = "shifted", EndsPacket(data) PROVE FALSE
    OBVIOUS
  <2>1. LineAfter(data).st = "lost"
    BY DEF LineAfter
  <2> QED BY <1>2, <2>1
<1> HIDE DEF data, gets
<1>6. CASE Len(host.todo) > 1
  <2>1. host' = [pc |-> "write", req |-> host.req, tag |-> host.tag, todo |-> Tail(host.todo),
                 reply |-> <<>>, left |-> host.left, inHeader |-> TRUE,
                 eom |-> 0, gets |-> gets]
    BY ONLY <1>1, <1>2, <1>3, <1>6
  <2>2. Tail(host.todo) \in Seq(Bytes) /\ Len(Tail(host.todo)) > 0 /\ ~(Len(host.todo) = 1)
    BY <1>1, <1>3, <1>6, LenIs
  <2>3. gets \subseteq Whose => host' \in HostType
    BY ONLY <1>1, <2>1, <2>2 DEF HostType
  <2>4. host'.gets = gets
    BY ONLY <2>1
  <2> QED BY <1>2, <1>3, <1>4, <1>5, <1>6, <2>1, <2>2, <2>3, <2>4 DEF data, gets
<1>7. CASE ~(Len(host.todo) > 1)
  <2>1. host' = [pc |-> "read", req |-> host.req, tag |-> host.tag, todo |-> <<>>,
                 reply |-> <<>>, left |-> 8, inHeader |-> TRUE,
                 eom |-> 0, gets |-> gets]
    BY ONLY <1>1, <1>2, <1>3, <1>7
  <2>2. 8 \in Lefts /\ <<>> \in Seq(Bytes)
    <3>1. 8 \in 0..300
      OBVIOUS
    <3> QED BY <3>1, LeftIs
  <2>3. gets \subseteq Whose => host' \in HostType
    BY ONLY <1>1, <2>1, <2>2 DEF HostType
  <2>4. host'.gets = gets
    BY ONLY <2>1
  <2> QED BY <1>2, <1>3, <1>4, <1>5, <1>7, <2>1, <2>3, <2>4 DEF data, gets
<1> QED BY <1>6, <1>7

\* After a written byte the host goes on, whatever the endpoint makes of it.
LEMMA WritingGoesOn ==
  ASSUME Followed, WriteByte, line'.st # "lost"
  PROVE  /\ HostGoesOn'
         /\ Len(host.todo) > 1 \/ Len(host.todo) = 1
         /\ Len(host.todo) > 1 => Len(host.todo) # 1
<1>1. /\ Len(host.todo) > 0
      /\ host'.reply = <<>> /\ host'.inHeader /\ host'.eom = 0
      /\ Len(host.todo) > 1 => host'.pc = "write" /\ Len(host'.todo) > 0
      /\ Len(host.todo) = 1 => host'.pc = "read" /\ host'.left = 8
  BY HostWrites
<1>2. host.todo \in Seq(Bytes)
  BY TypesIs DEF Followed
<1>3. Len(host.todo) > 1 \/ Len(host.todo) = 1
  BY <1>1, <1>2, LenIs
<1>4. CASE Len(host.todo) > 1
  BY ONLY <1>1, <1>4 DEF HostGoesOn
<1>5. CASE Len(host.todo) = 1
  <2>1. InPacket'
    BY ONLY <1>1, <1>5 DEF InPacket
  <2> QED BY ONLY <1>1, <1>5, <2>1 DEF HostGoesOn
<1>6. Len(host.todo) > 1 => Len(host.todo) # 1
  BY <1>1, <1>2, LenIs
<1> QED BY ONLY <1>3, <1>4, <1>5, <1>6

\* An answer of which nothing has been read yet, to a host that writes or begins to
\* read.
LEMMA ServedAfresh ==
  ASSUME NEW q \in Whose, q.req.kind # UNKNOWN, NEW unit \in Units \cup {DefaultUnit},
         KeepsEnd(DataSize(q.req), unit), NEW crc \in CrcBytes,
         slave'.recvlen = 0,
         \A k \in 1..Len(AnswerTo(q.req, q.tag, unit, crc)) :
           slave'.recvbuffer[k] = AnswerTo(q.req, q.tag, unit, crc)[k],
         ep'.unit = unit, host'.reply = <<>>, host'.inHeader,
         host'.pc = "write" \/ (host'.pc = "read" /\ host'.left = 8)
  PROVE  Served(q)'
<1> DEFINE size == DataSize(q.req) + CrcSize
           stream == AnswerTo(q.req, q.tag, unit, crc)
<1>1. unit \in Nat \ {0}
  <2>1. unit \in 1..250
    BY MiAssumption
  <2> QED BY ONLY <2>1
<1>2. size \in Nat \ {0} /\ stream \in Seq(Bytes)
  <2>1. size \in Nat \ {0}
    BY WhoseIs, SizeIs DEF CrcSize
  <2>2. stream \in Seq(Bytes)
    BY WhoseIs, AnswerFramed DEF Framed
  <2> QED BY ONLY <2>1, <2>2
<1>3. 1 \in 1..PacketsOf(size, unit) /\ Base(1, unit + 9) = 0
  <2>1. 9 \in Nat
    OBVIOUS
  <2> HIDE DEF size
  <2>2. Tiled(size, unit, 9, PacketsOf(size, unit))
    BY ONLY <1>1, <1>2, <2>1, Bases
  <2>3. PacketsOf(size, unit) \in Nat \ {0} /\ Base(1, unit + 9) = 0
    BY ONLY <2>2 DEF Tiled
  <2> QED BY ONLY <2>3
<1> HIDE DEF size
<1>4. Len(host'.reply) = 0
  OBVIOUS
<1>5. ReadingFrom(stream)'
  <2>1. 0 <= Len(stream)
    BY <1>2
  <2>2. \A k \in 1..Len(stream) : slave'.recvbuffer[k] = stream[k]
    OBVIOUS
  <2> HIDE DEF stream
  <2>3. \A k \in 1..Len(host'.reply) : host'.reply[k] = stream[k]
    BY ONLY <1>4
  <2> QED BY ONLY <1>4, <2>1, <2>2, <2>3, slave'.recvlen = 0 DEF ReadingFrom
<1>6. host'.pc = "read" => ReadingAt(q.req, 1)'
  <2>1. host'.left = 8 => host'.left \in 1..8 /\ Len(host'.reply) = 0 + 8 - host'.left
    BY ONLY <1>4
  <2>2. Base(1, ep'.unit + 9) = 0
    BY <1>3
  <2>3. host'.inHeader /\ (host'.pc = "read" => host'.left = 8)
    OBVIOUS
  <2> QED BY ONLY <2>1, <2>2, <2>3 DEF ReadingAt
<1>7. host'.pc # "done"
  OBVIOUS
<1>8. host'.pc = "read" =>
        \E i \in 1..PacketsOf(DataSize(q.req) + CrcSize, ep'.unit) : ReadingAt(q.req, i)'
  BY <1>3, <1>6 DEF size
<1>9. (\E x \in CrcBytes : ReadingFrom(AnswerTo(q.req, q.tag, ep.unit, x)))'
  BY <1>5
<1> QED BY <1>7, <1>8, <1>9 DEF Served

\* The request that is executed by a byte is said by the endpoint, and served.
LEMMA ExecutedNow ==
  ASSUME Followed, WriteByte, line'.st # "lost", NEW q \in Whose, EndedBy(Head(host.todo)) = {q},
         NEW cmd, Says(cmd, q.req, q.tag), RunCommand(cmd)
  PROVE  /\ ep' \in EpType /\ ep'.offset <= Len(ep'.cmdbuffer) /\ Rest(slave')
         /\ EndpointRests' /\ ep'.pktpos = 0 /\ ep'.unit = UnitSet(ep.unit, q.req)
         /\ SubSeq(ep'.cmdbuffer, 1, q.req.len) = Message(q.req, q.tag)
         /\ q.req.kind # UNKNOWN => Served(q)'
<1> DEFINE data == Head(host.todo)
           unit == UnitSet(ep.unit, q.req)
<1>1. q.req \in Requests /\ q.tag \in Tags
  BY WhoseIs
<1>2. ~SlaveLosesEnd(q.req)
  <2> SUFFICES ASSUME SlaveLosesEnd(q.req) PROVE FALSE
    OBVIOUS
  <2>1. LineAfter(data).st = "lost"
    BY DEF LineAfter
  <2>2. line' = LineAfter(data)
    BY DEF WriteByte
  <2> QED BY <2>1, <2>2
<1>3. ep \in EpType /\ Rest(slave)
  BY TypesIs DEF Followed
<1>4. /\ ep' = [pktlen |-> 0, pktpos |-> 0, eom |-> 0, packet |-> <<>>,
                cmdbuffer |-> cmd, offset |-> 0, unit |-> unit]
      /\ ep' \in EpType
      /\ unit \in Units \cup {DefaultUnit}
      /\ Rest(slave')
      /\ q.req.kind # UNKNOWN =>
           \E crc \in CrcBytes : Holds(slave', AnswerTo(q.req, q.tag, unit, crc))
  BY <1>1, <1>2, <1>3, RunIs
<1>5. cmd \in Seq(Bytes) /\ SubSeq(cmd, 1, q.req.len) = Message(q.req, q.tag)
  BY DEF Says
<1>6. EndpointRests' /\ ep'.pktpos = 0 /\ ep'.cmdbuffer = cmd /\ ep'.unit = unit
      /\ ep'.offset <= Len(ep'.cmdbuffer)
  <2>1. 0 <= Len(cmd)
    BY ONLY <1>5
  <2> HIDE DEF unit
  <2> QED BY ONLY <1>4, <2>1 DEF EndpointRests
<1>7. ASSUME q.req.kind # UNKNOWN
      PROVE  Served(q)'
  <2>1. PICK crc \in CrcBytes : Holds(slave', AnswerTo(q.req, q.tag, unit, crc))
    BY <1>4, <1>7
  <2>2. KeepsEnd(DataSize(q.req), unit)
    BY <1>2, <1>7 DEF SlaveLosesEnd
  <2>3. /\ host'.reply = <<>> /\ host'.inHeader
        /\ Len(host.todo) > 1 => host'.pc = "write"
        /\ Len(host.todo) = 1 => host'.pc = "read" /\ host'.left = 8
    BY HostWrites
  <2>4. Len(host.todo) > 1 \/ Len(host.todo) = 1
    BY WritingGoesOn
  <2>5. /\ slave'.recvlen = 0
        /\ \A k \in 1..Len(AnswerTo(q.req, q.tag, unit, crc)) :
             slave'.recvbuffer[k] = AnswerTo(q.req, q.tag, unit, crc)[k]
    BY <2>1 DEF Holds
  <2>6. host'.pc = "write" \/ (host'.pc = "read" /\ host'.left = 8)
    BY ONLY <2>3, <2>4
  <2> HIDE DEF unit
  <2> QED BY <1>4, <1>6, <1>7, <2>2, <2>3, <2>5, <2>6, ServedAfresh
<1> QED BY <1>4, <1>5, <1>6, <1>7

\* What was executed before stays, if a byte only adds to the endpoint's packet.
LEMMA ExecutedBefore ==
  ASSUME Followed, WriteByte, line'.st # "lost", host'.gets = host.gets,
         UNCHANGED slave, ep'.unit = ep.unit,
         host.gets # {} => ep'.cmdbuffer = ep.cmdbuffer
  PROVE  Executed'
<1> SUFFICES ASSUME NEW q \in host.gets
             PROVE  /\ SubSeq(ep'.cmdbuffer, 1, q.req.len) = Message(q.req, q.tag)
                    /\ q.req.kind # UNKNOWN => Served(q)'
  BY DEF Executed
<1>1. /\ SubSeq(ep.cmdbuffer, 1, q.req.len) = Message(q.req, q.tag)
      /\ q.req.kind # UNKNOWN => Served(q)
  BY DEF Followed, Executed
<1>2. SubSeq(ep'.cmdbuffer, 1, q.req.len) = Message(q.req, q.tag)
  BY <1>1
<1>3. ASSUME q.req.kind # UNKNOWN
      PROVE  Served(q)'
  <2>1. q \in Whose /\ ep.unit \in Units \cup {DefaultUnit}
    BY TypesIs DEF Followed, EpType
  <2>2. PICK crc \in CrcBytes : ReadingFrom(AnswerTo(q.req, q.tag, ep.unit, crc))
    BY <1>1, <1>3 DEF Served
  <2>3. /\ host.reply = <<>>
        /\ host'.reply = <<>> /\ host'.inHeader
        /\ Len(host.todo) > 1 => host'.pc = "write"
        /\ Len(host.todo) = 1 => host'.pc = "read" /\ host'.left = 8
    BY HostWrites
  <2>4. Len(host.todo) > 1 \/ Len(host.todo) = 1
    BY WritingGoesOn
  <2>5. host'.pc = "write" \/ (host'.pc = "read" /\ host'.left = 8)
    BY ONLY <2>3, <2>4
  <2>6. slave'.recvlen = 0
    BY <2>2, <2>3 DEF ReadingFrom
  <2>7. \A k \in 1..Len(AnswerTo(q.req, q.tag, ep.unit, crc)) :
          slave'.recvbuffer[k] = AnswerTo(q.req, q.tag, ep.unit, crc)[k]
    BY <2>2 DEF ReadingFrom
  <2>8. KeepsEnd(DataSize(q.req), ep.unit)
    BY <1>1, <1>3 DEF Served
  <2> QED BY <1>3, <2>1, <2>3, <2>5, <2>6, <2>7, <2>8, ServedAfresh
<1> QED BY <1>2, <1>3

\* A byte of a message that has been sent so far, to an endpoint that counts alike.
LEMMA AlikeStep ==
  ASSUME CountExtra = 4, NEW msg, msg \in Seq(Bytes), Len(msg) > 0,
         NEW todo, ep \in EpType, Sent(ep, todo, msg), EndpointSend(Head(todo))
  PROVE  \/ /\ Len(todo) > 1 /\ Sent(ep', Tail(todo), msg) /\ ~EndsRequest(Head(todo))
            /\ ep' \in EpType /\ ep'.offset <= Len(ep'.cmdbuffer)
            /\ ep'.unit = ep.unit /\ UNCHANGED slave
         \/ Len(todo) = 1 /\ EndsRequest(Head(todo)) /\ RunCommand(msg)
<1> DEFINE n == PacketsOf(Len(msg), HostUnit)
<1>1. PICK i \in 1..n : \E j \in 0..(Payload(Len(msg), HostUnit, i) + 7) :
        Sending(ep, todo, msg, i, j)
  BY DEF Sent
<1>2. PICK j \in 0..(Payload(Len(msg), HostUnit, i) + 7) : Sending(ep, todo, msg, i, j)
  BY <1>1
<1>3. i \in 1..PacketsOf(Len(msg), HostUnit) /\ j \in 0..(Payload(Len(msg), HostUnit, i) + 7)
      /\ CountExtra = 4 /\ msg \in Seq(Bytes) /\ Len(msg) > 0 /\ ep \in EpType
      /\ EndpointSend(Head(todo))
  OBVIOUS
<1> HIDE DEF n
<1> QED BY ONLY <1>2, <1>3, SendingStep

\* Where the two sides count alike, a byte adds to what the endpoint has of the
\* request, or ends it.
LEMMA WriteAlike ==
  ASSUME Followed, WriteByte, line'.st # "lost", CountExtra = 4
  PROVE  Followed'
<1> DEFINE msg == Message(host.req, host.tag)
           data == Head(host.todo)
<1>1. /\ host.pc = "write" /\ EndpointSend(data) /\ line' = LineAfter(data)
      /\ host'.gets = host.gets \cup EndedBy(data)
      /\ host'.req = host.req /\ host'.tag = host.tag
      /\ host'.gets \subseteq Whose => host' \in HostType
      /\ Len(host.todo) > 1 => host'.pc = "write" /\ host'.todo = Tail(host.todo)
      /\ Len(host.todo) = 1 => host'.pc = "read"
  BY HostWrites
<1>2. line = InStep /\ host.gets = {} /\ Sent(ep, host.todo, msg)
  BY <1>1 DEF Followed, CountsAlike, Said
<1>3. ep \in EpType /\ host.req \in Requests /\ host.tag \in Tags /\ Rest(slave)
  BY TypesIs DEF Followed
<1>4. msg \in Seq(Bytes) /\ Len(msg) > 0
  BY <1>3, SaidIs
<1>5. HostGoesOn'
  BY WritingGoesOn
<1>6. Said' = msg /\ Self' = Self /\ Self \in Whose /\ Self = [req |-> host.req, tag |-> host.tag]
  BY <1>1, <1>3 DEF Said, Self, Whose
<1>7. \/ /\ Len(host.todo) > 1 /\ Sent(ep', Tail(host.todo), msg) /\ ~EndsRequest(data)
         /\ ep' \in EpType /\ ep'.offset <= Len(ep'.cmdbuffer)
         /\ ep'.unit = ep.unit /\ UNCHANGED slave
      \/ Len(host.todo) = 1 /\ EndsRequest(data) /\ RunCommand(msg)
  <2> HIDE DEF msg
  <2> QED BY <1>1, <1>2, <1>3, <1>4, AlikeStep
<1>8. line.st = "in step" /\ line.owed = {}
  BY <1>2 DEF InStep
<1>9. line' = InStep /\ line' \in LineType
  <2>1. LineAfter(data).st # "lost"
    BY <1>1
  <2>2. LineAfter(data).st = "in step"
    BY <1>8, <2>1 DEF LineAfter
  <2>3. LineAfter(data).owed = {}
    BY <1>7, <1>8, WritingGoesOn DEF LineAfter
  <2>4. LineAfter(data) = [st |-> LineAfter(data).st, owed |-> LineAfter(data).owed]
    BY DEF LineAfter
  <2>5. line' = InStep
    BY <1>1, <2>2, <2>3, <2>4 DEF InStep
  <2> QED BY <2>5 DEF InStep, LineType
<1> HIDE DEF msg, data
<1>10. CASE /\ Len(host.todo) > 1 /\ Sent(ep', Tail(host.todo), msg) /\ ~EndsRequest(data)
            /\ ep' \in EpType /\ ep'.offset <= Len(ep'.cmdbuffer)
            /\ ep'.unit = ep.unit /\ UNCHANGED slave
  <2>1. host'.gets = {} /\ host'.pc = "write" /\ host'.todo = Tail(host.todo)
    BY <1>1, <1>2, <1>10 DEF EndedBy
  <2>2. Types'
    BY <1>1, <1>3, <1>9, <1>10, <2>1 DEF Types
  <2>3. Executed'
    BY ONLY <2>1 DEF Executed
  <2>4. Sent(ep', host'.todo, Said')
    BY ONLY <1>6, <1>10, <2>1
  <2>5. CountsAlike'
    BY ONLY <1>9, <2>1, <2>4 DEF CountsAlike, InStep
  <2> QED BY <1>5, <2>2, <2>3, <2>5 DEF Followed
<1>11. CASE Len(host.todo) = 1 /\ EndsRequest(data) /\ RunCommand(msg)
  <2>1. PICK q \in Whose : q = Self
    BY <1>6
  <2>2. EndedBy(data) = {q} /\ host'.gets = {q} /\ host'.pc = "read"
    BY <1>1, <1>2, <1>8, <1>11, <2>1 DEF EndedBy
  <2>3. q.req = host.req /\ q.tag = host.tag /\ Self' = q
    BY <1>6, <2>1
  <2>4. Says(msg, q.req, q.tag) /\ EndedBy(Head(host.todo)) = {q}
    BY <1>3, <2>2, <2>3, SaysIs DEF msg, data
  <2>5. /\ ep' \in EpType /\ ep'.offset <= Len(ep'.cmdbuffer) /\ Rest(slave')
        /\ EndpointRests'
        /\ SubSeq(ep'.cmdbuffer, 1, q.req.len) = Message(q.req, q.tag)
        /\ q.req.kind # UNKNOWN => Served(q)'
    BY <1>11, <2>4, ExecutedNow
  <2>6. Types'
    BY <1>1, <1>9, <2>2, <2>5 DEF Types
  <2>7. Executed'
    BY <2>2, <2>5 DEF Executed
  <2>8. CountsAlike'
    BY ONLY <1>9, <2>2, <2>3, <2>5 DEF CountsAlike, InStep
  <2> QED BY <1>5, <2>6, <2>7, <2>8 DEF Followed
<1> QED BY <1>7, <1>10, <1>11

\* Where they do not, and the endpoint has what the host has written, a byte adds
\* to it, or leaves the endpoint a byte short, or ends the first packet of several.
LEMMA WriteLate ==
  ASSUME Followed, WriteByte, line'.st # "lost", CountExtra = 5,
         line.st = "in step", line.owed = {}
  PROVE  Followed'
<1> DEFINE msg == Message(host.req, host.tag)
           data == Head(host.todo)
<1>0. CountExtra = 5 /\ CountExtra # 4
  BY ONLY CountExtra = 5
<1>1. /\ host.pc = "write" /\ EndpointSend(data) /\ line' = LineAfter(data)
      /\ host'.gets = host.gets \cup EndedBy(data)
      /\ host'.req = host.req /\ host'.tag = host.tag
      /\ host'.gets \subseteq Whose => host' \in HostType
      /\ Len(host.todo) > 1 => host'.pc = "write" /\ host'.todo = Tail(host.todo)
      /\ Len(host.todo) = 1 => host'.pc = "read"
  BY HostWrites
<1>2. host.gets = {} /\ LateSent(ep, host.todo, msg)
  BY <1>1 DEF Followed, CountsOneMore, Said
<1>3. /\ ep \in EpType /\ ep.offset <= Len(ep.cmdbuffer) /\ host.req \in Requests
      /\ host.tag \in Tags /\ Rest(slave)
  BY TypesIs DEF Followed
<1>4. msg \in Seq(Bytes) /\ Len(msg) > 0
  BY <1>3, SaidIs
<1>5. HostGoesOn'
  BY WritingGoesOn
<1>6. Said' = msg /\ Self' = Self /\ Self \in Whose /\ Self.req = host.req /\ Self.tag = host.tag
  BY <1>1, <1>3 DEF Said, Self, Whose
<1>7. /\ ~EndsRequest(data) /\ UNCHANGED slave
      /\ ep' \in EpType /\ ep'.offset <= Len(ep'.cmdbuffer) /\ ep'.unit = ep.unit
      /\ \/ Len(host.todo) > 1 /\ ~EndsPacket(data) /\ LateSent(ep', Tail(host.todo), msg)
         \/ Len(host.todo) = 1 /\ ~EndsPacket(data) /\ ByteShort(ep', msg)
         \/ Len(host.todo) > 1 /\ EndsPacket(data) /\ ep'.pktpos = 0
  <2> HIDE DEF msg
  <2> QED BY <1>1, <1>2, <1>3, <1>4, LateStep
<1>8. EndedBy(data) = {} /\ host'.gets = {}
  BY <1>1, <1>2, <1>7 DEF EndedBy
<1>9. /\ line'.st = IF EndsPacket(data) THEN "shifted" ELSE "in step"
      /\ line'.owed = IF Len(host.todo) = 1 /\ ~EndsPacket(data) THEN {Self} ELSE {}
      /\ line' \in LineType
  <2>1. /\ LineAfter(data).st = IF EndsPacket(data) THEN "shifted" ELSE "in step"
        /\ LineAfter(data).owed = IF Len(host.todo) = 1 /\ ~EndsPacket(data) THEN {Self} ELSE {}
        /\ LineAfter(data) = [st |-> LineAfter(data).st, owed |-> LineAfter(data).owed]
    BY <1>0, <1>7, <1>8 DEF LineAfter
  <2> QED BY <1>1, <1>6, <2>1 DEF LineType
<1> HIDE DEF msg, data
<1>10. Types' /\ Executed'
  <2>1. Types'
    BY <1>1, <1>3, <1>7, <1>8, <1>9 DEF Types
  <2>2. Executed'
    BY ONLY <1>8 DEF Executed
  <2> QED BY <2>1, <2>2
<1>11. CASE Len(host.todo) > 1 /\ ~EndsPacket(data) /\ LateSent(ep', Tail(host.todo), msg)
  <2>1. line'.st = "in step" /\ line'.owed = {} /\ host'.pc = "write"
        /\ LateSent(ep', host'.todo, Said')
    BY <1>1, <1>6, <1>9, <1>11
  <2>2. CountsOneMore'
    BY ONLY <1>8, <2>1 DEF CountsOneMore
  <2> QED BY <1>5, <1>10, <2>2, <1>0 DEF Followed
<1>12. CASE Len(host.todo) = 1 /\ ~EndsPacket(data) /\ ByteShort(ep', msg)
  <2>1. PICK q \in Whose : q = Self
    BY <1>6
  <2>2. line'.st = "in step" /\ line'.owed = {q} /\ host'.pc = "read"
        /\ ByteShort(ep', Message(q.req, q.tag)) /\ q.tag = host'.tag
    BY <1>1, <1>6, <1>9, <1>12, <2>1 DEF msg
  <2>3. CountsOneMore'
    BY ONLY <1>8, <2>2 DEF CountsOneMore
  <2> QED BY <1>5, <1>10, <2>3, <1>0 DEF Followed
<1>13. CASE Len(host.todo) > 1 /\ EndsPacket(data) /\ ep'.pktpos = 0
  <2>1. line'.st = "shifted" /\ line'.owed = {}
    BY <1>9, <1>13
  <2>2. CountsOneMore'
    BY ONLY <1>8, <1>13, <2>1 DEF CountsOneMore
  <2> QED BY <1>5, <1>10, <2>2, <1>0 DEF Followed
<1> QED BY <1>7, <1>11, <1>12, <1>13

\* The first byte of a process ends the request of the one before.
LEMMA WriteOwed ==
  ASSUME Followed, WriteByte, line'.st # "lost", CountExtra = 5,
         line.st = "in step", line.owed # {}
  PROVE  Followed'
<1> DEFINE data == Head(host.todo)
<1>0. CountExtra = 5 /\ CountExtra # 4
  BY ONLY CountExtra = 5
<1>1. /\ host.pc = "write" /\ data \in Bytes /\ EndpointSend(data) /\ line' = LineAfter(data)
      /\ host'.gets = host.gets \cup EndedBy(data)
      /\ host'.req = host.req /\ host'.tag = host.tag
      /\ host'.gets \subseteq Whose => host' \in HostType
      /\ Len(host.todo) > 1 => host'.pc = "write" /\ host'.todo = Tail(host.todo)
      /\ Len(host.todo) = 1 => host'.pc = "read"
  BY HostWrites
<1>2. host.gets = {}
  BY DEF Followed, CountsOneMore
<1>3. PICK q \in Whose : line.owed = {q} /\ ByteShort(ep, Message(q.req, q.tag)) /\ q # Self
  BY <1>1 DEF Followed, CountsOneMore
<1> DEFINE msg == Message(q.req, q.tag)
<1>4. q.req \in Requests /\ q.tag \in Tags
  BY WhoseIs
<1>5. ep \in EpType
  BY TypesIs DEF Followed
<1>6. msg \in Seq(Bytes) /\ Len(msg) > 0
  BY <1>4, SaidIs
<1>7. EndsPacket(data) /\ EndsRequest(data) /\ RunCommand(msg \o <<0>>)
  <2> HIDE DEF msg, data
  <2> QED BY <1>1, <1>3, <1>5, <1>6, LateEnds DEF msg
<1>8. EndedBy(data) = {q} /\ host'.gets = {q} /\ EndedBy(Head(host.todo)) = {q}
  BY <1>1, <1>2, <1>3, <1>7 DEF EndedBy
<1>9. Says(msg \o <<0>>, q.req, q.tag)
  BY <1>4, SaysIs
<1>10. /\ ep' \in EpType /\ ep'.offset <= Len(ep'.cmdbuffer) /\ Rest(slave') /\ ep'.pktpos = 0
       /\ SubSeq(ep'.cmdbuffer, 1, q.req.len) = Message(q.req, q.tag)
       /\ q.req.kind # UNKNOWN => Served(q)'
  <2> DEFINE cmd == msg \o <<0>>
  <2>1. Says(cmd, q.req, q.tag) /\ RunCommand(cmd)
    BY <1>7, <1>9
  <2> HIDE DEF cmd
  <2> QED BY <1>8, <2>1, ExecutedNow
<1>11. line'.st = "shifted" /\ line'.owed = {} /\ line' \in LineType
  <2>1. LineAfter(data).st # "lost"
    BY <1>1
  <2>2. LineAfter(data).st = "shifted" /\ LineAfter(data).owed = {}
        /\ LineAfter(data) = [st |-> LineAfter(data).st, owed |-> LineAfter(data).owed]
    BY <1>0, <1>7, <2>1 DEF LineAfter
  <2> QED BY <1>1, <2>2 DEF LineType
<1>12. Self' = Self
  BY <1>1 DEF Self
<1>13. Types'
  BY <1>1, <1>8, <1>10, <1>11 DEF Types
<1>14. Executed'
  BY <1>8, <1>10 DEF Executed
<1>15. CountsOneMore'
  <2>1. Self' \notin host'.gets
    BY <1>3, <1>8, <1>12
  <2> QED BY ONLY <1>10, <1>11, <2>1 DEF CountsOneMore
<1>16. HostGoesOn'
  BY WritingGoesOn
<1> QED BY <1>13, <1>14, <1>15, <1>16, <1>0 DEF Followed

\* In the middle of packets a byte that ends none of them changes nothing else.
LEMMA WriteShifted ==
  ASSUME Followed, WriteByte, line'.st # "lost", CountExtra = 5, line.st = "shifted"
  PROVE  Followed'
<1> DEFINE data == Head(host.todo)
<1>0. CountExtra = 5 /\ CountExtra # 4
  BY ONLY CountExtra = 5
<1>1. /\ host.pc = "write" /\ data \in Bytes /\ ~EndsPacket(data) /\ EndpointSend(data)
      /\ line' = LineAfter(data)
      /\ host'.gets = host.gets \cup EndedBy(data)
      /\ host'.req = host.req /\ host'.tag = host.tag
      /\ host'.gets \subseteq Whose => host' \in HostType
  BY HostWrites
<1>2. /\ Self \notin host.gets /\ line.owed = {}
      /\ ep.pktpos <= 1 \/ ep.pktpos < ep.pktlen + 3
  BY DEF Followed, CountsOneMore
<1>3. ep \in EpType /\ ep.offset <= Len(ep.cmdbuffer) /\ Rest(slave) /\ host.gets \subseteq Whose
  BY TypesIs DEF Followed
<1>4. /\ ~EndsRequest(data) /\ UNCHANGED slave
      /\ ep' \in EpType /\ ep'.offset = ep.offset /\ ep'.cmdbuffer = ep.cmdbuffer
      /\ ep'.unit = ep.unit
      /\ ep'.pktpos <= 1 \/ ep'.pktpos < ep'.pktlen + 3
  <2> HIDE DEF data
  <2> QED BY <1>1, <1>2, <1>3, ShiftedStep
<1>5. host'.gets = host.gets
  BY <1>1, <1>4 DEF EndedBy
<1>6. line'.st = "shifted" /\ line'.owed = {} /\ line' \in LineType
  <2>1. LineAfter(data).st # "lost"
    BY <1>1
  <2>2. LineAfter(data).st = "shifted" /\ LineAfter(data).owed = {}
        /\ LineAfter(data) = [st |-> LineAfter(data).st, owed |-> LineAfter(data).owed]
    BY <1>1, <1>2, <1>4, <2>1 DEF LineAfter
  <2> QED BY <1>1, <2>2 DEF LineType
<1> HIDE DEF data
<1>7. Types'
  BY <1>1, <1>3, <1>4, <1>5, <1>6 DEF Types
<1>8. Executed'
  BY <1>4, <1>5, ExecutedBefore
<1>9. CountsOneMore'
  <2>1. Self' = Self
    BY <1>1 DEF Self
  <2>2. Self' \notin host'.gets
    BY <1>2, <1>5, <2>1
  <2> QED BY ONLY <1>4, <1>6, <2>2 DEF CountsOneMore
<1>10. HostGoesOn'
  BY WritingGoesOn
<1> QED BY <1>7, <1>8, <1>9, <1>10, <1>0 DEF Followed

\* Writing a byte keeps the invariant.
LEMMA WriteInv ==
  ASSUME Followed, WriteByte, line'.st # "lost"
  PROVE  Followed'
<1>1. CountExtra \in {4, 5}
  BY MiAssumption
<1>2. line.st \in {"in step", "shifted", "lost"} /\ line.st # "lost"
  BY TypesIs DEF Followed, WriteByte
<1> QED BY <1>1, <1>2, WriteAlike, WriteLate, WriteOwed, WriteShifted

\* The host reads one byte that the slave has, and is then as these arguments say.
Took(byte, pc, left, inHeader, eom) ==
  host' = [pc |-> pc, req |-> host.req, tag |-> host.tag, todo |-> host.todo,
           reply |-> Append(host.reply, byte), left |-> left, inHeader |-> inHeader,
           eom |-> eom, gets |-> host.gets]

\* The four ways a host can go on from a byte.
HostTakes(byte) ==
  \/ host.left > 1 /\ Took(byte, "read", host.left - 1, host.inHeader, host.eom)
  \/ /\ host.left = 1 /\ host.inHeader
     /\ Took(byte, "read", ReadMore((host.reply[Len(host.reply) - 4] - 4) % CountWrap),
             FALSE, EomBit(byte))
  \/ host.left = 1 /\ ~host.inHeader /\ host.eom = 1 /\ Took(byte, "done", 0, FALSE, 1)
  \/ host.left = 1 /\ ~host.inHeader /\ host.eom = 0 /\ Took(byte, "read", 8, TRUE, 0)

\* What a read does, when the slave has no answer on its way to it.
LEMMA ReadIs ==
  ASSUME Types, InPacket, ReadByte
  PROVE  /\ host.pc = "read" /\ ep' = ep /\ line' = line
         /\ Rest(slave') /\ slave'.recvlen = slave.recvlen + 1
         /\ slave'.recvbuffer = slave.recvbuffer
         /\ slave.recvbuffer[slave.recvlen + 1] \in Bytes
         /\ slave.recvlen \in Nat
         /\ HostTakes(slave.recvbuffer[slave.recvlen + 1])
<1> DEFINE byte == slave.recvbuffer[slave.recvlen + 1]
           reply == Append(host.reply, byte)
           n == Len(reply)
<1>1. /\ Rest(slave)
      /\ host = [pc |-> host.pc, req |-> host.req, tag |-> host.tag, todo |-> host.todo,
                 reply |-> host.reply, left |-> host.left, inHeader |-> host.inHeader,
                 eom |-> host.eom, gets |-> host.gets]
      /\ host.reply \in Seq(Bytes) /\ host.left \in Lefts
      /\ host.inHeader \in BOOLEAN /\ host.eom \in {0, 1}
  BY TypesIs
<1>2. slave \in SlaveType /\ slave.syncflag = FALSE
  <2>1. slave \in SlaveType /\ ~slave.syncflag
    BY ONLY <1>1 DEF Rest
  <2> QED BY ONLY <2>1 DEF SlaveType
<1>3. /\ host.pc = "read" /\ slave.recvlen < BufSize /\ ep' = ep /\ line' = line
      /\ slave' = [slave EXCEPT !.recvlen = @ + 1]
      /\ host' = IF host.left > 1 THEN [host EXCEPT !.reply = reply, !.left = @ - 1]
                 ELSE IF host.inHeader
                 THEN [host EXCEPT !.reply = reply, !.inHeader = FALSE,
                                   !.eom = EomBit(reply[n]),
                                   !.left = ReadMore((reply[n - 5] - 4) % CountWrap)]
                 ELSE IF host.eom = 1
                 THEN [host EXCEPT !.reply = reply, !.pc = "done", !.left = 0]
                 ELSE [host EXCEPT !.reply = reply, !.inHeader = TRUE, !.left = 8]
  <2>1. ReadByte
    OBVIOUS
  <2> QED BY ONLY <1>2, <2>1 DEF ReadByte, SlaveRecvByte, SlaveAfterRecv
<1>4. BufSize \in Nat
  BY MiAssumption
<1>5. /\ slave.recvlen \in Nat /\ slave.recvlen + 1 \in 1..BufSize
      /\ byte \in Bytes
      /\ Rest(slave') /\ slave'.recvlen = slave.recvlen + 1
      /\ slave'.recvbuffer = slave.recvbuffer
  <2>1. slave = [sendlen |-> slave.sendlen, recvlen |-> slave.recvlen, pktpos |-> slave.pktpos,
                 pktlen |-> slave.pktlen, eom |-> slave.eom, syncflag |-> slave.syncflag,
                 recvbuffer |-> slave.recvbuffer]
        /\ slave.recvlen \in 0..BufSize /\ slave.recvbuffer \in [1..BufSize -> Bytes]
    BY ONLY <1>2 DEF SlaveType
  <2>2. slave.recvlen \in Nat /\ slave.recvlen + 1 \in 1..BufSize /\ slave.recvlen + 1 \in 0..BufSize
    <3>1. slave.recvlen < BufSize
      BY <1>3
    <3> QED BY ONLY <1>4, <2>1, <3>1
  <2>3. byte \in Bytes
    BY ONLY <2>1, <2>2
  <2>4. slave' = [sendlen |-> slave.sendlen, recvlen |-> slave.recvlen + 1, pktpos |-> slave.pktpos,
                  pktlen |-> slave.pktlen, eom |-> slave.eom, syncflag |-> slave.syncflag,
                  recvbuffer |-> slave.recvbuffer]
    <3>1. slave' = [slave EXCEPT !.recvlen = @ + 1]
      BY <1>3
    <3> QED BY ONLY <2>1, <3>1
  <2>5. slave' \in SlaveType
    BY ONLY <1>2, <2>2, <2>4 DEF SlaveType
  <2>6. /\ slave'.sendlen = slave.sendlen /\ slave'.pktpos = slave.pktpos
        /\ slave'.pktlen = slave.pktlen /\ slave'.eom = slave.eom
        /\ slave'.syncflag = slave.syncflag
    BY ONLY <2>4
  <2>7. Rest(slave')
    <3>1. slave.sendlen = 0 /\ slave.pktpos = 0 /\ slave.pktlen = 0 /\ slave.eom = 0
      BY ONLY <1>1 DEF Rest
    <3>2. slave'.syncflag = FALSE
      BY ONLY <1>2, <2>6
    <3> QED BY ONLY <2>5, <2>6, <3>1, <3>2 DEF Rest
  <2> QED BY ONLY <2>2, <2>3, <2>4, <2>7
<1>6. /\ n = Len(host.reply) + 1 /\ n \in Nat
      /\ reply[n] = byte
      /\ \A k \in 1..Len(host.reply) : reply[k] = host.reply[k]
  <2>1. byte \in Bytes /\ host.reply \in Seq(Bytes)
    BY ONLY <1>1, <1>5
  <2> HIDE DEF byte
  <2> QED BY ONLY <2>1
<1>7. host.left \in Nat /\ host.left >= 1
  BY <1>1, LeftIs DEF InPacket
<1>8. host.inHeader /\ host.left = 1 => reply[n - 5] = host.reply[Len(host.reply) - 4]
  <2> SUFFICES ASSUME host.inHeader, host.left = 1
               PROVE  reply[n - 5] = host.reply[Len(host.reply) - 4]
    OBVIOUS
  <2>1. Len(host.reply) >= 8 - host.left /\ host.left = 1
    BY DEF InPacket
  <2> HIDE DEF n, reply
  <2> DEFINE total == Len(host.reply)
  <2>2. total \in Nat
    BY <1>1
  <2> HIDE DEF total
  <2>3. total - 4 \in 1..total /\ (n = total + 1 => n - 5 = total - 4)
    <3>1. total >= 8 - host.left
      BY <2>1 DEF total
    <3>2. n \in Nat
      BY <1>6
    <3> QED BY ONLY <2>1, <2>2, <3>1, <3>2
  <2>4. n - 5 = total - 4 /\ reply[total - 4] = host.reply[total - 4]
    BY <1>6, <2>3 DEF total
  <2> QED BY <2>4 DEF total
<1> HIDE DEF n, reply
<1>9. CASE host.left > 1
  <2>1. host' = [host EXCEPT !.reply = reply, !.left = @ - 1]
    BY ONLY <1>3, <1>9
  <2>2. Took(byte, "read", host.left - 1, host.inHeader, host.eom)
    BY ONLY <1>1, <1>3, <2>1 DEF Took, reply
  <2> QED BY ONLY <1>3, <1>5, <1>9, <2>2 DEF HostTakes
<1>10. CASE host.left = 1 /\ host.inHeader
  <2>1. host' = [host EXCEPT !.reply = reply, !.inHeader = FALSE, !.eom = EomBit(byte),
                             !.left = ReadMore((host.reply[Len(host.reply) - 4] - 4) % CountWrap)]
    <3>1. host' = [host EXCEPT !.reply = reply, !.inHeader = FALSE, !.eom = EomBit(reply[n]),
                               !.left = ReadMore((reply[n - 5] - 4) % CountWrap)]
      BY ONLY <1>3, <1>10
    <3>2. reply[n] = byte /\ reply[n - 5] = host.reply[Len(host.reply) - 4]
      BY <1>6, <1>8, <1>10
    <3> HIDE DEF byte
    <3> QED BY ONLY <3>1, <3>2, Zenon
  <2>2. Took(byte, "read", ReadMore((host.reply[Len(host.reply) - 4] - 4) % CountWrap),
             FALSE, EomBit(byte))
    BY ONLY <1>1, <1>3, <2>1 DEF Took, reply
  <2> QED BY ONLY <1>3, <1>5, <1>10, <2>2 DEF HostTakes
<1>11. CASE host.left = 1 /\ ~host.inHeader /\ host.eom = 1
  <2>1. host' = [host EXCEPT !.reply = reply, !.pc = "done", !.left = 0]
    BY ONLY <1>3, <1>11
  <2>2. host.inHeader = FALSE
    BY ONLY <1>1, <1>11
  <2>3. Took(byte, "done", 0, FALSE, 1)
    BY ONLY <1>1, <1>11, <2>1, <2>2 DEF Took, reply
  <2> QED BY ONLY <1>3, <1>5, <1>11, <2>3 DEF HostTakes
<1>12. CASE host.left = 1 /\ ~host.inHeader /\ host.eom = 0
  <2>1. host' = [host EXCEPT !.reply = reply, !.inHeader = TRUE, !.left = 8]
    BY ONLY <1>3, <1>12
  <2>2. Took(byte, "read", 8, TRUE, 0)
    BY ONLY <1>1, <1>3, <1>12, <2>1 DEF Took, reply
  <2> QED BY ONLY <1>3, <1>5, <1>12, <2>2 DEF HostTakes
<1>13. host.left > 1 \/ host.left = 1
  BY ONLY <1>7
<1>14. host.eom \in {0, 1}
  BY <1>1
<1> QED BY ONLY <1>9, <1>10, <1>11, <1>12, <1>13, <1>14

\* What a host is after it has taken a byte.
HostTook(byte, pc, left, inHeader, eom) ==
  /\ host' \in HostType
  /\ host'.pc = pc /\ host'.req = host.req /\ host'.tag = host.tag /\ host'.gets = host.gets
  /\ host'.left = left /\ host'.inHeader = inHeader /\ host'.eom = eom
  /\ Len(host'.reply) = Len(host.reply) + 1
  /\ host'.reply[Len(host.reply) + 1] = byte
  /\ \A k \in 1..Len(host.reply) : host'.reply[k] = host.reply[k]

LEMMA TookIs ==
  ASSUME Types, NEW byte \in Bytes, NEW pc \in {"read", "done"}, NEW left \in Lefts,
         NEW inHeader \in BOOLEAN, NEW eom \in {0, 1}, Took(byte, pc, left, inHeader, eom)
  PROVE  HostTook(byte, pc, left, inHeader, eom)
<1>1. /\ host.req \in Requests /\ host.tag \in Tags /\ host.todo \in Seq(Bytes)
      /\ host.reply \in Seq(Bytes) /\ host.gets \subseteq Whose
  BY TypesIs
<1>2. host' = [pc |-> pc, req |-> host.req, tag |-> host.tag, todo |-> host.todo,
               reply |-> Append(host.reply, byte), left |-> left, inHeader |-> inHeader,
               eom |-> eom, gets |-> host.gets]
  BY DEF Took
<1>3. byte \in Bytes /\ pc \in {"read", "done"} /\ left \in Lefts /\ inHeader \in BOOLEAN
      /\ eom \in {0, 1}
  OBVIOUS
<1>4. /\ Append(host.reply, byte) \in Seq(Bytes)
      /\ Len(Append(host.reply, byte)) = Len(host.reply) + 1
      /\ Append(host.reply, byte)[Len(host.reply) + 1] = byte
      /\ \A k \in 1..Len(host.reply) : Append(host.reply, byte)[k] = host.reply[k]
  BY ONLY <1>1, <1>3
<1>5. host' \in HostType
  BY ONLY <1>1, <1>2, <1>3, <1>4 DEF HostType
<1>6. /\ host'.pc = pc /\ host'.req = host.req /\ host'.tag = host.tag /\ host'.gets = host.gets
      /\ host'.left = left /\ host'.inHeader = inHeader /\ host'.eom = eom
      /\ host'.reply = Append(host.reply, byte)
  BY ONLY <1>2
<1> QED BY ONLY <1>4, <1>5, <1>6 DEF HostTook

\* What the four ways have in common, and what tells them apart.
LEMMA TakesIs ==
  ASSUME Types, InPacket, host.pc = "read", NEW byte \in Bytes, HostTakes(byte)
  PROVE  /\ host' \in HostType
         /\ host'.pc \in {"read", "done"} /\ host'.req = host.req /\ host'.tag = host.tag
         /\ host'.gets = host.gets
         /\ Len(host'.reply) = Len(host.reply) + 1
         /\ host'.reply[Len(host.reply) + 1] = byte
         /\ \A k \in 1..Len(host.reply) : host'.reply[k] = host.reply[k]
         /\ host.left \in Nat /\ host.left >= 1
         /\ host.left > 1 =>
              /\ host'.pc = "read" /\ host'.left = host.left - 1
              /\ host'.inHeader = host.inHeader /\ host'.eom = host.eom
         /\ host.left = 1 /\ host.inHeader =>
              /\ host'.pc = "read" /\ ~host'.inHeader /\ host'.eom = EomBit(byte)
              /\ host'.left = ReadMore((host.reply[Len(host.reply) - 4] - 4) % CountWrap)
              /\ host'.left >= 1
         /\ host.left = 1 /\ ~host.inHeader /\ host.eom = 1 =>
              host'.pc = "done"
         /\ host.left = 1 /\ ~host.inHeader /\ host.eom = 0 =>
              host'.pc = "read" /\ host'.left = 8 /\ host'.inHeader
<1>1. /\ host.reply \in Seq(Bytes) /\ host.left \in Lefts /\ host.left \in Nat /\ host.left >= 1
      /\ host.inHeader \in BOOLEAN /\ host.eom \in {0, 1}
  BY TypesIs, LeftIs DEF InPacket
<1>2. 0 \in Lefts /\ 1 \in Lefts /\ 8 \in Lefts
  <2>1. 0 \in 0..300 /\ 1 \in 0..300 /\ 8 \in 0..300
    OBVIOUS
  <2> QED BY ONLY <2>1, LeftIs
<1>3. CASE host.left > 1 /\ Took(byte, "read", host.left - 1, host.inHeader, host.eom)
  <2>1. host.left - 1 \in Lefts
    BY <1>1, <1>3, LeftIs
  <2>2. /\ host' \in HostType
        /\ host'.pc = "read" /\ host'.req = host.req /\ host'.tag = host.tag
        /\ host'.gets = host.gets
        /\ host'.left = host.left - 1 /\ host'.inHeader = host.inHeader /\ host'.eom = host.eom
        /\ Len(host'.reply) = Len(host.reply) + 1
        /\ host'.reply[Len(host.reply) + 1] = byte
        /\ \A k \in 1..Len(host.reply) : host'.reply[k] = host.reply[k]
    BY <1>1, <1>3, <2>1, TookIs DEF HostTook
  <2>3. ~(host.left = 1)
    BY ONLY <1>1, <1>3
  <2> QED BY ONLY <1>1, <1>3, <2>2, <2>3
<1>4. CASE /\ host.left = 1 /\ host.inHeader
           /\ Took(byte, "read", ReadMore((host.reply[Len(host.reply) - 4] - 4) % CountWrap),
                   FALSE, EomBit(byte))
  <2> DEFINE more == ReadMore((host.reply[Len(host.reply) - 4] - 4) % CountWrap)
  <2>1. more \in Lefts /\ more >= 1
    <3> DEFINE total == Len(host.reply)
               count == host.reply[total - 4]
    <3>1. total \in Nat /\ total >= 8 - host.left
      BY <1>1, <1>4 DEF InPacket
    <3>2. count \in Nat
      <4> HIDE DEF total
      <4>1. total - 4 \in 1..total
        BY ONLY <1>4, <3>1
      <4>2. count \in Bytes
        BY <1>1, <4>1 DEF total
      <4> QED BY <4>2 DEF Bytes
    <3> HIDE DEF count
    <3> DEFINE less == (count - 4) % CountWrap
    <3>3. less \in Lefts /\ less \in Nat
      BY <3>2, LeftIs
    <3> HIDE DEF less
    <3>4. ReadMore(less) \in Lefts /\ ReadMore(less) >= 1
      BY ONLY <1>2, <3>3 DEF ReadMore
    <3> QED BY <3>4 DEF less, count
  <2> HIDE DEF more
  <2>2. EomBit(byte) \in {0, 1}
    BY EomBitIs
  <2>3. Took(byte, "read", more, FALSE, EomBit(byte))
    BY <1>4 DEF more
  <2>4. /\ host' \in HostType
        /\ host'.pc = "read" /\ host'.req = host.req /\ host'.tag = host.tag
        /\ host'.gets = host.gets
        /\ host'.left = more /\ host'.inHeader = FALSE /\ host'.eom = EomBit(byte)
        /\ Len(host'.reply) = Len(host.reply) + 1
        /\ host'.reply[Len(host.reply) + 1] = byte
        /\ \A k \in 1..Len(host.reply) : host'.reply[k] = host.reply[k]
    <3>1. FALSE \in BOOLEAN /\ "read" \in {"read", "done"} /\ byte \in Bytes /\ Types
      OBVIOUS
    <3>2. HostTook(byte, "read", more, FALSE, EomBit(byte))
      BY ONLY <2>1, <2>2, <2>3, <3>1, TookIs
    <3> QED BY ONLY <3>2 DEF HostTook
  <2>5. ~(host.left > 1)
    BY ONLY <1>4
  <2> QED BY ONLY <1>1, <1>4, <2>1, <2>4, <2>5 DEF more
<1>5. CASE host.left = 1 /\ ~host.inHeader /\ host.eom = 1 /\ Took(byte, "done", 0, FALSE, 1)
  <2>1. /\ host' \in HostType
        /\ host'.pc = "done" /\ host'.req = host.req /\ host'.tag = host.tag
        /\ host'.gets = host.gets
        /\ Len(host'.reply) = Len(host.reply) + 1
        /\ host'.reply[Len(host.reply) + 1] = byte
        /\ \A k \in 1..Len(host.reply) : host'.reply[k] = host.reply[k]
    BY <1>2, <1>5, TookIs DEF HostTook
  <2>2. ~(host.left > 1) /\ host.eom # 0
    BY ONLY <1>5
  <2> QED BY ONLY <1>1, <1>5, <2>1, <2>2
<1>6. CASE host.left = 1 /\ ~host.inHeader /\ host.eom = 0 /\ Took(byte, "read", 8, TRUE, 0)
  <2>1. /\ host' \in HostType
        /\ host'.pc = "read" /\ host'.req = host.req /\ host'.tag = host.tag
        /\ host'.gets = host.gets
        /\ host'.left = 8 /\ host'.inHeader = TRUE
        /\ Len(host'.reply) = Len(host.reply) + 1
        /\ host'.reply[Len(host.reply) + 1] = byte
        /\ \A k \in 1..Len(host.reply) : host'.reply[k] = host.reply[k]
    BY <1>2, <1>6, TookIs DEF HostTook
  <2>2. ~(host.left > 1) /\ host.eom # 1
    BY ONLY <1>6
  <2> QED BY ONLY <1>1, <1>6, <2>1, <2>2
<1> QED BY <1>3, <1>4, <1>5, <1>6 DEF HostTakes

\* The answer a host reads: where each of its packets is, what the packet says of
\* itself, and where the next one begins.
AnswerPackets(stream, size, unit, n) ==
  \A i \in 1..n :
    LET p == Payload(size, unit, i)
        b == Base(i, unit + 9)
    IN /\ b \in Nat
       /\ p \in 1..250
       /\ b + p + 9 <= Len(stream)
       /\ i = n => b + p + 9 = Len(stream)
       /\ i # n => b + p + 9 = Base(i + 1, unit + 9) /\ i + 1 \in 1..n
       /\ stream[b + 3] = p + 5
       /\ EomBit(stream[b + 8]) = EomOf(i, n)

\* The packets of an answer to a request.
LEMMA AnswerPacketsAre ==
  ASSUME NEW r \in Requests, r.kind # UNKNOWN, NEW tag \in Tags, NEW crc \in CrcBytes,
         NEW unit \in Units \cup {DefaultUnit}, KeepsEnd(DataSize(r), unit)
  PROVE  LET stream == AnswerTo(r, tag, unit, crc)
         IN /\ stream \in Seq(Bytes)
            /\ Len(stream) = StreamLen(DataSize(r), unit)
            /\ AnswerPackets(stream, DataSize(r) + CrcSize, unit,
                             PacketsOf(DataSize(r) + CrcSize, unit))
<1> DEFINE stream == AnswerTo(r, tag, unit, crc)
           data == AnswerData(DataSize(r), tag)
           size == DataSize(r) + CrcSize
           n == PacketsOf(size, unit)
           total == Len(stream)
<1>1. Framed(stream, data, unit) /\ Len(stream) = StreamLen(DataSize(r), unit)
  BY AnswerFramed
<1>2. Len(data) = DataSize(r) /\ size \in Nat \ {0}
  BY SizeIs, DataIs DEF CrcSize
<1>3. unit \in 1..250 /\ unit \in Nat \ {0} /\ 9 \in Nat
  <2>1. unit \in 1..250
    BY MiAssumption
  <2> QED BY ONLY <2>1
<1>4. total = size + 9 * n
  <2>1. total = DataSize(r) + CrcSize + Overhead * PacketsOf(DataSize(r) + CrcSize, unit)
    BY <1>1 DEF StreamLen
  <2> QED BY <2>1 DEF Overhead
<1> HIDE DEF stream, data
<1>5. /\ stream \in Seq(Bytes)
      /\ \A i \in 1..n : /\ stream[Base(i, unit + 9) + 3] = Payload(size, unit, i) + 5
                         /\ EomBit(stream[Base(i, unit + 9) + 8]) = EomOf(i, n)
  <2>1. size = Len(data) + CrcSize
    BY <1>2
  <2> QED BY <1>1, <2>1 DEF Framed
<1> HIDE DEF size
<1>6. Tiled(size, unit, 9, n)
  BY ONLY <1>2, <1>3, Bases
<1> HIDE DEF n, total
<1>7. ASSUME NEW i \in 1..n
      PROVE  /\ Base(i, unit + 9) \in Nat
             /\ Payload(size, unit, i) \in 1..250
             /\ Base(i, unit + 9) + Payload(size, unit, i) + 9 <= total
             /\ i = n => Base(i, unit + 9) + Payload(size, unit, i) + 9 = total
             /\ i # n => /\ Base(i, unit + 9) + Payload(size, unit, i) + 9 = Base(i + 1, unit + 9)
                         /\ i + 1 \in 1..n
  <2> DEFINE p == Payload(size, unit, i)
             b == Base(i, unit + 9)
  <2>1. /\ n \in Nat \ {0} /\ b \in Nat /\ p \in 1..unit
        /\ i # n => b + p + 9 = Base(i + 1, unit + 9)
        /\ i = n => b + p + 9 = size + 9 * n
        /\ b + p + 9 <= size + 9 * n
    BY <1>6 DEF Tiled
  <2> HIDE DEF p, b
  <2>2. i # n => i + 1 \in 1..n
    <3>1. i \in 1..n /\ n \in Nat
      BY <2>1
    <3> QED BY ONLY <3>1
  <2>3. p \in 1..250
    BY ONLY <1>3, <2>1
  <2> QED BY <1>4, <2>1, <2>2, <2>3 DEF p, b
<1>8. AnswerPackets(stream, size, unit, n)
  BY <1>5, <1>7 DEF AnswerPackets, total
<1> QED BY <1>1, <1>5, <1>8 DEF stream, size, n

\* A byte of an answer takes the host one byte further in it.
LEMMA ReadAnswer ==
  ASSUME Types, InPacket, host.pc = "read", NEW q \in Whose, q.req.kind # UNKNOWN, Served(q),
         slave'.recvlen = slave.recvlen + 1, slave'.recvbuffer = slave.recvbuffer,
         ep' = ep, HostTakes(slave.recvbuffer[slave.recvlen + 1]),
         slave.recvbuffer[slave.recvlen + 1] \in Bytes
  PROVE  Served(q)'
<1> DEFINE byte == slave.recvbuffer[slave.recvlen + 1]
           unit == ep.unit
           size == DataSize(q.req) + CrcSize
           n == PacketsOf(size, unit)
           p(k) == Payload(size, unit, k)
           b(k) == Base(k, unit + 9)
           x == Len(host.reply)
           left == host.left
<1>1. /\ q.req \in Requests /\ q.tag \in Tags /\ ep \in EpType
      /\ host.reply \in Seq(Bytes) /\ host.inHeader \in BOOLEAN /\ host.eom \in {0, 1}
  BY TypesIs, WhoseIs
<1>2. unit \in Units \cup {DefaultUnit}
  BY ONLY <1>1 DEF EpType
<1>3. PICK crc \in CrcBytes : ReadingFrom(AnswerTo(q.req, q.tag, unit, crc))
  BY DEF Served
<1>4. PICK i \in 1..n : ReadingAt(q.req, i)
  BY DEF Served
<1> DEFINE stream == AnswerTo(q.req, q.tag, unit, crc)
           total == Len(stream)
<1>5. /\ stream \in Seq(Bytes)
      /\ total = StreamLen(DataSize(q.req), unit)
      /\ AnswerPackets(stream, size, unit, n)
  BY <1>1, <1>2, AnswerPacketsAre DEF Served
<1> HIDE DEF stream
<1>6. /\ slave.recvlen = x /\ x <= total /\ x \in Nat /\ total \in Nat
      /\ \A k \in 1..total : slave.recvbuffer[k] = stream[k]
      /\ \A k \in 1..x : host.reply[k] = stream[k]
  BY <1>1, <1>3, <1>5 DEF ReadingFrom, stream
<1>7. /\ host.left \in Nat /\ host.left >= 1
      /\ host'.pc \in {"read", "done"}
      /\ Len(host'.reply) = x + 1
      /\ host'.reply[x + 1] = byte
      /\ \A k \in 1..x : host'.reply[k] = host.reply[k]
      /\ left > 1 =>
           /\ host'.pc = "read" /\ host'.left = left - 1
           /\ host'.inHeader = host.inHeader /\ host'.eom = host.eom
      /\ left = 1 /\ host.inHeader =>
           /\ host'.pc = "read" /\ ~host'.inHeader /\ host'.eom = EomBit(byte)
           /\ host'.left = ReadMore((host.reply[x - 4] - 4) % CountWrap)
      /\ left = 1 /\ ~host.inHeader /\ host.eom = 1 => host'.pc = "done"
      /\ left = 1 /\ ~host.inHeader /\ host.eom = 0 =>
           host'.pc = "read" /\ host'.left = 8 /\ host'.inHeader
  BY TakesIs
<1>8. /\ b(i) \in Nat /\ p(i) \in 1..250 /\ b(i) + p(i) + 9 <= total
      /\ i = n => b(i) + p(i) + 9 = total
      /\ i # n => b(i) + p(i) + 9 = b(i + 1) /\ i + 1 \in 1..n
      /\ stream[b(i) + 3] = p(i) + 5
      /\ EomBit(stream[b(i) + 8]) = EomOf(i, n)
  BY <1>4, <1>5 DEF AnswerPackets
<1>9. \/ host.inHeader /\ left \in 1..8 /\ x = b(i) + 8 - left
      \/ ~host.inHeader /\ left \in 1..(p(i) + 1) /\ x = b(i) + p(i) + 9 - left
         /\ host.eom = EomOf(i, n)
  BY <1>4 DEF ReadingAt
<1>10. \A k : ReadingAt(q.req, k)'
         <=> \/ host'.inHeader /\ host'.left \in 1..8 /\ Len(host'.reply) = b(k) + 8 - host'.left
             \/ ~host'.inHeader /\ host'.left \in 1..(p(k) + 1)
                /\ Len(host'.reply) = b(k) + p(k) + 9 - host'.left /\ host'.eom = EomOf(k, n)
  BY <1>7 DEF ReadingAt
<1>11. DataSize(q.req) + CrcSize = size /\ ep'.unit = unit /\ KeepsEnd(DataSize(q.req), ep'.unit)
  BY DEF Served
<1> HIDE DEF byte, unit, size, n, p, b, x, left, total
<1>12. x + 1 \in 1..total /\ byte = stream[x + 1]
  <2>1. x + 1 \in 1..total
    <3>1. x + 1 <= b(i) + p(i) + 9
      BY ONLY <1>8, <1>9
    <3>2. b(i) + p(i) + 9 <= total /\ x \in Nat /\ total \in Nat /\ b(i) + p(i) + 9 \in Nat
      BY ONLY <1>6, <1>8
    <3> QED BY ONLY <3>1, <3>2
  <2> QED BY <1>6, <2>1 DEF byte
<1>13. (\E c \in CrcBytes : ReadingFrom(AnswerTo(q.req, q.tag, ep.unit, c)))'
  <2>1. slave'.recvlen = Len(host'.reply) /\ Len(host'.reply) <= Len(stream)
    BY <1>6, <1>7, <1>12 DEF total
  <2>2. \A k \in 1..Len(stream) : slave'.recvbuffer[k] = stream[k]
    BY <1>6 DEF total
  <2>3. ASSUME NEW k \in 1..Len(host'.reply)
        PROVE  host'.reply[k] = stream[k]
    <3>1. k \in 1..x \/ k = x + 1
      <4>1. k \in 1..(x + 1) /\ x \in Nat
        BY <1>6, <1>7
      <4> QED BY ONLY <4>1
    <3> QED BY <1>6, <1>7, <1>12, <3>1
  <2>4. AnswerTo(q.req, q.tag, ep'.unit, crc) = stream
    BY <1>7 DEF stream, unit
  <2> QED BY <2>1, <2>2, <2>3, <2>4 DEF ReadingFrom
<1> SUFFICES /\ host'.pc = "read" => \E k \in 1..n : ReadingAt(q.req, k)'
             /\ host'.pc = "done" => Len(host'.reply) = StreamLen(DataSize(q.req), unit)
  BY <1>11, <1>13 DEF Served, n
<1>14. CASE left > 1
  <2>1. ReadingAt(q.req, i)'
    <3>1. \/ host'.inHeader /\ host'.left \in 1..8 /\ x + 1 = b(i) + 8 - host'.left
          \/ ~host'.inHeader /\ host'.left \in 1..(p(i) + 1) /\ x + 1 = b(i) + p(i) + 9 - host'.left
             /\ host'.eom = EomOf(i, n)
      <4>1. host'.left = left - 1 /\ host'.inHeader = host.inHeader /\ host'.eom = host.eom
        BY ONLY <1>7, <1>14
      <4>2. CASE host.inHeader
        <5>1. left \in 1..8 /\ x = b(i) + 8 - left
          BY ONLY <1>9, <4>2
        <5>2. left - 1 \in 1..8 /\ x + 1 = b(i) + 8 - (left - 1)
          BY ONLY <1>8, <1>14, <5>1
        <5>3. host'.inHeader
          BY ONLY <4>1, <4>2, Zenon
        <5> QED BY ONLY <4>1, <5>2, <5>3
      <4>3. CASE ~host.inHeader
        <5>1. left \in 1..(p(i) + 1) /\ x = b(i) + p(i) + 9 - left /\ host.eom = EomOf(i, n)
          BY ONLY <1>9, <4>3
        <5>2. left - 1 \in 1..(p(i) + 1) /\ x + 1 = b(i) + p(i) + 9 - (left - 1)
          BY ONLY <1>8, <1>14, <5>1
        <5>3. ~host'.inHeader
          BY ONLY <4>1, <4>3, Zenon
        <5> QED BY ONLY <4>1, <5>1, <5>2, <5>3
      <4> QED BY ONLY <4>2, <4>3
    <3> QED BY ONLY <1>7, <1>10, <3>1
  <2> QED BY ONLY <1>4, <1>7, <1>14, <2>1
<1>15. CASE left = 1 /\ host.inHeader
  <2>1. x = b(i) + 7
    BY ONLY <1>8, <1>9, <1>15
  <2>2. host'.eom = EomOf(i, n)
    <3>1. x + 1 = b(i) + 8
      BY ONLY <1>8, <2>1
    <3> QED BY ONLY <1>7, <1>8, <1>12, <1>15, <3>1
  <2>3. host.reply[x - 4] = p(i) + 5
    <3>1. x - 4 = b(i) + 3 /\ x - 4 \in 1..x
      BY ONLY <1>8, <2>1
    <3> QED BY ONLY <1>6, <1>8, <3>1
  <2>4. ReadMore(((p(i) + 5) - 4) % CountWrap) = p(i) + 1
    <3>1. p(i) + 5 \in 5..256 /\ (p(i) + 5) - 4 = p(i) + 1 /\ p(i) + 1 # 0
      BY ONLY <1>8
    <3>2. ((p(i) + 5) - 4) % CountWrap = p(i) + 1
      BY ONLY <3>1, LeftIs
    <3> QED BY ONLY <3>1, <3>2 DEF ReadMore
  <2>5. /\ ~host'.inHeader /\ host'.left = p(i) + 1
        /\ host'.left \in 1..(p(i) + 1) /\ x + 1 = b(i) + p(i) + 9 - host'.left
    <3>1. host'.left = p(i) + 1 /\ ~host'.inHeader
      BY ONLY <1>7, <1>15, <2>3, <2>4
    <3> QED BY ONLY <1>8, <2>1, <3>1
  <2>6. ReadingAt(q.req, i)'
    BY ONLY <1>7, <1>10, <2>2, <2>5
  <2> QED BY ONLY <1>4, <1>7, <1>15, <2>6
<1>16. CASE left = 1 /\ ~host.inHeader
  <2>1. x = b(i) + p(i) + 8 /\ host.eom = EomOf(i, n)
    BY ONLY <1>8, <1>9, <1>16
  <2>2. CASE i = n
    <3>1. host.eom = 1 /\ x + 1 = total
      BY ONLY <1>6, <1>8, <2>1, <2>2 DEF EomOf
    <3> QED BY ONLY <1>5, <1>7, <1>16, <3>1
  <2>3. CASE i # n
    <3>1. host.eom = 0 /\ x + 1 = b(i + 1) + 8 - 8 /\ i + 1 \in 1..n
      BY ONLY <1>6, <1>8, <2>1, <2>3 DEF EomOf
    <3>2. host'.pc = "read" /\ host'.left = 8 /\ host'.inHeader
      BY ONLY <1>7, <1>16, <3>1
    <3>3. ReadingAt(q.req, i + 1)'
      BY ONLY <1>7, <1>10, <3>1, <3>2
    <3> QED BY ONLY <3>1, <3>2, <3>3
  <2> QED BY ONLY <2>2, <2>3
<1>17. left > 1 \/ left = 1
  BY ONLY <1>7 DEF left
<1> QED BY ONLY <1>14, <1>15, <1>16, <1>17


\* Reading a byte keeps the invariant.
LEMMA ReadInv ==
  ASSUME Followed, ReadByte
  PROVE  Followed'
<1>0. Types /\ host.pc = "read" /\ InPacket
  BY DEF ReadByte, Followed, HostGoesOn
<1> DEFINE byte == slave.recvbuffer[slave.recvlen + 1]
<1>1. /\ ep' = ep /\ line' = line /\ Rest(slave') /\ slave'.recvlen = slave.recvlen + 1
      /\ slave'.recvbuffer = slave.recvbuffer /\ byte \in Bytes /\ HostTakes(byte)
  BY <1>0, ReadIs
<1>2. /\ host' \in HostType
      /\ host'.pc \in {"read", "done"} /\ host'.req = host.req /\ host'.tag = host.tag
      /\ host'.gets = host.gets
      /\ Len(host'.reply) = Len(host.reply) + 1
      /\ host.left \in Nat /\ host.left >= 1
      /\ host.left > 1 =>
           host'.left = host.left - 1 /\ host'.inHeader = host.inHeader
      /\ host.left = 1 /\ host.inHeader => ~host'.inHeader /\ host'.left >= 1
      /\ host.left = 1 /\ ~host.inHeader /\ host.eom = 1 => host'.pc = "done"
      /\ host.left = 1 /\ ~host.inHeader /\ host.eom = 0 => host'.left = 8 /\ host'.inHeader
  <2>1. byte \in Bytes /\ HostTakes(byte)
    BY <1>1
  <2> HIDE DEF byte
  <2> QED BY <1>0, <2>1, TakesIs
<1>3. Types'
  <2>1. ep \in EpType /\ ep.offset <= Len(ep.cmdbuffer) /\ line \in LineType
    BY <1>0, TypesIs
  <2> QED BY <1>1, <1>2, <2>1 DEF Types
<1>4. Executed'
  <2> SUFFICES ASSUME NEW q \in host.gets
               PROVE  /\ SubSeq(ep'.cmdbuffer, 1, q.req.len) = Message(q.req, q.tag)
                      /\ q.req.kind # UNKNOWN => Served(q)'
    BY <1>2 DEF Executed
  <2>1. q \in Whose
    BY <1>0, TypesIs
  <2>2. /\ SubSeq(ep.cmdbuffer, 1, q.req.len) = Message(q.req, q.tag)
        /\ q.req.kind # UNKNOWN => Served(q)
    BY DEF Followed, Executed
  <2> QED BY <1>0, <1>1, <2>1, <2>2, ReadAnswer
<1>5. ASSUME host'.pc = "read"
      PROVE  InPacket'
  <2> DEFINE x == Len(host.reply)
             left == host.left
  <2>1. x \in Nat /\ host.eom \in {0, 1} /\ host.inHeader \in BOOLEAN
    <3>1. host.reply \in Seq(Bytes) /\ host.eom \in {0, 1} /\ host.inHeader \in BOOLEAN
      BY <1>0, TypesIs
    <3> QED BY ONLY <3>1
  <2>2. host.inHeader => left <= 8 /\ x >= 8 - left
    BY <1>0 DEF InPacket
  <2> HIDE DEF x, left
  <2>3. Len(host'.reply) = x + 1 /\ left \in Nat /\ left >= 1
    BY <1>2 DEF x, left
  <2>4. CASE left > 1
    <3>1. host'.left = left - 1 /\ host'.inHeader = host.inHeader
      BY <1>2, <2>4 DEF left
    <3>2. left - 1 >= 1 /\ (host.inHeader => left - 1 <= 8 /\ x + 1 >= 8 - (left - 1))
      BY ONLY <2>1, <2>2, <2>3, <2>4
    <3>3. host'.inHeader => host.inHeader
      BY ONLY <3>1, Zenon
    <3> QED BY ONLY <2>3, <3>1, <3>2, <3>3 DEF InPacket
  <2>5. CASE left = 1 /\ host.inHeader
    BY ONLY <1>2, <2>5 DEF InPacket, left
  <2>6. CASE left = 1 /\ ~host.inHeader
    <3>1. CASE host.eom = 1
      BY ONLY <1>2, <1>5, <2>6, <3>1 DEF left
    <3>2. CASE host.eom = 0
      <4>1. host'.left = 8
        BY ONLY <1>2, <2>6, <3>2 DEF left
      <4>2. Len(host'.reply) \in Nat
        BY ONLY <2>1, <2>3
      <4> QED BY ONLY <4>1, <4>2 DEF InPacket
    <3> QED BY ONLY <2>1, <3>1, <3>2
  <2>7. left > 1 \/ left = 1
    BY ONLY <2>3
  <2> QED BY ONLY <2>4, <2>5, <2>6, <2>7
<1>6. HostGoesOn'
  BY <1>2, <1>5 DEF HostGoesOn
<1>7. Self' = Self
  BY <1>2 DEF Self
<1> HIDE DEF byte
<1>8. EndpointRests => EndpointRests'
  BY ONLY <1>1 DEF EndpointRests
<1>9. ASSUME CountExtra = 4
      PROVE  CountsAlike'
  <2>1. line = InStep /\ EndpointRests /\ host.gets = {Self}
    BY <1>0, <1>9 DEF Followed, CountsAlike
  <2>2. line' = InStep /\ EndpointRests' /\ host'.gets = {Self'}
    BY <1>1, <1>2, <1>7, <1>8, <2>1
  <2> QED BY ONLY <1>2, <2>2 DEF CountsAlike, InStep
<1>10. ASSUME CountExtra = 5
       PROVE  CountsOneMore'
  <2>1. /\ Self \notin host.gets
        /\ line.st = "in step" => host.gets = {}
        /\ line.st = "in step" /\ line.owed = {} => EndpointRests
        /\ line.st = "in step" /\ line.owed # {} =>
             \E q \in Whose : /\ line.owed = {q} /\ ByteShort(ep, Message(q.req, q.tag))
                              /\ q.tag = host.tag
        /\ line.st = "shifted" =>
             line.owed = {} /\ (ep.pktpos <= 1 \/ ep.pktpos < ep.pktlen + 3)
    BY <1>0, <1>10 DEF Followed, CountsOneMore
  <2>2. /\ Self' \notin host'.gets
        /\ line'.st = "in step" => host'.gets = {}
        /\ line'.st = "in step" /\ line'.owed = {} => EndpointRests'
        /\ line'.st = "in step" /\ line'.owed # {} =>
             \E q \in Whose : /\ line'.owed = {q} /\ ByteShort(ep', Message(q.req, q.tag))
                              /\ q.tag = host'.tag
        /\ line'.st = "shifted" =>
             line'.owed = {} /\ (ep'.pktpos <= 1 \/ ep'.pktpos < ep'.pktlen + 3)
    BY <1>1, <1>2, <1>7, <1>8, <2>1
  <2> QED BY ONLY <1>2, <2>2 DEF CountsOneMore
<1> QED BY <1>3, <1>4, <1>6, <1>9, <1>10 DEF Followed

\* So does a step that changes nothing.
LEMMA SameInv ==
  ASSUME Followed, UNCHANGED vars
  PROVE  Followed'
<1>1. ep' = ep /\ slave' = slave /\ host' = host /\ line' = line
  BY DEF vars
<1>2. Types' /\ HostGoesOn'
  BY <1>1 DEF Followed, Types, HostGoesOn, InPacket
<1>3. Executed'
  BY <1>1 DEF Followed, Executed, Served, ReadingFrom, ReadingAt
<1>4. Self' = Self /\ Said' = Said /\ EndpointRests' = EndpointRests
  BY <1>1 DEF Self, Said, EndpointRests
<1>5. CountExtra = 4 => CountsAlike'
  BY <1>1, <1>4 DEF Followed, CountsAlike, InStep
<1>6. CountExtra = 5 => CountsOneMore'
  BY <1>1, <1>4 DEF Followed, CountsOneMore
<1> QED BY <1>2, <1>3, <1>5, <1>6 DEF Followed

\* The invariant is inductive: once the line is lost nothing happens but the restart.
LEMMA NextInv ==
  ASSUME Inv, [Next]_vars
  PROVE  Inv'
<1> SUFFICES ASSUME line'.st # "lost", ~Reboot
             PROVE  Followed'
  BY RebootInv DEF Inv
<1>1. CASE \E r \in Requests : Start(r)
  <2>1. PICK r \in Requests : Start(r)
    BY <1>1
  <2>2. Followed
    BY <2>1 DEF Start, Inv
  <2> QED BY <2>1, <2>2, StartInv
<1>2. CASE WriteByte
  <2>1. Followed
    BY <1>2 DEF WriteByte, Inv
  <2> QED BY <1>2, <2>1, WriteInv
<1>3. CASE ReadByte
  <2>1. Followed
    BY <1>3 DEF ReadByte, Inv
  <2> QED BY <1>3, <2>1, ReadInv
<1>4. CASE Abort
  <2>1. Followed
    BY <1>4 DEF Abort, Inv
  <2> QED BY <1>4, <2>1, AbortInv
<1>5. CASE UNCHANGED vars
  <2>1. Followed
    BY <1>5 DEF vars, Inv
  <2> QED BY <1>5, <2>1, SameInv
<1> QED BY <1>1, <1>2, <1>3, <1>4, <1>5 DEF Next, HostStep

\* The inductive invariant holds of every behaviour.
THEOREM InvHolds == Spec => []Inv
<1>1. Init => Inv
  BY InitInv
<1>2. Inv /\ [Next]_vars => Inv'
  BY NextInv
<1> QED BY <1>1, <1>2, PTL DEF Spec

-----------------------------------------------------------------------------
(* The transport is correct                                                *)

\* The endpoint's and the slave's counters and buffers, and the host's, keep
\* their types as long as the endpoint is followed: no packet outgrows
\* sendrecvbuf's count, no answer the slave's recvbuffer, and the eom and sync
\* flags stay flags.
THEOREM TypeCorrect == Spec => [](line.st # "lost" => TypeOK)
<1>1. Inv => (line.st # "lost" => TypeOK)
  <2> SUFFICES ASSUME Types PROVE TypeOK
    BY DEF Inv, Followed
  <2>1. /\ ep \in EpType /\ ep.offset <= Len(ep.cmdbuffer)
        /\ slave \in SlaveType /\ host \in HostType /\ line \in LineType
    BY DEF Types, Rest
  <2>2. ep \in [pktlen : 0..256, pktpos : 0..259, eom : {0, 1}, packet : Seq(Bytes),
                cmdbuffer : Seq(Bytes), offset : 0..Len(ep.cmdbuffer),
                unit : Units \cup {DefaultUnit}]
    <3>1. ep = [pktlen |-> ep.pktlen, pktpos |-> ep.pktpos, eom |-> ep.eom, packet |-> ep.packet,
                cmdbuffer |-> ep.cmdbuffer, offset |-> ep.offset, unit |-> ep.unit]
          /\ ep.pktlen \in 0..256 /\ ep.pktpos \in 0..259 /\ ep.eom \in {0, 1}
          /\ ep.packet \in Seq(Bytes) /\ ep.cmdbuffer \in Seq(Bytes) /\ ep.offset \in Nat
          /\ ep.unit \in Units \cup {DefaultUnit}
      BY ONLY <2>1 DEF EpType
    <3>2. ep.offset \in 0..Len(ep.cmdbuffer)
      <4>1. Len(ep.cmdbuffer) \in Nat
        BY ONLY <3>1
      <4> QED BY ONLY <2>1, <3>1, <4>1
    <3> QED BY ONLY <3>1, <3>2
  <2> QED BY ONLY <2>1, <2>2 DEF TypeOK, SlaveType, HostType, Lefts, LineType
<1> QED BY <1>1, InvHolds, PTL

\* What is executed is what was asked.
LEMMA InvRuns == Inv => RunsAsMade
<1> SUFFICES ASSUME Followed
             PROVE  /\ \A q \in host.gets :
                         SubSeq(ep.cmdbuffer, 1, q.req.len) = Message(q.req, q.tag)
                    /\ CountExtra = 4 /\ host.pc \in {"read", "done"} => host.gets = {Self}
                    /\ CountExtra = 5 => Self \notin host.gets
  BY DEF Inv, RunsAsMade
<1> QED BY DEF Followed, Executed, CountsAlike, CountsOneMore

\* What the endpoint (nvme_mi_i2c_send) runs is a request as a host made it,
\* whatever its length and however many packets xmit_pkt cut it into: the host's
\* own where the two sides count alike; with the tool's count never its own but
\* the one that was a byte short when the host began to write.
THEOREM RequestCorrect == Spec => []RunsAsMade
BY InvHolds, InvRuns, PTL

\* Between two steps of the bus the slave never holds part of an answer: every
\* answer nvme_mi_send_resp posts ends where the slave takes it to end, unless
\* its checksum overwrites the last control byte (line is lost then).
THEOREM SlaveCorrect == Spec => []SlaveHoldsWholeAnswer
<1>1. Inv => SlaveHoldsWholeAnswer
  BY DEF Inv, Followed, Types, Rest, SlaveHoldsWholeAnswer
<1> QED BY <1>1, InvHolds, PTL

\* Byte k of size bytes is byte r + 1 of packet q + 1.
PlaceOf(k, size, unit, q, r) ==
  /\ q + 1 \in 1..PacketsOf(size, unit)
  /\ r + 1 \in 1..Payload(size, unit, q + 1)
  /\ q * unit + (r + 1) = k

\* ... which packet and which byte of it, by division.
LEMMA ByteOfData ==
  ASSUME NEW size \in Nat \ {0}, NEW unit \in Nat \ {0}, NEW k \in 1..size
  PROVE  PlaceOf(k, size, unit, (k - 1) \div unit, (k - 1) % unit)
<1> DEFINE q == (k - 1) \div unit
           r == (k - 1) % unit
           n == PacketsOf(size, unit)
           a == q * unit
           d == n * unit
<1>1. n \in Nat \ {0} /\ size <= d
  BY Packets
<1>2. q \in Nat /\ r \in 0..(unit - 1) /\ a + r = k - 1
  <2> DEFINE j == k - 1
  <2>1. j \in Nat /\ unit \in Nat \ {0}
    OBVIOUS
  <2> HIDE DEF j
  <2>2. j \div unit \in Nat /\ j % unit \in 0..(unit - 1) /\ (j \div unit) * unit + (j % unit) = j
    BY ONLY <2>1
  <2> QED BY <2>2 DEF j
<1> HIDE DEF q, r
<1>3. q < n
  <2> SUFFICES ASSUME q >= n PROVE FALSE
    <3> HIDE DEF n
    <3> QED BY <1>1, <1>2
  <2> HIDE DEF n
  <2>1. d <= a /\ d \in Nat /\ a \in Nat
    BY <1>1, <1>2, Rows
  <2> HIDE DEF a, d
  <2> QED BY <1>1, <1>2, <2>1
<1>4. q + 1 \in 1..n /\ (q + 1) - 1 = q
  <2> HIDE DEF n
  <2> QED BY <1>1, <1>2, <1>3
<1>5. Payload(size, unit, q + 1) = IF q + 1 = n THEN size - a ELSE unit
  BY <1>4 DEF Payload
<1>6. a \in Nat
  BY <1>2, Rows
<1> HIDE DEF a, n, d
<1>7. r + 1 \in 1..Payload(size, unit, q + 1) /\ a + (r + 1) = k
  BY <1>2, <1>5, <1>6
<1>8. PlaceOf(k, size, unit, q, r)
  BY <1>4, <1>7 DEF PlaceOf, a, n
<1> QED BY <1>8 DEF q, r

\* What has been read is the beginning of the answer, so its data are in their places.
LEMMA ServedReads ==
  ASSUME Types, NEW a \in Whose, a.req.kind # UNKNOWN, Served(a)
  PROVE  /\ \A k \in 1..DataSize(a.req) :
              ReplyIndex(k) <= Len(host.reply)
                => host.reply[ReplyIndex(k)] = Pattern(a.tag, k)
         /\ host.pc = "done" => Len(host.reply) = StreamLen(DataSize(a.req), ep.unit)
<1> DEFINE unit == ep.unit
           len == DataSize(a.req)
           data == AnswerData(len, a.tag)
           size == len + CrcSize
           n == PacketsOf(size, unit)
           total == Len(host.reply)
<1>2. /\ a.req \in Requests /\ a.tag \in Tags /\ ep \in EpType /\ host.reply \in Seq(Bytes)
      /\ total \in Nat
  <2>1. a.req \in Requests /\ a.tag \in Tags
    BY WhoseIs
  <2>2. ep \in EpType /\ host.reply \in Seq(Bytes)
    BY TypesIs
  <2>3. Len(host.reply) \in Nat
    BY ONLY <2>2
  <2> QED BY ONLY <2>1, <2>2, <2>3
<1>3. unit \in Units \cup {DefaultUnit} /\ unit \in Nat \ {0}
  <2>1. unit \in Units \cup {DefaultUnit}
    BY ONLY <1>2 DEF EpType
  <2>2. unit \in 1..250
    BY <2>1, MiAssumption
  <2> QED BY ONLY <2>1, <2>2
<1>4. PICK crc \in CrcBytes : ReadingFrom(AnswerTo(a.req, a.tag, unit, crc))
  BY DEF Served
<1> DEFINE stream == AnswerTo(a.req, a.tag, unit, crc)
<1>5. Framed(stream, data, unit)
  BY <1>2, <1>3, AnswerFramed DEF Served
<1>6. len \in AnswerSizes /\ len \in Nat
  BY <1>2, SizeIs
<1>7. Len(data) = len /\ \A k \in 1..len : data[k] = Pattern(a.tag, k)
  BY <1>2, <1>6, DataIs
<1>8. \A k \in 1..total : host.reply[k] = stream[k]
  BY <1>4 DEF ReadingFrom
<1> HIDE DEF data, stream
<1>9. \A i \in 1..n : \A j \in 1..Payload(size, unit, i) :
        (i - 1) * unit + j <= len
          => stream[Base(i, unit + 9) + 8 + j] = data[(i - 1) * unit + j]
  BY <1>5, <1>7 DEF Framed
<1>10. size \in Nat \ {0} /\ len <= size
  BY <1>6 DEF CrcSize
<1> HIDE DEF size, n, unit, len
<1>11. ASSUME NEW k \in 1..len, ReplyIndex(k) <= total
       PROVE  host.reply[ReplyIndex(k)] = Pattern(a.tag, k)
  <2> DEFINE q == (k - 1) \div unit
             r == (k - 1) % unit
             b == Base(q + 1, unit + 9)
  <2>1. k \in 1..size
    BY ONLY <1>6, <1>10, <1>11
  <2>2. q + 1 \in 1..n /\ r + 1 \in 1..Payload(size, unit, q + 1) /\ q * unit + (r + 1) = k
    <3>1. PlaceOf(k, size, unit, (k - 1) \div unit, (k - 1) % unit)
      BY ONLY <1>3, <1>10, <2>1, ByteOfData
    <3>2. PlaceOf(k, size, unit, q, r)
      BY <3>1
    <3> HIDE DEF q, r
    <3> QED BY ONLY <3>2 DEF PlaceOf, n
  <2>3. ReplyIndex(k) = q * (unit + 9) + 9 + r
    BY DEF ReplyIndex, Overhead, unit
  <2>4. q \in Nat /\ r \in Nat
    <3> DEFINE j == k - 1
    <3>1. j \in Nat
      BY <1>6
    <3> HIDE DEF j
    <3>2. j \div unit \in Nat /\ j % unit \in Nat
      BY ONLY <1>3, <3>1
    <3> QED BY <3>2 DEF j
  <2> HIDE DEF q, r
  <2>5. (q + 1) - 1 = q
    BY <2>4
  <2>6. b = q * (unit + 9) /\ b \in Nat
    <3>1. q * (unit + 9) \in Nat
      BY <1>3, <2>4, Rows
    <3> QED BY <2>5, <3>1 DEF Base
  <2> HIDE DEF b
  <2>7. ReplyIndex(k) = b + 8 + (r + 1) /\ ReplyIndex(k) \in 1..total
    BY ONLY <1>2, <1>11, <2>3, <2>4, <2>6
  <2>8. stream[b + 8 + (r + 1)] = data[k]
    <3>1. ((q + 1) - 1) * unit + (r + 1) = k /\ k <= len
      BY <1>6, <2>2, <2>5
    <3> QED BY <1>9, <2>2, <3>1 DEF b
  <2> QED BY <1>7, <1>8, <2>7, <2>8
<1>12. host.pc = "done" => total = StreamLen(len, unit)
  BY DEF Served, unit, len
<1> QED BY <1>11, <1>12 DEF unit, len

\* What is executed is read.
LEMMA InvReadsAnswer == Inv => ReadsAnswer
<1> SUFFICES ASSUME Followed, NEW a \in host.gets, a.req.kind # UNKNOWN
             PROVE  /\ \A k \in 1..DataSize(a.req) :
                         ReplyIndex(k) <= Len(host.reply)
                           => host.reply[ReplyIndex(k)] = Pattern(a.tag, k)
                    /\ host.pc = "done" => Len(host.reply) = StreamLen(DataSize(a.req), ep.unit)
  BY DEF Inv, ReadsAnswer
<1>1. Types /\ Served(a)
  BY DEF Followed, Executed
<1>2. a \in Whose
  BY <1>1, TypesIs
<1> QED BY <1>1, <1>2, ServedReads

\* A host reads the answer to the request that was executed while it wrote: what
\* it has read, wherever it stops, is the data of that answer, byte for byte and
\* in order, and when it stops of itself it has all of it.  It is so for every
\* length of request and answer, every sequence of unit sizes the hosts before it
\* configured, and whoever of them was killed while he read.
THEOREM ReplyCorrect == Spec => []ReadsAnswer
BY InvHolds, InvReadsAnswer, PTL

-----------------------------------------------------------------------------
(* The bus implements the service of MiService                             *)

\* What a byte is to the service: no request, or one that waits, or the execution
\* of the host's own or, with the tool's count, of the one that waited.
WriteTells(data) ==
  \/ /\ EndedBy(data) = {} /\ ep'.unit = ep.unit
     /\ \/ line'.owed = line.owed
        \/ /\ CountExtra = 5 /\ Len(host.todo) = 1 /\ host.gets = {}
           /\ line.owed = {} /\ line'.owed = {Self}
  \/ /\ host.gets = {} /\ line'.owed = {}
     /\ \E q \in Whose : /\ EndedBy(data) = {q} /\ ep'.unit = UnitSet(ep.unit, q.req)
                         /\ IF CountExtra = 4 THEN q = Self ELSE line.owed = {q}

LEMMA AlikeTells ==
  ASSUME Followed, WriteByte, line'.st # "lost", CountExtra = 4
  PROVE  WriteTells(Head(host.todo))
<1> DEFINE msg == Message(host.req, host.tag)
           data == Head(host.todo)
<1>1. host.pc = "write" /\ EndpointSend(data) /\ line' = LineAfter(data)
  BY HostWrites
<1>2. line = InStep /\ host.gets = {} /\ Sent(ep, host.todo, msg)
  BY <1>1 DEF Followed, CountsAlike, Said
<1>3. ep \in EpType /\ host.req \in Requests /\ host.tag \in Tags
  BY TypesIs DEF Followed
<1>4. msg \in Seq(Bytes) /\ Len(msg) > 0
  BY <1>3, SaidIs
<1>5. \/ Len(host.todo) > 1 /\ ~EndsRequest(data) /\ ep'.unit = ep.unit
      \/ Len(host.todo) = 1 /\ EndsRequest(data) /\ RunCommand(msg)
  <2> HIDE DEF msg
  <2> QED BY <1>1, <1>2, <1>3, <1>4, AlikeStep
<1>6. line.st = "in step" /\ line.owed = {}
  BY <1>2 DEF InStep
<1>7. CASE Len(host.todo) > 1 /\ ~EndsRequest(data) /\ ep'.unit = ep.unit
  <2>1. Len(host.todo) # 1
    BY WritingGoesOn, <1>7
  <2>2. EndedBy(data) = {}
    BY ONLY <1>7 DEF EndedBy
  <2>3. LineAfter(data).owed = line.owed
    BY ONLY <1>7, <2>1 DEF LineAfter
  <2> QED BY <1>1, <1>7, <2>2, <2>3 DEF WriteTells
<1>8. CASE Len(host.todo) = 1 /\ EndsRequest(data) /\ RunCommand(msg)
  <2>1. PICK q \in Whose : q = Self
    BY <1>3 DEF Self, Whose
  <2>2. EndedBy(data) = {q}
    BY ONLY <1>6, <1>8, <2>1 DEF EndedBy
  <2>3. Says(msg, q.req, q.tag) /\ EndedBy(Head(host.todo)) = {q}
    BY <1>3, <2>1, <2>2, SaysIs DEF Self
  <2>4. ep'.unit = UnitSet(ep.unit, q.req)
    <3> HIDE DEF msg
    <3> QED BY <1>8, <2>3, ExecutedNow
  <2>5. LineAfter(data).owed = {}
    BY ONLY <1>8 DEF LineAfter
  <2> QED BY <1>1, <1>2, <1>6, <2>1, <2>2, <2>4, <2>5 DEF WriteTells
<1> QED BY <1>5, <1>7, <1>8

LEMMA LateTells ==
  ASSUME Followed, WriteByte, line'.st # "lost", CountExtra = 5,
         line.st = "in step", line.owed = {}
  PROVE  WriteTells(Head(host.todo))
<1> DEFINE msg == Message(host.req, host.tag)
           data == Head(host.todo)
<1>1. host.pc = "write" /\ EndpointSend(data) /\ line' = LineAfter(data)
  BY HostWrites
<1>2. host.gets = {} /\ LateSent(ep, host.todo, msg)
  BY <1>1 DEF Followed, CountsOneMore, Said
<1>3. ep \in EpType /\ ep.offset <= Len(ep.cmdbuffer) /\ host.req \in Requests /\ host.tag \in Tags
  BY TypesIs DEF Followed
<1>4. msg \in Seq(Bytes) /\ Len(msg) > 0
  BY <1>3, SaidIs
<1>5. ~EndsRequest(data) /\ ep'.unit = ep.unit
  <2> HIDE DEF msg
  <2> QED BY <1>1, <1>2, <1>3, <1>4, LateStep
<1>6. EndedBy(data) = {}
  BY ONLY <1>5 DEF EndedBy
<1>7. LineAfter(data).owed = line.owed \/ (Len(host.todo) = 1 /\ LineAfter(data).owed = {Self})
  BY ONLY <1>5 DEF LineAfter
<1> QED BY <1>1, <1>2, <1>5, <1>6, <1>7 DEF WriteTells

LEMMA OwedTells ==
  ASSUME Followed, WriteByte, line'.st # "lost", CountExtra = 5,
         line.st = "in step", line.owed # {}
  PROVE  WriteTells(Head(host.todo))
<1> DEFINE data == Head(host.todo)
<1>1. host.pc = "write" /\ data \in Bytes /\ EndpointSend(data) /\ line' = LineAfter(data)
  BY HostWrites
<1>2. host.gets = {}
  BY DEF Followed, CountsOneMore
<1>3. PICK q \in Whose : line.owed = {q} /\ ByteShort(ep, Message(q.req, q.tag))
  BY <1>1 DEF Followed, CountsOneMore
<1> DEFINE msg == Message(q.req, q.tag)
           cmd == msg \o <<0>>
<1>4. q.req \in Requests /\ q.tag \in Tags
  BY WhoseIs
<1>5. ep \in EpType
  BY TypesIs DEF Followed
<1>6. msg \in Seq(Bytes) /\ Len(msg) > 0
  BY <1>4, SaidIs
<1>7. EndsRequest(data) /\ RunCommand(cmd)
  <2> HIDE DEF msg, data
  <2> QED BY <1>1, <1>3, <1>5, <1>6, LateEnds DEF msg
<1>8. EndedBy(data) = {q}
  BY <1>3, <1>7 DEF EndedBy
<1>9. Says(cmd, q.req, q.tag)
  BY <1>4, SaysIs
<1>10. ep'.unit = UnitSet(ep.unit, q.req)
  <2> HIDE DEF cmd
  <2> QED BY <1>7, <1>8, <1>9, ExecutedNow
<1>11. LineAfter(data).owed = {}
  BY ONLY <1>7 DEF LineAfter
<1>12. CountExtra # 4
  BY ONLY CountExtra = 5
<1>13. IF CountExtra = 4 THEN q = Self ELSE line.owed = {q}
  BY ONLY <1>3, <1>12
<1> QED BY <1>1, <1>2, <1>8, <1>10, <1>11, <1>13, Zenon DEF WriteTells

LEMMA ShiftedTells ==
  ASSUME Followed, WriteByte, line'.st # "lost", CountExtra = 5, line.st = "shifted"
  PROVE  WriteTells(Head(host.todo))
<1> DEFINE data == Head(host.todo)
<1>1. data \in Bytes /\ ~EndsPacket(data) /\ EndpointSend(data) /\ line' = LineAfter(data)
  BY HostWrites
<1>2. ep.pktpos <= 1 \/ ep.pktpos < ep.pktlen + 3
  BY DEF Followed, CountsOneMore
<1>3. ep \in EpType /\ ep.offset <= Len(ep.cmdbuffer)
  BY TypesIs DEF Followed
<1>4. ~EndsRequest(data) /\ ep'.unit = ep.unit
  <2> HIDE DEF data
  <2> QED BY <1>1, <1>2, <1>3, ShiftedStep
<1>5. EndedBy(data) = {}
  BY ONLY <1>4 DEF EndedBy
<1>6. LineAfter(data).owed = line.owed
  BY <1>4 DEF LineAfter
<1> QED BY <1>1, <1>4, <1>5, <1>6 DEF WriteTells

LEMMA WriteIs ==
  ASSUME Followed, WriteByte, line'.st # "lost"
  PROVE  WriteTells(Head(host.todo))
<1>1. CountExtra \in {4, 5}
  BY MiAssumption
<1>2. line.st \in {"in step", "shifted", "lost"} /\ line.st # "lost"
  BY TypesIs DEF Followed, WriteByte
<1> QED BY <1>1, <1>2, AlikeTells, LateTells, OwedTells, ShiftedTells

\* A session with a field changed.
LEMMA SessionWith ==
  ASSUME NEW a, NEW b, NEW c, NEW x, NEW s, s = [st |-> a, req |-> b, ran |-> c]
  PROVE  /\ [s EXCEPT !.st = x] = [st |-> x, req |-> b, ran |-> c]
         /\ [s EXCEPT !.ran = x] = [st |-> a, req |-> b, ran |-> x]
         /\ s.st = a /\ s.ran = c
OBVIOUS

\* What the session is in a state of the invariant, without a CASE.
SessionNow ==
  [st |-> IF line.st = "lost" THEN "lost"
          ELSE IF host.pc = "write" \/ (host.pc = "read" /\ host.gets # {}) THEN "asked"
          ELSE IF Answered /\ host.gets # {} THEN "answered" ELSE "none",
   req |-> host.req,
   ran |-> {q.req : q \in host.gets}]

SessionIsNow == Session = SessionNow

\* In a state of the invariant the session is the host's state, renamed.
LEMMA SessionIs == Inv => SessionIsNow
<1> SUFFICES ASSUME Inv PROVE Session = SessionNow
  BY DEF SessionIsNow
<1>1. line.st # "lost" => RunsAsMade /\ ReadsAnswer
  BY InvRuns, InvReadsAnswer
<1>2. CASE line.st = "lost"
  BY ONLY <1>2 DEF Session, SessionNow
<1>3. CASE line.st # "lost" /\ host.gets = {}
  BY ONLY <1>3 DEF Session, SessionNow, Answered
<1>4. CASE line.st # "lost" /\ host.gets # {}
  <2> DEFINE ran == {q.req : q \in host.gets}
  <2>1. RunsAsMade /\ ReadsAnswer
    BY ONLY <1>1, <1>4
  <2>2. Session.st = IF host.pc \in {"write", "read"} THEN "asked"
                     ELSE IF Answered THEN "answered" ELSE "none"
    BY ONLY <1>4, <2>1 DEF Session
  <2>3. SessionNow.st = IF host.pc = "write" \/ host.pc = "read" THEN "asked"
                        ELSE IF Answered THEN "answered" ELSE "none"
    BY ONLY <1>4 DEF SessionNow
  <2>4. Session.st = SessionNow.st
    BY ONLY <2>2, <2>3
  <2>5. Session = [st |-> Session.st, req |-> host.req, ran |-> ran]
        /\ SessionNow = [st |-> SessionNow.st, req |-> host.req, ran |-> ran]
    BY ONLY TRUE DEF Session, SessionNow
  <2> QED BY ONLY <2>4, <2>5
<1> QED BY <1>2, <1>3, <1>4

\* ... and in the next state.
LEMMA SessionIsNext == Inv' => SessionIsNow'
BY SessionIs, PTL

\* A step of the bus is a step of the service, or none that it can tell.
LEMMA StepImplements ==
  ASSUME Inv, Inv', [Next]_vars
  PROVE  [Service!Next]_(Service!vars)
<1>1. Session = SessionNow
  BY SessionIs DEF SessionIsNow
<1>2. Session' = SessionNow'
  BY SessionIsNext DEF SessionIsNow
<1>3. ASSUME line'.st = "lost"
      PROVE  Service!Lose
  <2>1. Session'.st = "lost"
    BY ONLY <1>2, <1>3 DEF SessionNow
  <2> QED BY ONLY <2>1 DEF Service!Lose
<1>4. ASSUME line.st # "lost"
      PROVE  Followed /\ Types
  BY <1>4 DEF Inv, Followed
<1>5. ASSUME NEW r \in Requests, Start(r)
      PROVE  Service!Ask
  <2>1. /\ line.st # "lost" /\ line' = line
        /\ host.pc \in {"idle", "done"} /\ ep' = ep
    BY <1>5 DEF Start
  <2>2. host'.pc = "write" /\ host'.req = r /\ host'.gets = {}
    <3>1. PICK tag \in Tags :
            host' = [NoHost EXCEPT !.pc = "write", !.req = r, !.tag = tag,
                                   !.todo = xmit_pkt(Message(r, tag))]
      BY <1>5 DEF Start
    <3>2. PICK q \in Requests :
            NoHost = [pc |-> "idle", req |-> q, tag |-> 1, todo |-> <<>>, reply |-> <<>>,
                      left |-> 0, inHeader |-> TRUE, eom |-> 0, gets |-> {}]
      BY NoHostIs
    <3> QED BY ONLY <3>1, <3>2
  <2>3. Session.st \in {"none", "answered"}
    BY ONLY <1>1, <2>1 DEF SessionNow
  <2>4. Session'.st = "asked" /\ Session'.req = r /\ Session'.ran = {}
    BY ONLY <1>2, <2>1, <2>2 DEF SessionNow
  <2>5. ep'.unit = ep.unit /\ {q.req : q \in line.owed}' = {q.req : q \in line.owed}
    BY ONLY <2>1
  <2> QED BY ONLY <1>5, <2>3, <2>4, <2>5 DEF Service!Ask
<1>6. ASSUME WriteByte, line'.st # "lost"
      PROVE  Service!Execute \/ Service!Hold \/ Service!Leave \/ UNCHANGED Service!vars
  <2> DEFINE data == Head(host.todo)
             ran == {q.req : q \in host.gets}
             owes == {q.req : q \in line.owed}
  <2>0. line.st # "lost" /\ Followed
    BY <1>4, <1>6 DEF WriteByte
  <2>1. /\ host.pc = "write" /\ host'.gets = host.gets \cup EndedBy(data)
        /\ host'.req = host.req
        /\ Len(host.todo) > 1 => host'.pc = "write"
        /\ Len(host.todo) = 1 => host'.pc = "read"
    BY <1>6, <2>0, HostWrites
  <2>2. Len(host.todo) > 1 \/ Len(host.todo) = 1
    BY <1>6, <2>0, WritingGoesOn
  <2>3. WriteTells(data)
    BY <1>6, <2>0, WriteIs
  <2> HIDE DEF data
  <2>4. Session = [st |-> "asked", req |-> host.req, ran |-> ran]
    BY ONLY <1>1, <2>0, <2>1 DEF SessionNow
  <2>5. host'.pc = "write" \/ host'.pc = "read"
    BY ONLY <2>1, <2>2
  <2>6. ASSUME EndedBy(data) = {}, ep'.unit = ep.unit, line'.owed = line.owed
        PROVE  Service!Leave \/ UNCHANGED Service!vars
    <3>1. host'.gets = host.gets
      BY ONLY <2>1, <2>6
    <3>2. ran' = ran /\ owes' = owes
      BY ONLY <2>6, <3>1
    <3>3. CASE host'.pc = "write" \/ host.gets # {}
      <4>1. Session' = [st |-> "asked", req |-> host.req, ran |-> ran]
        BY ONLY <1>2, <1>6, <2>1, <2>5, <3>1, <3>2, <3>3 DEF SessionNow
      <4> QED BY ONLY <2>4, <2>6, <3>2, <4>1 DEF Service!vars
    <3>4. CASE host'.pc = "read" /\ host.gets = {}
      <4>1. Session'.st = "none"
        BY ONLY <1>2, <1>6, <3>1, <3>4 DEF SessionNow, Answered
      <4>2. Session.st # "lost"
        BY ONLY <2>4
      <4> QED BY ONLY <2>6, <3>2, <4>1, <4>2 DEF Service!Leave
    <3> QED BY ONLY <2>5, <3>3, <3>4
  <2>7. ASSUME EndedBy(data) = {}, ep'.unit = ep.unit, CountExtra = 5, Len(host.todo) = 1,
               host.gets = {}, line.owed = {}, line'.owed = {Self}
        PROVE  Service!Hold
    <3>1. host'.gets = {} /\ host'.pc = "read"
      BY ONLY <2>1, <2>7
    <3>2. Session'.st = "none"
      BY ONLY <1>2, <1>6, <3>1 DEF SessionNow, Answered
    <3>3. owes = {} /\ owes' = {host.req}
      <4>1. PICK q : q = Self
        OBVIOUS
      <4>2. q.req = host.req /\ line'.owed = {q}
        BY ONLY <2>7, <4>1 DEF Self
      <4> QED BY ONLY <2>7, <4>2
    <3>4. Session.st = "asked" /\ Session.ran = {} /\ Session.req = host.req
      BY ONLY <2>4, <2>7
    <3>5. CountExtra # 4
      BY ONLY <2>7
    <3> QED BY ONLY <2>7, <3>2, <3>3, <3>4, <3>5 DEF Service!Hold
  <2>8. ASSUME host.gets = {}, line'.owed = {}, NEW q \in Whose, EndedBy(data) = {q},
               ep'.unit = UnitSet(ep.unit, q.req),
               IF CountExtra = 4 THEN q = Self ELSE line.owed = {q}
        PROVE  Service!Execute
    <3>1. host'.gets = {q}
      BY ONLY <2>1, <2>8
    <3>2. ran' = {q.req} /\ ran = {} /\ owes' = {}
      BY ONLY <2>8, <3>1
    <3>3. Session' = [st |-> "asked", req |-> host.req, ran |-> {q.req}]
      <4>1. host'.gets # {}
        BY ONLY <3>1
      <4> QED BY ONLY <1>2, <1>6, <2>1, <2>5, <3>2, <4>1 DEF SessionNow
    <3>4. q.req \in IF CountExtra # 4 THEN owes ELSE {Session.req}
      <4>1. CASE CountExtra = 4
        <5>1. q.req = host.req
          BY ONLY <2>8, <4>1 DEF Self
        <5> QED BY ONLY <2>4, <4>1, <5>1
      <4>2. CASE CountExtra # 4
        <5>1. owes = {q.req}
          BY ONLY <2>8, <4>2
        <5> QED BY ONLY <4>2, <5>1
      <4> QED BY <4>1, <4>2
    <3>5. Session' = [Session EXCEPT !.ran = {q.req}] /\ Session.st = "asked" /\ Session.ran = {}
      <4>1. Session = [st |-> "asked", req |-> host.req, ran |-> {}]
        BY <2>4, <3>2
      <4> HIDE DEF ran
      <4> QED BY ONLY <3>3, <4>1, SessionWith
    <3> QED BY ONLY <2>8, <3>2, <3>4, <3>5 DEF Service!Execute
  <2> QED BY ONLY <2>3, <2>6, <2>7, <2>8 DEF WriteTells
<1>7. ASSUME ReadByte
      PROVE  Service!Answer \/ Service!Leave \/ UNCHANGED Service!vars
  <2> DEFINE byte == slave.recvbuffer[slave.recvlen + 1]
             ran == {q.req : q \in host.gets}
             owes == {q.req : q \in line.owed}
  <2>0. line.st # "lost" /\ Types /\ host.pc = "read" /\ InPacket
    BY <1>4, <1>7 DEF ReadByte, Followed, HostGoesOn
  <2>1. ep' = ep /\ line' = line /\ byte \in Bytes /\ HostTakes(byte)
    BY <1>7, <2>0, ReadIs
  <2>2. host'.pc \in {"read", "done"} /\ host'.req = host.req /\ host'.gets = host.gets
    <3> HIDE DEF byte
    <3> QED BY <2>0, <2>1, TakesIs
  <2> HIDE DEF byte
  <2>3. ran' = ran /\ owes' = owes /\ ep'.unit = ep.unit /\ line'.st # "lost"
    BY ONLY <2>0, <2>1, <2>2
  <2>4. CASE host.gets = {}
    <3>1. Session = [st |-> "none", req |-> host.req, ran |-> ran]
      BY ONLY <1>1, <2>0, <2>4 DEF SessionNow, Answered
    <3>2. Session' = [st |-> "none", req |-> host.req, ran |-> ran]
      BY ONLY <1>2, <2>2, <2>3, <2>4 DEF SessionNow, Answered
    <3> QED BY ONLY <2>3, <3>1, <3>2 DEF Service!vars
  <2>5. CASE host.gets # {}
    <3>1. Session = [st |-> "asked", req |-> host.req, ran |-> ran] /\ ran # {}
      BY ONLY <1>1, <2>0, <2>5 DEF SessionNow
    <3>2. CASE host'.pc = "read"
      <4>1. Session' = [st |-> "asked", req |-> host.req, ran |-> ran]
        BY ONLY <1>2, <2>2, <2>3, <2>5, <3>2 DEF SessionNow
      <4> QED BY ONLY <2>3, <3>1, <4>1 DEF Service!vars
    <3>3. CASE host'.pc = "done" /\ Answered'
      <4>1. Session' = [st |-> "answered", req |-> host.req, ran |-> ran]
        BY ONLY <1>2, <2>2, <2>3, <2>5, <3>3 DEF SessionNow
      <4>2. Session' = [Session EXCEPT !.st = "answered"] /\ Session.st = "asked" /\ Session.ran # {}
        <5> HIDE DEF ran
        <5> QED BY ONLY <3>1, <4>1, SessionWith
      <4> QED BY ONLY <2>3, <4>2 DEF Service!Answer
    <3>4. CASE host'.pc = "done" /\ ~Answered'
      <4>1. Session'.st = "none"
        BY ONLY <1>2, <2>3, <3>4 DEF SessionNow
      <4>2. Session.st # "lost"
        BY ONLY <3>1
      <4> QED BY ONLY <2>3, <4>1, <4>2 DEF Service!Leave
    <3> QED BY ONLY <2>2, <3>2, <3>3, <3>4
  <2> QED BY <2>4, <2>5
<1>8. ASSUME Abort, line'.st # "lost"
      PROVE  Service!Leave
  <2>1. host' = [NoHost EXCEPT !.tag = host.tag] /\ ep' = ep
        /\ line.st # "lost"
        /\ line' = IF host.pc = "write" THEN [line EXCEPT !.st = "lost"] ELSE line
    BY <1>8 DEF Abort
  <2>2. line' = line
    <3>1. Types
      BY <1>4, <2>1
    <3>2. line = [st |-> line.st, owed |-> line.owed]
      BY <3>1, TypesIs
    <3> QED BY ONLY <1>8, <2>1, <3>2
  <2>3. host'.pc = "idle" /\ host'.gets = {}
    <3>1. PICK q \in Requests :
            NoHost = [pc |-> "idle", req |-> q, tag |-> 1, todo |-> <<>>, reply |-> <<>>,
                      left |-> 0, inHeader |-> TRUE, eom |-> 0, gets |-> {}]
      BY NoHostIs
    <3> QED BY ONLY <2>1, <3>1
  <2>4. Session'.st = "none" /\ ep'.unit = ep.unit
    BY ONLY <1>2, <1>8, <2>1, <2>3 DEF SessionNow
  <2>5. Session.st # "lost"
    BY ONLY <1>1, <2>1 DEF SessionNow
  <2>6. {q.req : q \in line.owed}' = {q.req : q \in line.owed}
    BY ONLY <2>2
  <2> QED BY ONLY <2>4, <2>5, <2>6 DEF Service!Leave
<1>9. ASSUME Reboot
      PROVE  Service!Restart
  <2>1. ep' = InitialEp /\ host' = NoHost /\ line' = InStep
    BY <1>9 DEF Reboot
  <2>2. host'.pc = "idle"
    BY ONLY <2>1 DEF NoHost
  <2>3. ep'.unit = DefaultUnit
    BY ONLY <2>1 DEF InitialEp
  <2>4. line'.st = "in step" /\ {q.req : q \in line.owed}' = {}
    BY ONLY <2>1 DEF InStep
  <2>5. Session'.st = "none"
    BY ONLY <1>2, <2>2, <2>4 DEF SessionNow, Answered
  <2> QED BY ONLY <2>3, <2>4, <2>5 DEF Service!Restart
<1>10. ASSUME UNCHANGED vars
       PROVE  UNCHANGED Service!vars
  <2>1. ep' = ep /\ host' = host /\ line' = line
    BY <1>10 DEF vars
  <2>2. SessionNow' = SessionNow /\ {q.req : q \in line.owed}' = {q.req : q \in line.owed}
    BY ONLY <2>1 DEF SessionNow, Answered
  <2> QED BY ONLY <1>1, <1>2, <2>1, <2>2 DEF Service!vars
<1> QED BY <1>3, <1>5, <1>6, <1>7, <1>8, <1>9, <1>10 DEF Next, HostStep, Service!Next

\* The bytes on the bus, the packets, the buffers and the slave implement
\* MiService, with either count: a request is executed at most once, as it was
\* made, and before any later one; with the tool's count on the time of the next
\* process; the answer that is read is the executed one's; and only a
\* Configuration Set that was asked for changes the unit size.
THEOREM TransportImplements == Spec => ImplementsService
<1>1. Init => Service!Init
  <2> SUFFICES ASSUME Init PROVE Service!Init
    OBVIOUS
  <2>1. Session = SessionNow
    BY InitInv, SessionIs DEF SessionIsNow
  <2>2. host.pc = "idle" /\ line.st = "in step" /\ {q.req : q \in line.owed} = {}
    <3>1. host = NoHost /\ line = InStep
      BY DEF Init
    <3> QED BY ONLY <3>1 DEF NoHost, InStep
  <2>3. ep.unit = DefaultUnit
    BY DEF Init, InitialEp
  <2>4. Session.st = "none"
    BY ONLY <2>1, <2>2 DEF SessionNow, Answered
  <2> QED BY ONLY <2>2, <2>3, <2>4 DEF Service!Init
<1>2. Inv /\ Inv' /\ [Next]_vars => [Service!Next]_(Service!vars)
  BY StepImplements
<1> QED BY <1>1, <1>2, InvHolds, PTL DEF Spec, ImplementsService, Service!Spec

-----------------------------------------------------------------------------
(* A host comes to its end                                                 *)

\* The bytes a host may still have on the bus, at most.
ToGo == IF host.pc = "write" THEN BufSize + Len(host.todo) ELSE BufSize - Len(host.reply)

\* A host that writes, or reads an answer.
OnItsWay ==
  \/ host.pc = "write"
  \/ host.pc = "read" /\ \E q \in host.gets : q.req.kind # UNKNOWN

\* While a host reads an answer, some of it is left and the slave gives it.
LEMMA AnswerLeft ==
  ASSUME Followed, host.pc = "read", NEW a \in host.gets, a.req.kind # UNKNOWN
  PROVE  ~slave.syncflag /\ slave.recvlen = Len(host.reply) /\ slave.recvlen < BufSize
<1> DEFINE unit == ep.unit
           size == DataSize(a.req) + CrcSize
           n == PacketsOf(size, unit)
           x == Len(host.reply)
<1>1. Types /\ Served(a)
  BY DEF Followed, Executed
<1>2. a.req \in Requests /\ a.tag \in Tags
  <2>1. a \in Whose
    BY <1>1, TypesIs
  <2> QED BY <2>1, WhoseIs
<1>3. ep \in EpType /\ Rest(slave) /\ x \in Nat
  <2>1. ep \in EpType /\ Rest(slave) /\ host.reply \in Seq(Bytes)
    BY <1>1, TypesIs
  <2>2. Len(host.reply) \in Nat
    BY ONLY <2>1
  <2> QED BY ONLY <2>1, <2>2
<1>4. unit \in Units \cup {DefaultUnit}
  BY ONLY <1>3 DEF EpType
<1>5. PICK crc \in CrcBytes : ReadingFrom(AnswerTo(a.req, a.tag, unit, crc))
  BY <1>1 DEF Served
<1>6. PICK i \in 1..n : ReadingAt(a.req, i)
  BY <1>1 DEF Served
<1> DEFINE stream == AnswerTo(a.req, a.tag, unit, crc)
           p == Payload(size, unit, i)
           b == Base(i, unit + 9)
           total == Len(stream)
<1>7. total <= BufSize /\ AnswerPackets(stream, size, unit, n) /\ stream \in Seq(Bytes)
  <2>1. KeepsEnd(DataSize(a.req), unit)
    BY <1>1 DEF Served
  <2> HIDE DEF unit
  <2> QED BY <1>2, <1>4, <2>1, AnswerFramed, AnswerPacketsAre
<1>8. \/ host.left \in 1..8 /\ x = b + 8 - host.left
      \/ host.left \in 1..(p + 1) /\ x = b + p + 9 - host.left
  BY <1>6 DEF ReadingAt
<1>9. slave.recvlen = x
  BY <1>5 DEF ReadingFrom
<1>10. i \in 1..n
  OBVIOUS
<1> HIDE DEF unit, size, n, stream, x
<1>11. total \in Nat
  BY ONLY <1>7
<1>12. b \in Nat /\ p \in 1..250 /\ b + p + 9 <= total /\ BufSize \in Nat
  BY <1>7, <1>10, MiAssumption DEF AnswerPackets
<1> HIDE DEF p, b, total
<1>13. x < BufSize
  <2> DEFINE left == host.left
  <2>1. (left \in 1..8 /\ x = b + 8 - left) \/ (left \in 1..(p + 1) /\ x = b + p + 9 - left)
    BY ONLY <1>8
  <2>2. total <= BufSize
    BY ONLY <1>7
  <2> HIDE DEF left
  <2>3. left >= 1 /\ left \in Int
    BY ONLY <1>12, <2>1
  <2>4. x < b + p + 9
    BY ONLY <1>12, <2>1, <2>3
  <2>5. x \in Nat
    BY ONLY <1>3
  <2> QED BY ONLY <1>11, <1>12, <2>2, <2>4, <2>5
<1> QED BY <1>3, <1>9, <1>13 DEF Rest, x

\* As long as the endpoint is followed, a host that writes or is answered can
\* always go on: qemu_mi_read never finds the slave without a byte for it
\* (EveryAnswerIsRead's first half).
THEOREM HostNeverWaits == Spec => [](line.st # "lost" /\ OnItsWay => HostCanStep)
<1>1. Inv => (line.st # "lost" /\ OnItsWay => HostCanStep)
  <2> SUFFICES ASSUME Followed, line.st # "lost", OnItsWay PROVE HostCanStep
    BY DEF Inv
  <2>1. CASE host.pc = "write"
    BY <2>1 DEF HostCanStep
  <2>2. CASE host.pc = "read" /\ \E q \in host.gets : q.req.kind # UNKNOWN
    <3>1. PICK a \in host.gets : a.req.kind # UNKNOWN
      BY <2>2
    <3> QED BY <2>2, <3>1, AnswerLeft DEF HostCanStep
  <2> QED BY <2>1, <2>2 DEF OnItsWay
<1> QED BY <1>1, InvHolds, PTL

\* Each byte, written or read, brings it one nearer to its end, which is never
\* passed (the second half: no packet is read twice and no answer is endless).
THEOREM HostComesToEnd ==
  Spec => [][HostStep /\ OnItsWay /\ line'.st # "lost" => ToGo' \in Nat /\ ToGo' = ToGo - 1]_vars
<1>1. ASSUME Inv, HostStep, OnItsWay, line'.st # "lost"
      PROVE  ToGo' \in Nat /\ ToGo' = ToGo - 1
  <2>1. BufSize \in Nat
    BY MiAssumption
  <2>2. Followed /\ Types
    BY <1>1 DEF HostStep, WriteByte, ReadByte, Inv, Followed
  <2>3. host.todo \in Seq(Bytes) /\ host.reply \in Seq(Bytes)
    BY <2>2, TypesIs
  <2> DEFINE todo == host.todo
             t == Len(todo)
             x == Len(host.reply)
  <2>4. t \in Nat /\ x \in Nat
    BY ONLY <2>3
  <2>5. CASE WriteByte
    <3>1. /\ host.pc = "write" /\ t > 0 /\ host'.reply = <<>>
          /\ t > 1 => host'.pc = "write" /\ host'.todo = Tail(todo)
          /\ t = 1 => host'.pc = "read"
      BY <1>1, <2>2, <2>5, HostWrites
    <3>2. ToGo = BufSize + t
      BY ONLY <3>1 DEF ToGo
    <3>3. CASE t > 1
      <4>1. Len(Tail(todo)) = t - 1
        BY ONLY <2>3, <3>3, LenIs
      <4>2. ToGo' = BufSize + (t - 1)
        BY ONLY <3>1, <3>3, <4>1 DEF ToGo
      <4> HIDE DEF t
      <4> QED BY ONLY <2>1, <2>4, <3>2, <3>3, <4>2
    <3>4. CASE t = 1
      <4>1. ToGo' = BufSize - 0
        BY ONLY <3>1, <3>4 DEF ToGo
      <4> HIDE DEF t
      <4> QED BY ONLY <2>1, <3>2, <3>4, <4>1
    <3> HIDE DEF t
    <3> QED BY ONLY <2>4, <3>1, <3>3, <3>4
  <2>6. CASE ReadByte
    <3>1. host.pc = "read" /\ InPacket
      BY <2>2, <2>6 DEF ReadByte, Followed, HostGoesOn
    <3>2. PICK a \in host.gets : a.req.kind # UNKNOWN
      BY <1>1, <3>1 DEF OnItsWay
    <3>3. slave.recvlen = x /\ slave.recvlen < BufSize
      BY <2>2, <3>1, <3>2, AnswerLeft
    <3>4. host'.pc # "write" /\ Len(host'.reply) = x + 1
      <4> DEFINE byte == slave.recvbuffer[slave.recvlen + 1]
      <4>1. byte \in Bytes /\ HostTakes(byte)
        BY <2>2, <2>6, <3>1, ReadIs
      <4> HIDE DEF byte
      <4>2. host'.pc \in {"read", "done"} /\ Len(host'.reply) = Len(host.reply) + 1
        BY <2>2, <3>1, <4>1, TakesIs
      <4> QED BY ONLY <4>2
    <3>5. ToGo = BufSize - x /\ ToGo' = BufSize - (x + 1)
      BY ONLY <3>1, <3>4 DEF ToGo
    <3>6. x < BufSize
      BY ONLY <3>3
    <3> HIDE DEF x
    <3> QED BY ONLY <2>1, <2>4, <3>5, <3>6
  <2> QED BY <1>1, <2>5, <2>6 DEF HostStep
<1>2. Inv /\ [Next]_vars
        => [HostStep /\ OnItsWay /\ line'.st # "lost" => ToGo' \in Nat /\ ToGo' = ToGo - 1]_vars
  BY <1>1
<1> QED BY <1>2, InvHolds, PTL DEF Spec
=============================================================================
