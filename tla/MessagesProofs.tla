----------------------------- MODULE MessagesProofs -----------------------------
(***************************************************************************)
(* What holds of Messages for every configuration, peer, read and route.   *)
(*                                                                         *)
(* OpenInv: what was read of the peer's Open is what it offered, an Open   *)
(* sent from Active offers the configuration, and what is negotiated comes *)
(* from both.  A step that exchanges Opens keeps it because the bytes of   *)
(* the peer's Open are found again: its parameters are laid out one after  *)
(* the other (ParametersLayout), so the search for their first octets      *)
(* (ParameterIndexes) stops where each begins (IndexesFound).              *)
(*                                                                         *)
(* UpdateInv: the Update just sent is that of a route of adj_rib_out. Both *)
(* it and the standard's are written as one front, path and prefix         *)
(* (OurBytes, TheirBytes) and compared part by part (RouteIsStandard).     *)
(*                                                                         *)
(* ReadInv: where the decoder stands in the message it reads.  Reading     *)
(* says it of a message, a type and the two widths: of an Update the       *)
(* fields of its layout stand at their indexes, the withdrawn routes taken *)
(* so far are those of as many groups of five octets, the path attributes  *)
(* taken so far are what the peer's mean (Decoding); every other message   *)
(* is read whole in one step.  A lemma for each step of the decoder says   *)
(* that Decoding is kept (DecodeWithdrawn, DecodeAttributes, DecodeNlri,   *)
(* DecodeFinish), and five of the properties follow from ReadInv.          *)
(***************************************************************************)
EXTENDS Messages, OctetsProofs

-----------------------------------------------------------------------------
(* Lists.                                                                  *)

\* An element of the joined sequence is one of theirs.
LEMMA FlattenMembers ==
  ASSUME NEW S, NEW seqs \in Seq(Seq(S)), NEW j \in 1..Len(FlattenSeq(seqs))
  PROVE  \E k \in 1..Len(seqs) : \E x \in 1..Len(seqs[k]) :
           FlattenSeq(seqs)[j] = seqs[k][x]
<1> DEFINE n == Len(seqs)
           Behind == {k \in Nat : k <= n /\ j <= Before(seqs, k)}
<1>1. n \in Nat /\ Before(seqs, 0) = 0
  BY FlattenLayout
<1>2. /\ Before(seqs, n) = Len(FlattenSeq(seqs))
      /\ \A k \in 0..n : Before(seqs, k) \in Nat
  BY FlattenLayout
<1>3. \A k \in 1..n : /\ Before(seqs, k) = Before(seqs, k - 1) + Len(seqs[k])
                      /\ \A x \in 1..Len(seqs[k]) :
                           FlattenSeq(seqs)[Before(seqs, k - 1) + x] = seqs[k][x]
  BY FlattenLayout
<1>4. \A k \in 1..n : Len(seqs[k]) \in Nat
  <2>1. ASSUME NEW k \in 1..n PROVE Len(seqs[k]) \in Nat
    <3>1. seqs[k] \in Seq(S)
      BY ElementOfSeq
    <3> QED
      BY <3>1, LenProperties
  <2> QED
    BY <2>1
<1>5. j \in Nat /\ j > 0 /\ j <= Before(seqs, n)
  <2>1. Before(seqs, n) \in Nat
    BY <1>1, <1>2
  <2> QED
    BY <1>2, <2>1
<1> HIDE DEF n
<1>6. n \in Behind /\ Behind \subseteq Nat
  BY <1>1, <1>5
<1>7. PICK k \in Behind : \A y \in Behind : k <= y
  <2>1. Behind # {}
    BY <1>6
  <2> HIDE DEF Behind
  <2> QED
    BY <1>6, <2>1, LeastNat
<1>8. k \in 1..n /\ k - 1 \in 0..n /\ k \in 0..n
  BY <1>1, <1>5, <1>7
<1>9. ~(j <= Before(seqs, k - 1))
  <2>1. k - 1 \in Nat /\ k - 1 <= n /\ ~(k <= k - 1)
    BY <1>1, <1>8
  <2> QED
    BY <1>7, <2>1
<1> DEFINE u == Before(seqs, k - 1)
           v == Before(seqs, k)
           l == Len(seqs[k])
<1>10. u \in Nat /\ v \in Nat /\ l \in Nat /\ v = u + l /\ j <= v /\ ~(j <= u)
  BY <1>2, <1>3, <1>4, <1>7, <1>8, <1>9
<1>11. \A x \in 1..l : FlattenSeq(seqs)[u + x] = seqs[k][x]
  BY <1>3, <1>8
<1> HIDE DEF u, v, l
<1>12. j - u \in 1..l /\ u + (j - u) = j
  BY <1>5, <1>10
<1>13. FlattenSeq(seqs)[j] = seqs[k][j - u]
  BY <1>11, <1>12
<1> QED
  BY <1>8, <1>12, <1>13 DEF l, n

\* And every element of theirs is one of the joined sequence.
LEMMA FlattenHolds ==
  ASSUME NEW S, NEW seqs \in Seq(Seq(S)),
         NEW k \in 1..Len(seqs), NEW x \in 1..Len(seqs[k])
  PROVE  \E j \in 1..Len(FlattenSeq(seqs)) : FlattenSeq(seqs)[j] = seqs[k][x]
<1> DEFINE f == FlattenSeq(seqs)
           u == Before(seqs, k - 1)
           v == Before(seqs, k)
           l == Len(seqs[k])
           n == Len(seqs)
           top == Len(f)
<1>1. n \in Nat /\ k \in 1..n
  BY LenProperties
<1>2. k - 1 \in 0..n /\ k \in 0..n /\ n \in 0..n /\ k <= n
  BY <1>1
<1>3. seqs[k] \in Seq(S) /\ f \in Seq(S)
  BY ElementOfSeq, FlattenType
<1>4. l \in Nat /\ x \in 1..l /\ top \in Nat
  BY <1>3, LenProperties
<1>5. u \in Nat /\ v \in Nat /\ v = u + l
  BY <1>2, FlattenLayout
<1>6. v <= top
  <2>1. Before(seqs, k) <= Before(seqs, n)
    BY <1>2, FlattenLayout
  <2>2. Before(seqs, n) = top
    BY FlattenLayout
  <2> QED
    BY <2>1, <2>2
<1>7. f[u + x] = seqs[k][x]
  BY <1>1, <1>4, FlattenLayout
<1> HIDE DEF f, u, v, l, n, top
<1>8. u + x \in 1..top
  BY <1>4, <1>5, <1>6
<1> QED
  BY <1>7, <1>8 DEF f, top

\* Some capability is the AS number's.
HasAs4(capabilities) == \E k \in DOMAIN capabilities : capabilities[k].kind = "AS4"

LEMMA FlattenHas ==
  ASSUME NEW S, NEW seqs \in Seq(Seq(S))
  PROVE  HasAs4(FlattenSeq(seqs)) <=> \E k \in 1..Len(seqs) : HasAs4(seqs[k])
<1> DEFINE f == FlattenSeq(seqs)
<1>1. f \in Seq(S) /\ DOMAIN f = 1..Len(f) /\ Len(f) \in Nat
  BY FlattenType, LenProperties
<1>2. ASSUME NEW k \in 1..Len(seqs)
      PROVE  DOMAIN seqs[k] = 1..Len(seqs[k]) /\ Len(seqs[k]) \in Nat
  <2>1. seqs[k] \in Seq(S)
    BY ElementOfSeq
  <2> QED
    BY <2>1, LenProperties
<1>3. ASSUME HasAs4(f) PROVE \E k \in 1..Len(seqs) : HasAs4(seqs[k])
  <2>1. PICK j \in 1..Len(f) : f[j].kind = "AS4"
    BY <1>1, <1>3 DEF HasAs4
  <2>2. PICK k \in 1..Len(seqs) : \E x \in 1..Len(seqs[k]) : f[j] = seqs[k][x]
    BY <2>1, FlattenMembers
  <2> QED
    BY <1>2, <2>1, <2>2 DEF HasAs4
<1>4. ASSUME NEW k \in 1..Len(seqs), HasAs4(seqs[k]) PROVE HasAs4(f)
  <2>1. PICK x \in 1..Len(seqs[k]) : seqs[k][x].kind = "AS4"
    BY <1>2, <1>4 DEF HasAs4
  <2>2. PICK j \in 1..Len(f) : f[j] = seqs[k][x]
    BY <2>1, FlattenHolds
  <2> QED
    BY <1>1, <2>1, <2>2 DEF HasAs4
<1> QED
  BY <1>3, <1>4

\* Those of s that are of a kind, and those that are in R (Select).
OfKind(kind, s) ==
  FlattenSeq([k \in DOMAIN s |-> IF s[k].kind = kind THEN <<s[k]>> ELSE <<>>])
Kept(R, s) ==
  FlattenSeq([k \in DOMAIN s |-> IF s[k] \in R THEN <<s[k]>> ELSE <<>>])

LEMMA OfKindType ==
  ASSUME NEW S, NEW s \in Seq(S), NEW kind
  PROVE  /\ OfKind(kind, s) \in Seq(S)
         /\ HasAs4(OfKind(kind, s)) <=> kind = "AS4" /\ HasAs4(s)
<1> DEFINE Piece(k) == IF s[k].kind = kind THEN <<s[k]>> ELSE <<>>
           p == [k \in 1..Len(s) |-> Piece(k)]
<1>1. Len(s) \in Nat /\ DOMAIN s = 1..Len(s)
  BY LenProperties
<1>2. ASSUME NEW k \in 1..Len(s) PROVE Piece(k) \in Seq(S)
  <2>1. s[k] \in S
    BY ElementOfSeq
  <2>2. <<s[k]>> \in Seq(S) /\ <<>> \in Seq(S)
    BY <2>1
  <2> QED
    BY <2>2
<1>3. ASSUME NEW k \in 1..Len(s)
      PROVE  HasAs4(Piece(k)) <=> s[k].kind = kind /\ kind = "AS4"
  <2>1. CASE s[k].kind = kind
    <3>1. DOMAIN <<s[k]>> = {1} /\ <<s[k]>>[1] = s[k]
      OBVIOUS
    <3> QED
      BY <2>1, <3>1 DEF HasAs4
  <2>2. CASE s[k].kind # kind
    <3>1. DOMAIN <<>> = {}
      OBVIOUS
    <3> QED
      BY <2>2, <3>1 DEF HasAs4
  <2> QED
    BY <2>1, <2>2
<1> HIDE DEF Piece
<1>4. p \in Seq(Seq(S)) /\ Len(p) = Len(s) /\ (\A k \in 1..Len(s) : p[k] = Piece(k))
  BY <1>1, <1>2
<1>5. FlattenSeq(p) \in Seq(S)
      /\ (HasAs4(FlattenSeq(p)) <=> \E k \in 1..Len(s) : HasAs4(Piece(k)))
  <2>1. p \in Seq(Seq(S))
    BY <1>4
  <2> HIDE DEF p
  <2> QED
    BY <1>4, <2>1, FlattenHas, FlattenType
<1>6. HasAs4(FlattenSeq(p)) <=> kind = "AS4" /\ HasAs4(s)
  BY <1>1, <1>3, <1>5 DEF HasAs4
<1>7. OfKind(kind, s) = FlattenSeq(p)
  BY <1>1 DEF OfKind, Piece
<1> QED
  BY <1>5, <1>6, <1>7

-----------------------------------------------------------------------------
(* Short sequences.                                                        *)

LEMMA SeqOfMore ==
  ASSUME NEW S, NEW T, S \subseteq T, NEW s \in Seq(S)
  PROVE  s \in Seq(T)
<1>1. Len(s) \in Nat /\ s \in [1..Len(s) -> S]
  BY LenProperties
<1>2. s \in [1..Len(s) -> T]
  BY <1>1
<1> QED
  BY <1>1, <1>2, SeqDef

LEMMA OctetValue ==
  ASSUME NEW x \in Octet
  PROVE  x \in Nat /\ x <= 255
BY DEF Octet

LEMMA OctetsAreNumbers ==
  ASSUME NEW s \in Seq(Octet)
  PROVE  s \in Seq(Nat)
<1>1. Octet \subseteq Nat
  BY DEF Octet
<1> QED
  BY <1>1, SeqOfMore

LEMMA SizedSeq ==
  ASSUME NEW S, NEW n \in Nat, NEW v \in [1..n -> S]
  PROVE  v \in Seq(S) /\ Len(v) = n
<1> DEFINE m == Len(v)
<1>1. v \in Seq(S)
  BY SeqDef
<1>2. DOMAIN v = 1..n
  OBVIOUS
<1>3. m \in Nat /\ DOMAIN v = 1..m
  BY <1>1, LenProperties
<1>4. m \in Nat /\ 1..m = 1..n
  BY <1>2, <1>3
<1> HIDE DEF m
<1>5. m = n
  BY <1>4
<1> QED
  BY <1>1, <1>5 DEF m

LEMMA FourOctets ==
  ASSUME NEW S, NEW v \in [1..4 -> S]
  PROVE  v \in Seq(S) /\ Len(v) = 4
<1>1. v \in Seq(S)
  BY SeqDef
<1>2. Len(v) \in Nat /\ DOMAIN v = 1..Len(v) /\ DOMAIN v = 1..4
  BY <1>1, LenProperties
<1> QED
  BY <1>1, <1>2

LEMMA Joined ==
  ASSUME NEW S, NEW h \in Seq(S), NEW v \in Seq(S)
  PROVE  /\ h \o v \in Seq(S) /\ Len(h) \in Nat /\ Len(v) \in Nat
         /\ Len(h \o v) = Len(h) + Len(v)
         /\ \A k \in 1..Len(h) : (h \o v)[k] = h[k]
         /\ \A k \in 1..Len(v) : (h \o v)[Len(h) + k] = v[k]
<1>1. Len(h) \in Nat /\ Len(v) \in Nat
  BY LenProperties
<1>2. /\ h \o v \in Seq(S) /\ Len(h \o v) = Len(h) + Len(v)
      /\ \A i \in 1..(Len(h) + Len(v)) :
           (h \o v)[i] = IF i <= Len(h) THEN h[i] ELSE v[i - Len(h)]
  BY ConcatProperties
<1>3. ASSUME NEW k \in 1..Len(h) PROVE (h \o v)[k] = h[k]
  BY <1>1, <1>2
<1>4. ASSUME NEW k \in 1..Len(v) PROVE (h \o v)[Len(h) + k] = v[k]
  <2>1. /\ Len(h) + k \in 1..(Len(h) + Len(v)) /\ ~(Len(h) + k <= Len(h))
        /\ Len(h) + k - Len(h) = k
    BY <1>1
  <2> QED
    BY <1>2, <2>1
<1> QED
  BY <1>1, <1>2, <1>3, <1>4

\* Joining is associative, for sequences of numbers.
Associates(s, t, u) == (s \o t) \o u = s \o (t \o u)

LEMMA Joins == \A s, t, u \in Seq(Nat) : Associates(s, t, u)
<1>1. \A s, t, u \in Seq(Nat) : (s \o t) \o u = s \o (t \o u)
  BY ConcatAssociative, SMTT(30)
<1> QED
  BY <1>1 DEF Associates

\* A part of a sequence is one, as long as it says.
Segments(S, s, m, n) ==
  m <= n /\ (\A i \in m..n : s[i] \in S) =>
    SubSeq(s, m, n) \in Seq(S) /\ Len(SubSeq(s, m, n)) = n - m + 1

LEMMA PartOf == \A S, s : \A m, n \in Int : Segments(S, s, m, n)
<1>1. ASSUME NEW S, NEW s, NEW m \in Int, NEW n \in Int, m <= n,
             \A i \in m..n : s[i] \in S
      PROVE  SubSeq(s, m, n) \in Seq(S) /\ Len(SubSeq(s, m, n)) = n - m + 1
  BY <1>1, SubSeqProperties
<1> QED
  BY <1>1 DEF Segments

LEMMA ThreeJoined ==
  ASSUME NEW S, NEW h \in Seq(S), NEW v \in Seq(S), NEW w \in Seq(S)
  PROVE  h \o v \o w \in Seq(S) /\ Len(h \o v \o w) = Len(h) + Len(v) + Len(w)
<1>1. h \o v \in Seq(S) /\ Len(h \o v) = Len(h) + Len(v)
  BY Joined
<1>2. (h \o v) \o w \in Seq(S) /\ Len((h \o v) \o w) = Len(h \o v) + Len(w)
  BY <1>1, Joined
<1> QED
  BY <1>1, <1>2

LEMMA TwoAhead ==
  ASSUME NEW S, NEW x \in S, NEW y \in S, NEW v \in Seq(S)
  PROVE  /\ <<x, y>> \o v \in Seq(S) /\ Len(v) \in Nat
         /\ Len(<<x, y>> \o v) = 2 + Len(v)
         /\ (<<x, y>> \o v)[1] = x /\ (<<x, y>> \o v)[2] = y
         /\ \A k \in 1..Len(v) : (<<x, y>> \o v)[2 + k] = v[k]
<1> DEFINE h == <<x, y>>
<1>1. h \in Seq(S) /\ Len(h) = 2 /\ h[1] = x /\ h[2] = y
  OBVIOUS
<1> HIDE DEF h
<1>2. 1 \in 1..Len(h) /\ 2 \in 1..Len(h)
  BY <1>1
<1>3. /\ h \o v \in Seq(S) /\ Len(v) \in Nat /\ Len(h \o v) = 2 + Len(v)
      /\ (h \o v)[1] = x /\ (h \o v)[2] = y
      /\ \A k \in 1..Len(v) : (h \o v)[2 + k] = v[k]
  BY <1>1, <1>2, Joined
<1> QED
  BY <1>3 DEF h

LEMMA JoinedIs ==
  ASSUME NEW S, NEW h \in Seq(S), NEW v \in Seq(S), NEW w \in Seq(S),
         Len(w) = Len(h) + Len(v),
         \A k \in 1..Len(h) : w[k] = h[k],
         \A k \in 1..Len(v) : w[Len(h) + k] = v[k]
  PROVE  h \o v = w
<1> DEFINE m == Len(h)
           n == Len(v)
           j == h \o v
<1>1. m \in Nat /\ n \in Nat
  BY LenProperties
<1>2. j \in Seq(S) /\ Len(j) = m + n
      /\ \A i \in 1..(m + n) : j[i] = IF i <= m THEN h[i] ELSE v[i - m]
  BY ConcatProperties
<1>3. Len(w) = m + n /\ (\A k \in 1..m : w[k] = h[k])
      /\ \A k \in 1..n : w[m + k] = v[k]
  OBVIOUS
<1> HIDE DEF m, n, j
<1>4. ASSUME NEW i \in 1..(m + n) PROVE j[i] = w[i]
  <2>1. CASE i <= m
    BY <1>1, <1>2, <1>3, <2>1
  <2>2. CASE ~(i <= m)
    <3>1. i - m \in 1..n /\ m + (i - m) = i
      BY <1>1, <2>2
    <3> QED
      BY <1>2, <1>3, <2>2, <3>1
  <2> QED
    BY <2>1, <2>2
<1>5. j = w
  BY <1>1, <1>2, <1>3, <1>4, SeqEqual
<1> QED
  BY <1>5 DEF j

LEMMA TwoTwo ==
  ASSUME NEW a, NEW b, NEW c, NEW d
  PROVE  <<a, b>> \o <<c, d>> = <<a, b, c, d>>
<1> DEFINE S == {a, b, c, d}
           x == <<a, b>>
           y == <<c, d>>
           z == <<a, b, c, d>>
<1>1. /\ x \in Seq(S) /\ Len(x) = 2 /\ y \in Seq(S) /\ Len(y) = 2
      /\ z \in Seq(S) /\ Len(z) = 4
  OBVIOUS
<1>2. /\ z[1] = x[1] /\ z[2] = x[2]
      /\ z[3] = y[1] /\ z[4] = y[2]
  OBVIOUS
<1> HIDE DEF S, x, y, z
<1>3. \A k \in 1..Len(x) : z[k] = x[k]
  BY <1>1, <1>2
<1>4. \A k \in 1..Len(y) : z[Len(x) + k] = y[k]
  BY <1>1, <1>2
<1>5. x \in Seq(S) /\ y \in Seq(S) /\ z \in Seq(S) /\ Len(z) = Len(x) + Len(y)
  BY <1>1
<1>6. x \o y = z
  BY <1>3, <1>4, <1>5, JoinedIs
<1> QED
  BY <1>6 DEF x, y, z

LEMMA ThreeOne ==
  ASSUME NEW a, NEW b, NEW c, NEW d
  PROVE  <<a, b, c>> \o <<d>> = <<a, b, c, d>>
<1> DEFINE S == {a, b, c, d}
           x == <<a, b, c>>
           y == <<d>>
           z == <<a, b, c, d>>
<1>1. /\ x \in Seq(S) /\ Len(x) = 3 /\ y \in Seq(S) /\ Len(y) = 1
      /\ z \in Seq(S) /\ Len(z) = 4
  OBVIOUS
<1>2. /\ z[1] = x[1] /\ z[2] = x[2] /\ z[3] = x[3]
      /\ z[4] = y[1]
  OBVIOUS
<1> HIDE DEF S, x, y, z
<1>3. \A k \in 1..Len(x) : z[k] = x[k]
  BY <1>1, <1>2
<1>4. \A k \in 1..Len(y) : z[Len(x) + k] = y[k]
  BY <1>1, <1>2
<1>5. x \in Seq(S) /\ y \in Seq(S) /\ z \in Seq(S) /\ Len(z) = Len(x) + Len(y)
  BY <1>1
<1>6. x \o y = z
  BY <1>3, <1>4, <1>5, JoinedIs
<1> QED
  BY <1>6 DEF x, y, z

LEMMA ThreeTwo ==
  ASSUME NEW a, NEW b, NEW c, NEW d, NEW e
  PROVE  <<a, b, c>> \o <<d, e>> = <<a, b, c, d, e>>
<1> DEFINE S == {a, b, c, d, e}
           x == <<a, b, c>>
           y == <<d, e>>
           z == <<a, b, c, d, e>>
<1>1. /\ x \in Seq(S) /\ Len(x) = 3 /\ y \in Seq(S) /\ Len(y) = 2
      /\ z \in Seq(S) /\ Len(z) = 5
  OBVIOUS
<1>2. /\ z[1] = x[1] /\ z[2] = x[2] /\ z[3] = x[3]
      /\ z[4] = y[1] /\ z[5] = y[2]
  OBVIOUS
<1> HIDE DEF S, x, y, z
<1>3. \A k \in 1..Len(x) : z[k] = x[k]
  BY <1>1, <1>2
<1>4. \A k \in 1..Len(y) : z[Len(x) + k] = y[k]
  BY <1>1, <1>2
<1>5. x \in Seq(S) /\ y \in Seq(S) /\ z \in Seq(S) /\ Len(z) = Len(x) + Len(y)
  BY <1>1
<1>6. x \o y = z
  BY <1>3, <1>4, <1>5, JoinedIs
<1> QED
  BY <1>6 DEF x, y, z

LEMMA FourTwo ==
  ASSUME NEW a, NEW b, NEW c, NEW d, NEW e, NEW f
  PROVE  <<a, b, c, d>> \o <<e, f>> = <<a, b, c, d, e, f>>
<1> DEFINE S == {a, b, c, d, e, f}
           x == <<a, b, c, d>>
           y == <<e, f>>
           z == <<a, b, c, d, e, f>>
<1>1. /\ x \in Seq(S) /\ Len(x) = 4 /\ y \in Seq(S) /\ Len(y) = 2
      /\ z \in Seq(S) /\ Len(z) = 6
  OBVIOUS
<1>2. /\ z[1] = x[1] /\ z[2] = x[2] /\ z[3] = x[3] /\ z[4] = x[4]
      /\ z[5] = y[1] /\ z[6] = y[2]
  OBVIOUS
<1> HIDE DEF S, x, y, z
<1>3. \A k \in 1..Len(x) : z[k] = x[k]
  BY <1>1, <1>2
<1>4. \A k \in 1..Len(y) : z[Len(x) + k] = y[k]
  BY <1>1, <1>2
<1>5. x \in Seq(S) /\ y \in Seq(S) /\ z \in Seq(S) /\ Len(z) = Len(x) + Len(y)
  BY <1>1
<1>6. x \o y = z
  BY <1>3, <1>4, <1>5, JoinedIs
<1> QED
  BY <1>6 DEF x, y, z

LEMMA SixTwo ==
  ASSUME NEW a, NEW b, NEW c, NEW d, NEW e, NEW f, NEW g, NEW h
  PROVE  <<a, b, c, d, e, f>> \o <<g, h>> = <<a, b, c, d, e, f, g, h>>
<1> DEFINE S == {a, b, c, d, e, f, g, h}
           x == <<a, b, c, d, e, f>>
           y == <<g, h>>
           z == <<a, b, c, d, e, f, g, h>>
<1>1. /\ x \in Seq(S) /\ Len(x) = 6 /\ y \in Seq(S) /\ Len(y) = 2
      /\ z \in Seq(S) /\ Len(z) = 8
  OBVIOUS
<1>2. /\ z[1] = x[1] /\ z[2] = x[2] /\ z[3] = x[3] /\ z[4] = x[4] /\ z[5] = x[5] /\ z[6] = x[6]
      /\ z[7] = y[1] /\ z[8] = y[2]
  OBVIOUS
<1> HIDE DEF S, x, y, z
<1>3. \A k \in 1..Len(x) : z[k] = x[k]
  BY <1>1, <1>2
<1>4. \A k \in 1..Len(y) : z[Len(x) + k] = y[k]
  BY <1>1, <1>2
<1>5. x \in Seq(S) /\ y \in Seq(S) /\ z \in Seq(S) /\ Len(z) = Len(x) + Len(y)
  BY <1>1
<1>6. x \o y = z
  BY <1>3, <1>4, <1>5, JoinedIs
<1> QED
  BY <1>6 DEF x, y, z

LEMMA TwoSix ==
  ASSUME NEW a, NEW b, NEW c, NEW d, NEW e, NEW f, NEW g, NEW h
  PROVE  <<a, b>> \o <<c, d, e, f, g, h>> = <<a, b, c, d, e, f, g, h>>
<1> DEFINE S == {a, b, c, d, e, f, g, h}
           x == <<a, b>>
           y == <<c, d, e, f, g, h>>
           z == <<a, b, c, d, e, f, g, h>>
<1>1. /\ x \in Seq(S) /\ Len(x) = 2 /\ y \in Seq(S) /\ Len(y) = 6
      /\ z \in Seq(S) /\ Len(z) = 8
  OBVIOUS
<1>2. /\ z[1] = x[1] /\ z[2] = x[2]
      /\ z[3] = y[1] /\ z[4] = y[2] /\ z[5] = y[3] /\ z[6] = y[4] /\ z[7] = y[5] /\ z[8] = y[6]
  OBVIOUS
<1> HIDE DEF S, x, y, z
<1>3. \A k \in 1..Len(x) : z[k] = x[k]
  BY <1>1, <1>2
<1>4. \A k \in 1..Len(y) : z[Len(x) + k] = y[k]
  BY <1>1, <1>2
<1>5. x \in Seq(S) /\ y \in Seq(S) /\ z \in Seq(S) /\ Len(z) = Len(x) + Len(y)
  BY <1>1
<1>6. x \o y = z
  BY <1>3, <1>4, <1>5, JoinedIs
<1> QED
  BY <1>6 DEF x, y, z

-----------------------------------------------------------------------------
(* The parameters of an Open, as bytes.                                    *)

LEMMA CapabilityBytes ==
  ASSUME NEW c \in PeerCapability
  PROVE  /\ StandardCapability(c) \in Seq(Octet)
         /\ c.kind = "MP" =>
              /\ Len(StandardCapability(c)) = 6
              /\ c.value \in Octet \X Octet
              /\ StandardCapability(c) = <<1, 4, 0, c.value[1], 0, c.value[2]>>
         /\ c.kind = "AS4" =>
              /\ Len(StandardCapability(c)) = 6
              /\ c.value \in [1..4 -> Octet]
              /\ StandardCapability(c)[1] = 65
              /\ \A k \in 1..4 : StandardCapability(c)[2 + k] = c.value[k]
         /\ c.kind \notin {"MP", "AS4"} =>
              /\ Len(StandardCapability(c)) = 2
              /\ StandardCapability(c)[1] = 2
         /\ Len(StandardCapability(c)) \in {2, 6}
<1>1. CASE c \in [kind : {"MP"}, value : Octet \X Octet]
  <2>1. c.kind = "MP" /\ c.value \in Octet \X Octet
    BY <1>1
  <2>2. c.value[1] \in Octet /\ c.value[2] \in Octet
    BY <2>1
  <2>3. StandardCapability(c) = <<1, 4, 0, c.value[1], 0, c.value[2]>>
    BY <2>1 DEF StandardCapability
  <2>4. /\ <<1, 4, 0, c.value[1], 0, c.value[2]>> \in Seq(Octet)
        /\ Len(<<1, 4, 0, c.value[1], 0, c.value[2]>>) = 6
    BY <2>2 DEF Octet
  <2> QED
    BY <2>1, <2>3, <2>4
<1>2. CASE c \in [kind : {"AS4"}, value : [1..4 -> Octet]]
  <2>1. c.kind = "AS4" /\ c.value \in [1..4 -> Octet]
    BY <1>2
  <2>2. c.value \in Seq(Octet) /\ Len(c.value) = 4
    BY <2>1, FourOctets
  <2>3. StandardCapability(c) = <<65, 4>> \o c.value
    BY <2>1 DEF StandardCapability
  <2>4. 65 \in Octet /\ 4 \in Octet
    BY DEF Octet
  <2> DEFINE v == c.value
             code == 65
             size == 4
  <2>5. /\ <<code, size>> \o v \in Seq(Octet) /\ Len(<<code, size>> \o v) = 6
        /\ (<<code, size>> \o v)[1] = code
        /\ \A k \in 1..4 : (<<code, size>> \o v)[2 + k] = v[k]
    <3> HIDE DEF code, size
    <3>1. v \in Seq(Octet) /\ code \in Octet /\ size \in Octet
      BY <2>2, <2>4 DEF code, size
    <3>3. Len(v) = 4
      BY <2>2
    <3> HIDE DEF v
    <3>2. /\ <<code, size>> \o v \in Seq(Octet)
          /\ Len(<<code, size>> \o v) = 2 + Len(v)
          /\ (<<code, size>> \o v)[1] = code
          /\ \A k \in 1..Len(v) : (<<code, size>> \o v)[2 + k] = v[k]
      BY <3>1, TwoAhead
    <3> QED
      BY <3>2, <3>3
  <2> QED
    BY <2>1, <2>3, <2>5
<1>3. CASE c = [kind |-> "RouteRefresh", value |-> <<>>]
  <2>1. c.kind = "RouteRefresh"
    BY <1>3
  <2>2. StandardCapability(c) = <<2, 0>>
    BY <2>1 DEF StandardCapability
  <2>3. <<2, 0>> \in Seq(Octet) /\ Len(<<2, 0>>) = 2
    BY DEF Octet
  <2> QED
    BY <2>1, <2>2, <2>3
<1> QED
  BY <1>1, <1>2, <1>3 DEF PeerCapability

\* The octets of the capabilities of a parameter begin with those of the first.
LEMMA ParameterBytes ==
  ASSUME NEW p \in Seq(PeerCapability), p # <<>>
  PROVE  LET b == StandardParameter(p) c == StandardCapability(p[1]) IN
         /\ b \in Seq(Nat) /\ (Len(b) <= 255 => b \in Seq(Octet)) /\ b[1] = 2 /\ b[2] = Len(b) - 2
         /\ p[1] \in PeerCapability
         /\ Len(c) + 2 <= Len(b)
         /\ \A x \in 1..Len(c) : b[2 + x] = c[x]
<1> DEFINE s == [k \in DOMAIN p |-> StandardCapability(p[k])]
           octets == Each(StandardCapability, p)
           c == StandardCapability(p[1])
<1>1. Len(p) \in Nat /\ Len(p) > 0 /\ DOMAIN p = 1..Len(p)
  BY LenProperties, EmptySeq
<1>2. \A k \in 1..Len(p) : p[k] \in PeerCapability
  BY ElementOfSeq
<1>3. \A k \in 1..Len(p) : StandardCapability(p[k]) \in Seq(Octet)
  BY <1>2, CapabilityBytes
<1>4. /\ s \in Seq(Seq(Octet)) /\ Len(s) = Len(p) /\ s[1] = c
      /\ octets = FlattenSeq(s)
  BY <1>1, <1>3 DEF Each
<1>5. 1 \in 1..Len(p) /\ 1 - 1 = 0 /\ 0 \in 0..Len(p) /\ 1 \in 0..Len(p)
      /\ Len(p) \in 0..Len(p)
  BY <1>1
<1> HIDE DEF s, octets
<1>6. /\ octets \in Seq(Octet) /\ Before(s, 0) = 0
      /\ Before(s, Len(s)) = Len(octets)
      /\ Before(s, 1) = Before(s, 0) + Len(s[1])
      /\ Before(s, 1) <= Before(s, Len(s))
      /\ \A x \in 1..Len(s[1]) : octets[Before(s, 0) + x] = s[1][x]
  <2>1. s \in Seq(Seq(Octet)) /\ Len(s) = Len(p) /\ octets = FlattenSeq(s)
    BY <1>4
  <2>2. /\ FlattenSeq(s) \in Seq(Octet) /\ Before(s, 0) = 0
        /\ Before(s, Len(s)) = Len(FlattenSeq(s))
        /\ \A k, j \in 0..Len(s) : k <= j => Before(s, k) <= Before(s, j)
    BY <2>1, FlattenLayout
  <2>3. \A k \in 1..Len(s) :
          /\ Before(s, k) = Before(s, k - 1) + Len(s[k])
          /\ \A x \in 1..Len(s[k]) :
               FlattenSeq(s)[Before(s, k - 1) + x] = s[k][x]
    BY <2>1, FlattenLayout
  <2>4. 1 <= Len(p)
    BY <1>1
  <2> QED
    BY <1>5, <2>1, <2>2, <2>3, <2>4
<1>7. p[1] \in PeerCapability /\ c \in Seq(Octet) /\ Len(c) \in Nat
  BY <1>2, <1>3, <1>5, LenProperties
<1>8. Len(octets) \in Nat /\ Len(c) <= Len(octets)
      /\ \A x \in 1..Len(c) : octets[x] = c[x]
  <2>1. Len(octets) \in Nat
    BY <1>6, LenProperties
  <2>2. Len(c) <= Len(octets)
    BY <1>4, <1>6, <1>7
  <2>3. ASSUME NEW x \in 1..Len(c) PROVE octets[x] = c[x]
    <3>1. Before(s, 0) + x = x
      BY <1>6, <1>7
    <3> QED
      BY <1>4, <1>6, <3>1
  <2> QED
    BY <2>1, <2>2, <2>3
<1> DEFINE b == <<2, Len(octets)>> \o octets
<1>9. StandardParameter(p) = b
  BY DEF StandardParameter, octets
<1>10. octets \in Seq(Nat)
  BY <1>6, OctetsAreNumbers
<1>11. /\ b \in Seq(Nat) /\ Len(b) = 2 + Len(octets)
       /\ b[1] = 2 /\ b[2] = Len(octets)
       /\ \A x \in 1..Len(octets) : b[2 + x] = octets[x]
  BY <1>8, <1>10, TwoAhead
<1>12. Len(b) <= 255 => Len(octets) \in Octet
  <2> SUFFICES ASSUME Len(b) <= 255 PROVE Len(octets) \in Octet
    OBVIOUS
  <2> HIDE DEF b
  <2>1. Len(octets) \in Nat /\ Len(b) = 2 + Len(octets) /\ Len(b) <= 255
    BY <1>8, <1>9, <1>11
  <2> DEFINE n == Len(octets)
             m == Len(b)
  <2>2. n \in Nat /\ m = 2 + n /\ m <= 255
    BY <2>1
  <2> HIDE DEF n, m
  <2>3. n \in 0..255
    BY <2>2
  <2> QED
    BY <2>3 DEF Octet, n
<1>13. 2 \in Octet
  BY DEF Octet
<1>14. Len(b) <= 255 => b \in Seq(Octet)
  BY <1>6, <1>12, <1>13, TwoAhead
<1> HIDE DEF b
<1>15. \A x \in 1..Len(c) : b[2 + x] = c[x]
  BY <1>7, <1>8, <1>11, SMTT(30)
<1>16. b[2] = Len(b) - 2 /\ Len(c) + 2 <= Len(b)
  BY <1>7, <1>8, <1>11
<1> QED
  BY <1>7, <1>9, <1>11, <1>14, <1>15, <1>16

-----------------------------------------------------------------------------
(* The loop over the parameters.                                           *)

\* What ParameterIndexes computes at i, and the function it is computed with.
IndexesAt(f, buf, i) ==
  IF i >= Len(buf) THEN <<>>
  ELSE IF ~Has(buf, i + 2) THEN <<i>>
  ELSE <<i>> \o f[i + 2 + At(buf, i + 1)]

Indexes(f, buf, lowest) ==
  f = [i \in lowest..(Len(buf) + 257) |-> IndexesAt(f, buf, i)]

LEMMA IndexesExist ==
  ASSUME NEW buf \in Seq(Octet), Len(buf) >= 29
  PROVE  \E f : Indexes(f, buf, 29)
<1> DEFINE n == Len(buf)
           top == n + 257
           Good == {d \in Nat : d <= top => \E f : Indexes(f, buf, top - d)}
<1>1. n \in Nat /\ n >= 29 /\ top \in Nat /\ top = n + 257
  BY LenProperties
<1>2. \A i \in 1..n : buf[i] \in Nat /\ buf[i] <= 255
  <2>1. ASSUME NEW i \in 1..n PROVE buf[i] \in Nat /\ buf[i] <= 255
    <3>1. buf[i] \in Octet
      BY ElementOfSeq
    <3> QED
      BY <3>1, OctetValue
  <2> QED
    BY <2>1
<1>3. \A f, lowest : Indexes(f, buf, lowest) <=>
                       f = [i \in lowest..top |-> IndexesAt(f, buf, i)]
  BY DEF Indexes
<1> HIDE DEF n, top
<1>4. 0 \in Good
  <2> DEFINE f == [i \in top..top |-> <<>>]
  <2>1. ASSUME NEW i \in top..top PROVE IndexesAt(f, buf, i) = <<>>
    <3>1. i >= Len(buf)
      BY <1>1 DEF n
    <3> QED
      BY <3>1 DEF IndexesAt
  <2>2. f = [i \in top..top |-> IndexesAt(f, buf, i)]
    BY <2>1
  <2>3. top - 0 = top
    BY <1>1
  <2> HIDE DEF f
  <2>4. Indexes(f, buf, top - 0)
    BY <1>3, <2>2, <2>3
  <2> QED
    BY <2>4
<1>5. ASSUME NEW d \in Nat, d \in Good PROVE d + 1 \in Good
  <2> SUFFICES ASSUME d + 1 <= top
               PROVE  \E f : Indexes(f, buf, top - (d + 1))
    OBVIOUS
  <2>1. d <= top
    BY <1>1
  <2>2. PICK f : Indexes(f, buf, top - d)
    BY <1>5, <2>1
  <2> DEFINE low == top - (d + 1)
             g == [i \in low..top |->
                     IF i = low THEN IndexesAt(f, buf, low) ELSE f[i]]
  <2>3. low \in Nat /\ low + 1 = top - d /\ low <= top
    BY <1>1
  <2> HIDE DEF low
  <2>4. f = [i \in (low + 1)..top |-> IndexesAt(f, buf, i)]
    BY <1>3, <2>2, <2>3
  <2>5. \A i \in (low + 1)..top : g[i] = f[i] /\ f[i] = IndexesAt(f, buf, i)
    <3>1. ASSUME NEW i \in (low + 1)..top
          PROVE  g[i] = f[i] /\ f[i] = IndexesAt(f, buf, i)
      <4>1. i \in low..top /\ i # low
        BY <1>1, <2>3
      <4>2. f[i] = IndexesAt(f, buf, i)
        <5> DEFINE Value(j) == IndexesAt(f, buf, j)
        <5>1. f = [j \in (low + 1)..top |-> Value(j)]
          BY <2>4
        <5> HIDE DEF Value
        <5>2. f[i] = Value(i)
          BY <5>1
        <5> QED
          BY <5>2 DEF Value
      <4> QED
        BY <4>1, <4>2
    <3> QED
      BY <3>1
  <2>6. g[low] = IndexesAt(f, buf, low)
    BY <1>1, <2>3
  <2>7. g = [i \in low..top |-> g[i]]
    OBVIOUS
  <2> HIDE DEF g
  <2>8. ASSUME NEW i \in low..top
        PROVE  IndexesAt(g, buf, i) = IndexesAt(f, buf, i)
    <3>1. CASE i >= Len(buf) \/ ~Has(buf, i + 2)
      BY <3>1 DEF IndexesAt
    <3>2. CASE ~(i >= Len(buf)) /\ Has(buf, i + 2)
      <4>1. i \in Nat /\ i >= low /\ i + 2 <= n /\ i + 2 \in 1..n
        BY <1>1, <2>3, <3>2 DEF Has, n
      <4>2. At(buf, i + 1) \in Nat /\ At(buf, i + 1) <= 255
        <5>1. i + 1 + 1 = i + 2
          BY <4>1
        <5> QED
          BY <1>2, <4>1, <5>1 DEF At
      <4> DEFINE next == i + 2 + At(buf, i + 1)
      <4>3. next \in (low + 1)..top
        BY <1>1, <2>3, <4>1, <4>2
      <4>4. g[next] = f[next]
        BY <2>5, <4>3
      <4> QED
        BY <4>4 DEF IndexesAt
    <3> QED
      BY <3>1, <3>2
  <2>9. ASSUME NEW i \in low..top PROVE g[i] = IndexesAt(g, buf, i)
    <3>1. i = low \/ i \in (low + 1)..top
      BY <1>1, <2>3
    <3> QED
      BY <2>5, <2>6, <2>8, <3>1
  <2>10. g = [i \in low..top |-> IndexesAt(g, buf, i)]
    BY <2>7, <2>9
  <2>11. Indexes(g, buf, low)
    BY <1>3, <2>10
  <2> QED
    BY <2>11 DEF low
<1> HIDE DEF Good
<1>6. top - 29 \in Good
  <2>1. top - 29 \in Nat
    BY <1>1
  <2> QED
    BY <1>4, <1>5, <2>1, InductionOnNat
<1>7. top - (top - 29) = 29 /\ top - 29 <= top
  BY <1>1
<1> QED
  BY <1>6, <1>7 DEF Good

LEMMA ParameterIndexesDef ==
  ASSUME NEW buf \in Seq(Octet), Len(buf) >= 29
  PROVE  \E f : Indexes(f, buf, 29) /\ ParameterIndexes(buf) = f[29]
<1> DEFINE from == CHOOSE f : Indexes(f, buf, 29)
<1>1. Indexes(from, buf, 29)
  BY IndexesExist, Zenon
<1>2. ParameterIndexes(buf) = from[29]
  BY DEF ParameterIndexes, Indexes, IndexesAt
<1> HIDE DEF from
<1> QED
  BY <1>1, <1>2

\* Each parameter says where the next begins, and the last where the buffer ends.
Chained(buf, n, at) ==
  /\ at[1] = 29 /\ at[n + 1] = Len(buf)
  /\ \A k \in 1..(n + 1) : at[k] \in Nat /\ at[k] >= 29 /\ at[k] <= Len(buf)
  /\ \A k \in 1..n : /\ at[k] + 2 <= Len(buf)
                     /\ at[k + 1] = at[k] + 2 + At(buf, at[k] + 1)

\* Then these are the indexes found.
LEMMA IndexesFound ==
  \A buf \in Seq(Octet), n \in Nat : \A at :
    Chained(buf, n, at) => ParameterIndexes(buf) = [k \in 1..n |-> at[k]]
<1> SUFFICES ASSUME NEW buf \in Seq(Octet), NEW n \in Nat, NEW at,
                    Chained(buf, n, at)
             PROVE  ParameterIndexes(buf) = [k \in 1..n |-> at[k]]
  OBVIOUS
<1> USE DEF Chained
<1> DEFINE top == Len(buf) + 257
<1>1. Len(buf) \in Nat /\ Len(buf) >= 29
  <2>1. n + 1 \in 1..(n + 1)
    OBVIOUS
  <2> QED
    BY <2>1
<1>2. PICK f : Indexes(f, buf, 29) /\ ParameterIndexes(buf) = f[29]
  BY <1>1, ParameterIndexesDef
<1>3. ASSUME NEW i \in 29..top PROVE f[i] = IndexesAt(f, buf, i)
  <2> DEFINE Value(j) == IndexesAt(f, buf, j)
  <2>1. f = [j \in 29..top |-> Value(j)]
    BY <1>2 DEF Indexes
  <2> HIDE DEF Value
  <2>2. f[i] = Value(i)
    BY <2>1
  <2> QED
    BY <2>2 DEF Value
<1>4. \A k \in 1..(n + 1) : at[k] \in 29..top
  BY <1>1
<1> DEFINE Rest(d) == [x \in 1..d |-> at[n - d + x]]
           Good == {d \in Nat : d <= n => f[at[n + 1 - d]] = Rest(d)}
<1> HIDE DEF top
<1>5. 0 \in Good
  <2>1. n + 1 - 0 = n + 1 /\ n + 1 \in 1..(n + 1)
    OBVIOUS
  <2>2. f[at[n + 1]] = <<>>
    BY <1>1, <1>3, <1>4, <2>1 DEF IndexesAt
  <2>3. Rest(0) = <<>>
    OBVIOUS
  <2> QED
    BY <2>1, <2>2, <2>3
<1>6. ASSUME NEW d \in Nat, d \in Good PROVE d + 1 \in Good
  <2> SUFFICES ASSUME d + 1 <= n PROVE f[at[n + 1 - (d + 1)]] = Rest(d + 1)
    OBVIOUS
  <2> DEFINE k == n - d
  <2>1. /\ k \in 1..n /\ k \in 1..(n + 1) /\ k + 1 \in 1..(n + 1)
        /\ n + 1 - (d + 1) = k /\ n + 1 - d = k + 1 /\ d <= n
    OBVIOUS
  <2>2. f[at[k + 1]] = Rest(d)
    BY <1>6, <2>1
  <2> HIDE DEF k
  <2>3. /\ at[k] \in Nat /\ at[k] + 2 <= Len(buf)
        /\ at[k + 1] = at[k] + 2 + At(buf, at[k] + 1)
    BY <2>1
  <2>4. ~(at[k] >= Len(buf)) /\ Has(buf, at[k] + 2)
    BY <1>1, <2>3 DEF Has
  <2>5. f[at[k]] = <<at[k]>> \o Rest(d)
    <3>1. f[at[k]] = IndexesAt(f, buf, at[k])
      BY <1>3, <1>4, <2>1
    <3> QED
      BY <2>2, <2>3, <2>4, <3>1 DEF IndexesAt
  <2>6. Rest(d) \in Seq(Nat) /\ Len(Rest(d)) = d
    <3>1. ASSUME NEW x \in 1..d PROVE at[n - d + x] \in Nat
      <4>1. n - d + x \in 1..(n + 1)
        BY <2>1
      <4> QED
        BY <4>1
    <3> QED
      BY <3>1
  <2>7. Rest(d + 1) \in Seq(Nat) /\ Len(Rest(d + 1)) = d + 1
    <3>1. ASSUME NEW x \in 1..(d + 1) PROVE at[n - (d + 1) + x] \in Nat
      <4>1. n - (d + 1) + x \in 1..(n + 1)
        BY <2>1
      <4> QED
        BY <4>1
    <3> QED
      BY <3>1
  <2> DEFINE h == <<at[k]>>
             r == Rest(d)
  <2>8. h \in Seq(Nat) /\ Len(h) = 1 /\ h[1] = at[k]
    BY <2>3
  <2>8a. h \in Seq(Nat)
    BY <2>8
  <2>9. \A x \in 1..d : r[x] = at[n - d + x]
    OBVIOUS
  <2>10. \A x \in 1..(d + 1) : Rest(d + 1)[x] = at[n - (d + 1) + x]
    OBVIOUS
  <2> HIDE DEF Rest, h, r
  <2>11. /\ h \o r \in Seq(Nat) /\ Len(h \o r) = d + 1 /\ (h \o r)[1] = at[k]
         /\ \A x \in 1..d : (h \o r)[1 + x] = r[x]
    <3>0. Len(r) = d
      BY <2>6 DEF r
    <3>1. r \in Seq(Nat)
      BY <2>6 DEF r
    <3>2. 1 \in 1..Len(h)
      BY <2>8
    <3>3. /\ h \o r \in Seq(Nat) /\ Len(h \o r) = Len(h) + Len(r)
          /\ (h \o r)[1] = h[1]
          /\ \A x \in 1..Len(r) : (h \o r)[Len(h) + x] = r[x]
      BY <2>8a, <3>1, <3>2, Joined
    <3>4. Len(h) = 1 /\ h[1] = at[k]
      BY <2>8
    <3>5. Len(h \o r) = d + 1 /\ (h \o r)[1] = at[k]
      BY <3>0, <3>3, <3>4
    <3>6. ASSUME NEW x \in 1..d PROVE (h \o r)[1 + x] = r[x]
      BY <3>0, <3>3, <3>4
    <3> QED
      BY <3>3, <3>5, <3>6
  <2>12. ASSUME NEW x \in 1..(d + 1) PROVE (h \o r)[x] = Rest(d + 1)[x]
    <3>1. CASE x = 1
      <4>1. n - (d + 1) + x = k
        BY <3>1 DEF k
      <4> QED
        BY <2>10, <2>11, <3>1, <4>1
    <3>2. CASE x # 1
      <4>1. /\ x - 1 \in 1..d /\ 1 + (x - 1) = x
            /\ n - d + (x - 1) = n - (d + 1) + x
        BY <3>2
      <4>2. (h \o r)[x] = r[x - 1]
        BY <2>11, <4>1
      <4>3. r[x - 1] = at[n - (d + 1) + x]
        BY <2>9, <4>1
      <4> QED
        BY <2>10, <4>2, <4>3
    <3> QED
      BY <3>1, <3>2
  <2>13. h \o r = Rest(d + 1)
    BY <2>7, <2>11, <2>12, SeqEqual
  <2> QED
    BY <2>1, <2>5, <2>13 DEF h, r
<1>7. n \in Good
  <2> HIDE DEF Good
  <2> QED
    BY <1>5, <1>6, InductionOnNat
<1>8. n + 1 - n = 1 /\ \A x \in 1..n : n - n + x = x
  OBVIOUS
<1>9. f[29] = Rest(n)
  BY <1>7, <1>8
<1>10. Rest(n) = [x \in 1..n |-> at[x]]
  BY <1>8
<1> QED
  BY <1>2, <1>9, <1>10

-----------------------------------------------------------------------------
(* An Open as bytes.                                                       *)

LEMMA LengthField ==
  ASSUME NEW buf
  PROVE  U16At(buf, 16) = 256 * buf[17] + buf[18]
BY DEF U16At, At

LEMMA HeaderBytes ==
  ASSUME NEW type \in Octet, NEW length \in Nat, length < 256 * 256
  PROVE  /\ Header(type, length) \in Seq(Octet)
         /\ Len(Header(type, length)) = 19
         /\ U16At(Header(type, length), 16) = length
<1> DEFINE marker == [k \in 1..16 |-> 255]
           high == (length \div 256) % 256
           low == length % 256
           both == <<high, low>>
           last == <<type>>
<1>1. high \in 0..255 /\ low \in 0..255 /\ 256 * high + low = length
  OBVIOUS
<1>2. Header(type, length) = marker \o both \o last
  BY DEF Header, U16
<1>3. marker \in Seq(Octet) /\ Len(marker) = 16
  <2>1. marker \in [1..16 -> Octet]
    BY DEF Octet
  <2>2. marker \in Seq(Octet)
    BY <2>1, SeqDef
  <2>3. DOMAIN marker = 1..16
    OBVIOUS
  <2> DEFINE m == Len(marker)
  <2>4. DOMAIN marker = 1..m /\ m \in Nat
    BY <2>2, LenProperties
  <2>5. 1..m = 1..16 /\ m \in Nat
    BY <2>3, <2>4
  <2> HIDE DEF marker, m
  <2>6. m = 16
    BY <2>5
  <2> QED
    BY <2>2, <2>6 DEF m
<1>4. high \in Octet /\ low \in Octet
  BY <1>1 DEF Octet
<1> HIDE DEF marker, high, low
<1>5. both \in Seq(Octet) /\ Len(both) = 2 /\ both[1] = high /\ both[2] = low
  BY <1>4
<1>6. last \in Seq(Octet) /\ Len(last) = 1
  OBVIOUS
<1> HIDE DEF both, last
<1> DEFINE front == marker \o both
<1>7. front \in Seq(Octet) /\ Len(front) = 18 /\ front[17] = high /\ front[18] = low
  <2>1. marker \in Seq(Octet) /\ both \in Seq(Octet)
    BY <1>3, <1>5
  <2>2. /\ front \in Seq(Octet) /\ Len(front) = Len(marker) + Len(both)
        /\ \A k \in 1..Len(both) : front[Len(marker) + k] = both[k]
    BY <2>1, Joined
  <2>3. 1 \in 1..Len(both) /\ 2 \in 1..Len(both)
    BY <1>5
  <2>4. front[Len(marker) + 1] = both[1] /\ front[Len(marker) + 2] = both[2]
    BY <2>2, <2>3
  <2> QED
    BY <1>3, <1>5, <2>2, <2>4
<1> HIDE DEF front
<1>8. /\ front \o last \in Seq(Octet) /\ Len(front \o last) = 19
      /\ (front \o last)[17] = high /\ (front \o last)[18] = low
  <2>1. front \in Seq(Octet) /\ last \in Seq(Octet)
    BY <1>6, <1>7
  <2>2. /\ front \o last \in Seq(Octet)
        /\ Len(front \o last) = Len(front) + Len(last)
        /\ \A k \in 1..Len(front) : (front \o last)[k] = front[k]
    BY <2>1, Joined
  <2>3. 17 \in 1..Len(front) /\ 18 \in 1..Len(front)
    BY <1>7
  <2>4. (front \o last)[17] = front[17] /\ (front \o last)[18] = front[18]
    BY <2>2, <2>3
  <2> QED
    BY <1>6, <1>7, <2>2, <2>4
<1> DEFINE all == front \o last
<1>9. Header(type, length) = all
  BY <1>2 DEF front
<1>10. /\ all \in Seq(Octet) /\ Len(all) = 19 /\ all[17] = high
       /\ all[18] = low
  BY <1>8
<1> HIDE DEF all
<1>11. U16At(all, 16) = length
  <2>1. U16At(all, 16) = 256 * all[17] + all[18]
    BY LengthField
  <2> QED
    BY <1>1, <1>10, <2>1
<1> QED
  BY <1>9, <1>10, <1>11

LEMMA OpenLayout ==
  ASSUME NEW parameters \in Seq(Octet), Len(parameters) <= 255
  PROVE  LET buf == OpenBytes(parameters) IN
         /\ buf \in Seq(Octet) /\ Len(parameters) \in Nat
         /\ Len(buf) = 29 + Len(parameters)
         /\ U16At(buf, 16) = 29 + Len(parameters)
         /\ At(buf, 28) = Len(parameters)
         /\ \A x \in 1..Len(parameters) : buf[29 + x] = parameters[x]
<1> DEFINE n == Len(parameters)
           h == Header(1, 29 + n)
           count == <<n>>
           a == h \o OpenBody
           b == a \o count
           c == b \o parameters
<1>1. n \in Nat /\ n <= 255
  BY LenProperties
<1>2. 1 \in Octet /\ 29 + n \in Nat /\ 29 + n < 256 * 256 /\ n \in Octet
  <2> HIDE DEF n
  <2>1. 1 \in Octet
    BY DEF Octet
  <2>2. 29 + n \in Nat /\ 29 + n < 256 * 256
    BY <1>1
  <2>3. n \in Octet
    BY <1>1 DEF Octet
  <2> QED
    BY <2>1, <2>2, <2>3
<1>3. h \in Seq(Octet) /\ Len(h) = 19 /\ U16At(h, 16) = 29 + n
  BY <1>2, HeaderBytes
<1>4. OpenBody \in Seq(Octet) /\ Len(OpenBody) = 9
  BY DEF OpenBody, Octet
<1>5. count \in Seq(Octet) /\ Len(count) = 1 /\ count[1] = n
  BY <1>2
<1>6. OpenBytes(parameters) = c
  BY DEF OpenBytes
<1>7. h \in Seq(Octet) /\ OpenBody \in Seq(Octet) /\ count \in Seq(Octet)
  BY <1>3, <1>4, <1>5
<1> HIDE DEF n, h, count, a, b, c
<1>8. /\ a \in Seq(Octet) /\ Len(a) = 28
      /\ \A k \in 1..19 : a[k] = h[k]
  <2>1. /\ a \in Seq(Octet) /\ Len(a) = Len(h) + Len(OpenBody)
        /\ \A k \in 1..Len(h) : a[k] = h[k]
    BY <1>7, Joined DEF a
  <2> QED
    BY <1>3, <1>4, <2>1
<1>9. /\ b \in Seq(Octet) /\ Len(b) = 29 /\ b[29] = n
      /\ \A k \in 1..28 : b[k] = a[k]
  <2>1. a \in Seq(Octet)
    BY <1>8
  <2>2. /\ b \in Seq(Octet) /\ Len(b) = Len(a) + Len(count)
        /\ \A k \in 1..Len(a) : b[k] = a[k]
        /\ \A k \in 1..Len(count) : b[Len(a) + k] = count[k]
    BY <1>7, <2>1, Joined DEF b
  <2>3. 1 \in 1..Len(count)
    BY <1>5
  <2>4. b[Len(a) + 1] = count[1]
    BY <2>2, <2>3
  <2> QED
    BY <1>5, <1>8, <2>2, <2>4
<1>10. /\ c \in Seq(Octet) /\ Len(c) = 29 + n
       /\ \A k \in 1..29 : c[k] = b[k]
       /\ \A k \in 1..n : c[29 + k] = parameters[k]
  <2>1. b \in Seq(Octet)
    BY <1>9
  <2>2. /\ c \in Seq(Octet) /\ Len(c) = Len(b) + Len(parameters)
        /\ \A k \in 1..Len(b) : c[k] = b[k]
        /\ \A k \in 1..Len(parameters) : c[Len(b) + k] = parameters[k]
    BY <2>1, Joined DEF c
  <2> QED
    BY <1>9, <2>2 DEF n
<1>11. c[17] = h[17] /\ c[18] = h[18] /\ c[29] = n
  <2>1. 17 \in 1..19 /\ 18 \in 1..19 /\ 17 \in 1..28 /\ 18 \in 1..28
        /\ 17 \in 1..29 /\ 18 \in 1..29 /\ 29 \in 1..29
    OBVIOUS
  <2>2. c[17] = b[17] /\ c[18] = b[18] /\ c[29] = b[29]
    BY <1>10, <2>1
  <2>3. b[17] = a[17] /\ b[18] = a[18]
    BY <1>9, <2>1
  <2>4. a[17] = h[17] /\ a[18] = h[18]
    BY <1>8, <2>1
  <2> QED
    BY <1>9, <2>2, <2>3, <2>4
<1>12. U16At(c, 16) = U16At(h, 16)
  BY <1>11, LengthField
<1>13. At(c, 28) = n
  BY <1>11 DEF At
<1> QED
  BY <1>1, <1>3, <1>6, <1>10, <1>12, <1>13 DEF n

-----------------------------------------------------------------------------
(* A peer's Open is read as it means.                                      *)

LEMMA CapabilityRecord ==
  ASSUME NEW c \in PeerCapability
  PROVE  /\ c = [kind |-> c.kind, value |-> c.value]
         /\ c.kind \in {"MP", "AS4", "RouteRefresh"}
<1>1. CASE c \in [kind : {"MP"}, value : Octet \X Octet]
  BY <1>1
<1>2. CASE c \in [kind : {"AS4"}, value : [1..4 -> Octet]]
  BY <1>2
<1>3. CASE c = [kind |-> "RouteRefresh", value |-> <<>>]
  BY <1>3
<1> QED
  BY <1>1, <1>2, <1>3 DEF PeerCapability

\* Where the buffer has a parameter, its first capability is read.
LEMMA ParameterRead ==
  ASSUME NEW p \in Seq(PeerCapability), p # <<>>,
         NEW buf \in Seq(Octet), NEW i \in Nat,
         i + Len(StandardParameter(p)) <= Len(buf),
         \A x \in 1..Len(StandardParameter(p)) :
           buf[i + x] = StandardParameter(p)[x]
  PROVE  /\ ParameterError(buf, i) <=> ~KnownCapability(Head(p))
         /\ CapabilityAt(buf, i) = FirstCapability(p)
<1> DEFINE b == StandardParameter(p)
           first == p[1]
           c == StandardCapability(first)
           m == Len(b)
           l == Len(c)
           top == Len(buf)
<1>1. /\ b \in Seq(Nat) /\ b[1] = 2 /\ first \in PeerCapability
      /\ l + 2 <= m
      /\ \A x \in 1..l : b[2 + x] = c[x]
  BY ParameterBytes
<1>2. m \in Nat /\ top \in Nat /\ l \in {2, 6}
  BY <1>1, LenProperties, CapabilityBytes
<1>3. Head(p) = first
  OBVIOUS
<1>4. \A x \in 1..m : buf[i + x] = b[x]
  OBVIOUS
<1>5. i + m <= top
  OBVIOUS
<1>6. first = [kind |-> first.kind, value |-> first.value]
      /\ first.kind \in {"MP", "AS4", "RouteRefresh"}
  BY <1>1, CapabilityRecord
<1>7. /\ first.kind = "MP" =>
           /\ l = 6 /\ first.value \in Octet \X Octet
           /\ c = <<1, 4, 0, first.value[1], 0, first.value[2]>>
      /\ first.kind = "AS4" =>
           /\ l = 6 /\ first.value \in [1..4 -> Octet] /\ c[1] = 65
           /\ \A k \in 1..4 : c[2 + k] = first.value[k]
      /\ first.kind \notin {"MP", "AS4"} => l = 2 /\ c[1] = 2
  BY <1>1, CapabilityBytes
<1> HIDE DEF b, first, c, m, l, top
<1>8. At(buf, i) = 2
  <2>1. 1 \in 1..m
    BY <1>1, <1>2
  <2> QED
    BY <1>1, <1>4, <2>1 DEF At
<1>9. \A x \in 1..l : buf[i + 2 + x] = c[x]
  <2>1. ASSUME NEW x \in 1..l PROVE buf[i + 2 + x] = c[x]
    <3>1. 2 + x \in 1..m /\ i + 2 + x = i + (2 + x)
      BY <1>1, <1>2
    <3>2. buf[i + (2 + x)] = b[2 + x]
      BY <1>4, <3>1
    <3> QED
      BY <1>1, <3>1, <3>2
  <2> QED
    BY <2>1
<1>10. Has(buf, i + 3) /\ (l = 6 => Has(buf, i + 8))
  BY <1>1, <1>2, <1>5 DEF Has, top
<1>11. At(buf, i + 2) = c[1]
  <2>1. 1 \in 1..l
    BY <1>2
  <2>2. buf[i + 2 + 1] = c[1]
    BY <1>9, <2>1
  <2> QED
    BY <2>2 DEF At
<1>12. CASE first.kind = "MP"
  <2> DEFINE v == first.value[1]
             w == first.value[2]
  <2>1. /\ l = 6 /\ v \in Octet /\ w \in Octet /\ first.value = <<v, w>>
        /\ c[1] = 1 /\ c[3] = 0 /\ c[4] = v /\ c[6] = w
    BY <1>7, <1>12
  <2> HIDE DEF v, w
  <2>2. v \in Nat
    BY <2>1, OctetValue
  <2>3. /\ buf[i + 2 + 3] = 0 /\ buf[i + 2 + 4] = v /\ buf[i + 2 + 6] = w
    <3>1. 3 \in 1..l /\ 4 \in 1..l /\ 6 \in 1..l
      BY <2>1
    <3> QED
      BY <1>9, <2>1, <3>1
  <2>4. U16At(buf, i + 4) = v
    <3>1. i + 4 + 1 = i + 2 + 3 /\ i + 4 + 1 + 1 = i + 2 + 4
      OBVIOUS
    <3>2. At(buf, i + 4) = 0 /\ At(buf, i + 4 + 1) = v
      BY <2>3, <3>1 DEF At
    <3> QED
      BY <2>2, <3>2 DEF U16At
  <2>5. At(buf, i + 7) = w
    <3>1. i + 7 + 1 = i + 2 + 6
      OBVIOUS
    <3> QED
      BY <2>3, <3>1 DEF At
  <2>6. ParameterError(buf, i) <=> <<v, w>> \notin Range(Families)
    BY <1>8, <1>10, <1>11, <2>1, <2>4, <2>5 DEF ParameterError
  <2>7. KnownCapability(first) <=> <<v, w>> \in Range(Families)
    BY <1>12, <2>1 DEF KnownCapability
  <2>8. CapabilityAt(buf, i) = <<MP(v, w)>>
    BY <1>11, <2>1, <2>4, <2>5, SMTT(30) DEF CapabilityAt
  <2>9. MP(v, w) = first
    BY <1>6, <1>12, <2>1 DEF MP
  <2>10. FirstCapability(p) = <<first>>
    BY <1>3, <1>12 DEF FirstCapability
  <2> QED
    BY <1>3, <2>6, <2>7, <2>8, <2>9, <2>10
<1>13. CASE first.kind = "AS4"
  <2> DEFINE v == first.value
             r == SubSeq(buf, i + 5, i + 8)
  <2>1. /\ l = 6 /\ v \in [1..4 -> Octet] /\ c[1] = 65
        /\ \A k \in 1..4 : c[2 + k] = v[k]
    BY <1>7, <1>13
  <2>2. v \in Seq(Octet) /\ Len(v) = 4
    BY <2>1, FourOctets
  <2>3. i + 8 <= Len(buf)
    BY <1>10, <2>1 DEF Has
  <2>4. /\ r \in Seq(Octet) /\ Len(r) = 4
        /\ \A k \in 1..4 : r[k] = buf[i + 4 + k]
    <3>1. i + 5 \in 1..(Len(buf) + 1) /\ i + 8 \in (i + 5 - 1)..Len(buf)
          /\ i + 8 - (i + 5) + 1 = 4
      BY <1>2, <2>3 DEF top
    <3>2. /\ r \in Seq(Octet) /\ Len(r) = i + 8 - (i + 5) + 1
          /\ \A k \in 1..(i + 8 - (i + 5) + 1) : r[k] = buf[i + 5 + k - 1]
      BY <3>1, SubSeqProperties
    <3>3. \A k \in 1..4 : i + 5 + k - 1 = i + 4 + k
      OBVIOUS
    <3> QED
      BY <3>1, <3>2, <3>3
  <2>5. ASSUME NEW k \in 1..4 PROVE r[k] = v[k]
    <3>1. 2 + k \in 1..l /\ i + 4 + k = i + 2 + (2 + k)
      BY <2>1
    <3>2. buf[i + 2 + (2 + k)] = c[2 + k]
      BY <1>9, <3>1
    <3> QED
      BY <2>1, <2>4, <3>1, <3>2
  <2> HIDE DEF v, r
  <2>6. r = v
    BY <2>2, <2>4, <2>5, SeqEqual
  <2>7. ~ParameterError(buf, i)
    BY <1>8, <1>10, <1>11, <2>1 DEF ParameterError
  <2>8. KnownCapability(first)
    BY <1>13 DEF KnownCapability
  <2>9. CapabilityAt(buf, i) = <<AS4(r)>>
    BY <1>11, <2>1 DEF CapabilityAt, r
  <2>10. AS4(v) = first
    BY <1>6, <1>13 DEF AS4, v
  <2>11. FirstCapability(p) = <<first>>
    BY <1>3, <1>13 DEF FirstCapability
  <2> QED
    BY <1>3, <2>6, <2>7, <2>8, <2>9, <2>10, <2>11
<1>14. CASE first.kind = "RouteRefresh"
  <2>1. l = 2 /\ c[1] = 2
    BY <1>7, <1>14
  <2>2. ~ParameterError(buf, i)
    BY <1>8, <1>10, <1>11, <2>1 DEF ParameterError
  <2>3. KnownCapability(first)
    BY <1>14 DEF KnownCapability
  <2>4. CapabilityAt(buf, i) = <<>>
    BY <1>11, <2>1 DEF CapabilityAt
  <2>5. FirstCapability(p) = <<>>
    BY <1>3, <1>14 DEF FirstCapability
  <2> QED
    BY <1>3, <2>2, <2>3, <2>4, <2>5
<1> QED
  BY <1>6, <1>12, <1>13, <1>14

\* The parameters of a peer's Open as one sequence of octets.
LEMMA ParametersLayout ==
  ASSUME NEW o \in PeerOpens
  PROVE  LET pieces == [k \in DOMAIN o |-> StandardParameter(o[k])]
             octets == Each(StandardParameter, o)
         IN
         /\ o \in Seq(Seq(PeerCapability) \ {<<>>})
         /\ \A k \in 1..Len(o) : o[k] \in Seq(PeerCapability) /\ o[k] # <<>>
         /\ octets \in Seq(Octet) /\ octets = FlattenSeq(pieces)
         /\ Len(octets) \in Nat /\ Len(octets) <= 255
         /\ pieces \in Seq(Seq(Octet)) /\ Len(pieces) = Len(o)
         /\ \A k \in 1..Len(o) :
              pieces[k] = StandardParameter(o[k]) /\ Len(pieces[k]) >= 4
<1> DEFINE pieces == [k \in DOMAIN o |-> StandardParameter(o[k])]
           octets == Each(StandardParameter, o)
           n == Len(o)
<1>1. o \in Seq(Seq(PeerCapability) \ {<<>>}) /\ Len(octets) <= 255
  BY MessagesConstants
<1>2. n \in Nat /\ DOMAIN o = 1..n
  BY <1>1, LenProperties
<1>3. \A k \in 1..n : o[k] \in Seq(PeerCapability) /\ o[k] # <<>>
  <2>1. ASSUME NEW k \in 1..n PROVE o[k] \in Seq(PeerCapability) \ {<<>>}
    BY <1>1, ElementOfSeq
  <2> QED
    BY <2>1
<1>4. ASSUME NEW k \in 1..n
      PROVE  /\ StandardParameter(o[k]) \in Seq(Nat)
             /\ (Len(StandardParameter(o[k])) <= 255 =>
                   StandardParameter(o[k]) \in Seq(Octet))
             /\ Len(StandardParameter(o[k])) >= 4
  <2> DEFINE p == o[k]
             b == StandardParameter(p)
             first == p[1]
             c == StandardCapability(first)
  <2>1. p \in Seq(PeerCapability) /\ p # <<>>
    BY <1>3
  <2> HIDE DEF p
  <2>2. /\ b \in Seq(Nat) /\ (Len(b) <= 255 => b \in Seq(Octet))
        /\ first \in PeerCapability /\ Len(c) + 2 <= Len(b)
    BY <2>1, ParameterBytes
  <2>3. Len(c) \in {2, 6} /\ Len(b) \in Nat
    BY <2>2, CapabilityBytes, LenProperties
  <2>4. Len(b) >= 4
    <3> DEFINE lc == Len(c)
               lb == Len(b)
    <3>1. lc \in {2, 6} /\ lb \in Nat /\ lc + 2 <= lb
      BY <2>2, <2>3
    <3> HIDE DEF lc, lb
    <3>2. lb >= 4
      BY <3>1
    <3> QED
      BY <3>2 DEF lb
  <2> QED
    BY <2>2, <2>4 DEF p
<1>5. /\ pieces \in Seq(Seq(Nat)) /\ Len(pieces) = n
      /\ \A k \in 1..n : pieces[k] = StandardParameter(o[k])
  BY <1>2, <1>4
<1>6. octets = FlattenSeq(pieces)
  BY DEF Each
<1> HIDE DEF pieces, octets, n
<1>7. /\ Before(pieces, 0) = 0 /\ Before(pieces, n) = Len(octets)
      /\ \A k \in 0..n : Before(pieces, k) \in Nat
      /\ \A k, j \in 0..n : k <= j => Before(pieces, k) <= Before(pieces, j)
      /\ \A k \in 1..n : Before(pieces, k) = Before(pieces, k - 1) + Len(pieces[k])
  <2>1. pieces \in Seq(Seq(Nat))
    BY <1>5
  <2> QED
    BY <1>5, <1>6, <2>1, FlattenLayout
<1>8. ASSUME NEW k \in 1..n PROVE pieces[k] \in Seq(Octet)
  <2> DEFINE u == Before(pieces, k - 1)
             v == Before(pieces, k)
             w == Len(octets)
             l == Len(pieces[k])
  <2>1. k \in 0..n /\ k - 1 \in 0..n /\ n \in 0..n /\ k <= n
    BY <1>2
  <2>2. u \in Nat /\ v \in Nat /\ v <= w /\ v = u + l /\ w <= 255 /\ w \in Nat
    BY <1>1, <1>7, <2>1
  <2>3. pieces[k] \in Seq(Nat)
    BY <1>4, <1>5
  <2>4. l \in Nat
    BY <2>3, LenProperties
  <2> HIDE DEF u, v, w, l
  <2>5. l <= 255
    BY <2>2, <2>4
  <2> QED
    BY <1>4, <1>5, <2>5 DEF l
<1>9. pieces \in Seq(Seq(Octet))
  <2>1. Len(pieces) \in Nat /\ pieces \in [1..n -> Seq(Nat)]
    BY <1>2, <1>5, LenProperties
  <2>2. pieces \in [1..n -> Seq(Octet)]
    BY <1>8, <2>1
  <2> QED
    BY <1>2, <2>2, SeqDef
<1>10. octets \in Seq(Octet)
  BY <1>6, <1>9, FlattenLayout
<1>11. Len(octets) \in Nat
  BY <1>10, LenProperties
<1>12. \A k \in 1..n : Len(pieces[k]) >= 4
  BY <1>4, <1>5
<1> QED
  BY <1>1, <1>3, <1>5, <1>6, <1>9, <1>10, <1>11, <1>12 DEF pieces, octets, n

LEMMA PeerOpenRead ==
  ASSUME NEW o \in PeerOpens
  PROVE  LET buf == StandardOpen(o) IN
         /\ buf \in Seq(Octet) /\ U16At(buf, 16) = Len(buf)
         /\ OpenError(buf) <=> \E k \in DOMAIN o : ~KnownCapability(Head(o[k]))
         /\ ExtractedParameters(buf) =
              IF o = <<>> THEN <<>> ELSE <<Each(FirstCapability, o)>>
<1> DEFINE pieces == [k \in DOMAIN o |-> StandardParameter(o[k])]
           octets == Each(StandardParameter, o)
           n == Len(o)
           l == Len(octets)
           buf == StandardOpen(o)
           top == Len(buf)
           B(k) == Before(pieces, k)
           at == [k \in 1..(n + 1) |-> 29 + B(k - 1)]
<1>1. /\ o \in Seq(Seq(PeerCapability) \ {<<>>})
      /\ \A k \in 1..n : o[k] \in Seq(PeerCapability) /\ o[k] # <<>>
      /\ octets \in Seq(Octet) /\ octets = FlattenSeq(pieces)
      /\ l \in Nat /\ l <= 255
      /\ pieces \in Seq(Seq(Octet)) /\ Len(pieces) = n
      /\ \A k \in 1..n : pieces[k] = StandardParameter(o[k])
      /\ \A k \in 1..n : Len(pieces[k]) >= 4
  BY ParametersLayout
<1>2. n \in Nat /\ DOMAIN o = 1..n
  BY <1>1, LenProperties
<1>3. buf = OpenBytes(octets)
  BY DEF StandardOpen
<1>4. \A k \in 1..(n + 1) : at[k] = 29 + B(k - 1)
  OBVIOUS
<1> HIDE DEF pieces, octets, n, l, buf, at, B
<1>5. /\ buf \in Seq(Octet) /\ top = 29 + l /\ U16At(buf, 16) = 29 + l
      /\ At(buf, 28) = l
      /\ \A x \in 1..l : buf[29 + x] = octets[x]
  BY <1>1, <1>3, OpenLayout DEF l
<1>6. /\ B(0) = 0 /\ B(n) = l
      /\ \A k \in 0..n : B(k) \in Nat
      /\ \A k, j \in 0..n : k <= j => B(k) <= B(j)
      /\ \A k \in 1..n : B(k) = B(k - 1) + Len(pieces[k])
      /\ \A k \in 1..n : \A x \in 1..Len(pieces[k]) :
           octets[B(k - 1) + x] = pieces[k][x]
  <2>1. pieces \in Seq(Seq(Octet)) /\ Len(pieces) = n /\ octets = FlattenSeq(pieces)
    BY <1>1
  <2>2. /\ Before(pieces, 0) = 0
        /\ Before(pieces, Len(pieces)) = Len(FlattenSeq(pieces))
        /\ \A k \in 0..Len(pieces) : Before(pieces, k) \in Nat
        /\ \A k, j \in 0..Len(pieces) :
             k <= j => Before(pieces, k) <= Before(pieces, j)
    BY <2>1, FlattenLayout
  <2>3. \A k \in 1..Len(pieces) :
          /\ Before(pieces, k) = Before(pieces, k - 1) + Len(pieces[k])
          /\ \A x \in 1..Len(pieces[k]) :
               FlattenSeq(pieces)[Before(pieces, k - 1) + x] = pieces[k][x]
    BY <2>1, FlattenLayout
  <2>4. /\ B(0) = 0 /\ B(n) = l
        /\ \A k \in 0..n : B(k) \in Nat
        /\ \A k, j \in 0..n : k <= j => B(k) <= B(j)
    BY <2>1, <2>2 DEF B, l
  <2>5. \A k \in 1..n : /\ B(k) = B(k - 1) + Len(pieces[k])
                       /\ \A x \in 1..Len(pieces[k]) :
                            octets[B(k - 1) + x] = pieces[k][x]
    BY <2>1, <2>3 DEF B
  <2> QED
    BY <2>4, <2>5
<1> HIDE DEF top
<1>7. ASSUME NEW k \in 1..n
      PROVE  /\ k \in 1..(n + 1) /\ k + 1 \in 1..(n + 1) /\ k + 1 - 1 = k
             /\ B(k - 1) \in Nat /\ Len(pieces[k]) \in Nat
             /\ B(k) = B(k - 1) + Len(pieces[k]) /\ B(k) <= l
             /\ \A x \in 1..Len(pieces[k]) : buf[29 + B(k - 1) + x] = pieces[k][x]
             /\ pieces[k][2] = Len(pieces[k]) - 2
  <2> DEFINE u == B(k - 1)
             w == Len(pieces[k])
  <2>1. /\ k \in 1..(n + 1) /\ k + 1 \in 1..(n + 1) /\ k + 1 - 1 = k
        /\ k - 1 \in 0..n /\ k \in 0..n /\ n \in 0..n /\ k <= n
    BY <1>2
  <2>2. u \in Nat /\ B(k) = u + w /\ B(k) <= l
    BY <1>6, <2>1
  <2>3. pieces[k] \in Seq(Octet)
    BY <1>1, ElementOfSeq
  <2>4. w \in Nat
    BY <2>3, LenProperties
  <2>5. pieces[k] = StandardParameter(o[k])
        /\ o[k] \in Seq(PeerCapability) /\ o[k] # <<>>
    BY <1>1
  <2>6. pieces[k][2] = w - 2
    BY <2>5, ParameterBytes
  <2>7. ASSUME NEW x \in 1..w PROVE buf[29 + u + x] = pieces[k][x]
    <3>1. octets[u + x] = pieces[k][x]
      BY <1>6
    <3> HIDE DEF u, w
    <3>2. u + x \in 1..l /\ 29 + u + x = 29 + (u + x)
      BY <1>1, <2>2, <2>4
    <3> QED
      BY <1>5, <3>1, <3>2
  <2> QED
    BY <2>1, <2>2, <2>4, <2>6, <2>7
<1>8. ParameterIndexes(buf) = [k \in 1..n |-> at[k]]
  <2>1. at[1] = 29
    <3>1. 1 \in 1..(n + 1) /\ 1 - 1 = 0
      BY <1>2
    <3> QED
      BY <1>4, <1>6, <3>1
  <2>2. at[n + 1] = top
    <3> DEFINE last == n + 1
    <3>2. last \in 1..(n + 1) /\ last - 1 = n
      BY <1>2
    <3> HIDE DEF last
    <3>3. at[last] = 29 + B(last - 1)
      BY <1>4, <3>2
    <3>4. at[last] = 29 + l
      BY <1>6, <3>2, <3>3
    <3> QED
      BY <1>5, <3>4 DEF last
  <2>3. ASSUME NEW k \in 1..(n + 1)
        PROVE  at[k] \in Nat /\ at[k] >= 29 /\ at[k] <= top
    <3>1. k - 1 \in 0..n /\ n \in 0..n /\ k - 1 <= n
      BY <1>2
    <3> DEFINE u == B(k - 1)
    <3>2. u \in Nat /\ u <= l
      BY <1>6, <3>1
    <3>3. at[k] = 29 + u
      BY <1>4
    <3> HIDE DEF u
    <3>4. 29 + u \in Nat /\ 29 + u >= 29 /\ 29 + u <= top
      BY <1>1, <1>5, <3>2
    <3> QED
      BY <3>3, <3>4
  <2>4. ASSUME NEW k \in 1..n
        PROVE  at[k] + 2 <= top /\ at[k + 1] = at[k] + 2 + At(buf, at[k] + 1)
    <3> DEFINE u == B(k - 1)
               v == B(k)
               w == Len(pieces[k])
    <3>1. at[k] = 29 + u /\ at[k + 1] = 29 + v
      BY <1>4, <1>7
    <3>2. /\ u \in Nat /\ w \in Nat /\ w >= 4 /\ v = u + w /\ v <= l
          /\ pieces[k][2] = w - 2
      BY <1>1, <1>7
    <3>3. 2 \in 1..w
      BY <3>2
    <3>4. buf[29 + u + 2] = w - 2
      BY <1>7, <3>2, <3>3
    <3> HIDE DEF u, v, w
    <3>5. 29 + u + 1 + 1 = 29 + u + 2
      BY <3>2
    <3>6. At(buf, at[k] + 1) = w - 2
      BY <3>1, <3>4, <3>5 DEF At
    <3>7. at[k] + 2 <= top
      <4>1. 29 + u + 2 <= 29 + l
        BY <1>1, <3>2
      <4> QED
        BY <1>5, <3>1, <4>1
    <3>8. at[k] + 2 + (w - 2) = at[k + 1]
      BY <3>1, <3>2
    <3> QED
      BY <3>6, <3>7, <3>8
  <2>5. top = Len(buf)
    BY DEF top
  <2>6. Chained(buf, n, at)
    <3> HIDE DEF top
    <3>1. /\ at[1] = 29 /\ at[n + 1] = Len(buf)
          /\ \A k \in 1..(n + 1) :
               at[k] \in Nat /\ at[k] >= 29 /\ at[k] <= Len(buf)
          /\ \A k \in 1..n : /\ at[k] + 2 <= Len(buf)
                             /\ at[k + 1] = at[k] + 2 + At(buf, at[k] + 1)
      BY <2>1, <2>2, <2>3, <2>4, <2>5
    <3> QED
      BY <3>1 DEF Chained
  <2> QED
    BY <1>2, <1>5, <2>6, IndexesFound
<1>9. ASSUME NEW k \in 1..n
      PROVE  /\ ParameterError(buf, at[k]) <=> ~KnownCapability(Head(o[k]))
             /\ CapabilityAt(buf, at[k]) = FirstCapability(o[k])
  <2> DEFINE i == at[k]
             p == o[k]
  <2>1. p \in Seq(PeerCapability) /\ p # <<>> /\ pieces[k] = StandardParameter(p)
    BY <1>1
  <2>2. i = 29 + B(k - 1)
    BY <1>4, <1>7
  <2>3. i \in Nat /\ i + Len(pieces[k]) <= top
    <3> DEFINE u == B(k - 1)
               v == B(k)
               w == Len(pieces[k])
    <3>1. u \in Nat /\ w \in Nat /\ v = u + w /\ v <= l /\ i = 29 + u
      BY <1>7, <2>2
    <3> HIDE DEF u, v, w, i
    <3>2. i \in Nat /\ i + w <= top
      BY <1>1, <1>5, <3>1
    <3> QED
      BY <3>2 DEF w
  <2>4. \A x \in 1..Len(pieces[k]) : buf[i + x] = pieces[k][x]
    BY <1>7, <2>2, SMTT(30)
  <2> HIDE DEF i, p
  <2>5. i + Len(StandardParameter(p)) <= Len(buf)
    BY <2>1, <2>3 DEF top
  <2>6. \A x \in 1..Len(StandardParameter(p)) :
          buf[i + x] = StandardParameter(p)[x]
    BY <2>1, <2>4
  <2>7. /\ ParameterError(buf, i) <=> ~KnownCapability(Head(p))
        /\ CapabilityAt(buf, i) = FirstCapability(p)
    BY <1>5, <2>1, <2>3, <2>5, <2>6, ParameterRead
  <2> QED
    BY <2>7 DEF i, p
<1>10. CASE o = <<>>
  <2>1. n = 0 /\ l = 0
    BY <1>2, <1>6, <1>10 DEF n
  <2>2. DOMAIN o = {}
    BY <1>2, <2>1
  <2>3. ~OpenError(buf)
    BY <1>5, <2>1 DEF OpenError, top
  <2>4. ExtractedParameters(buf) = <<>>
    BY <1>5, <2>1 DEF ExtractedParameters
  <2> QED
    BY <1>5, <1>10, <2>2, <2>3, <2>4 DEF buf, top
<1>11. CASE o # <<>>
  <2>1. n > 0
    BY <1>1, <1>2, <1>11, EmptySeq DEF n
  <2>2. l >= 4
    <3>1. 1 \in 1..n /\ 1 - 1 = 0 /\ B(1) <= l
      BY <1>2, <1>7, <2>1
    <3>2. B(1) = B(0) + Len(pieces[1]) /\ Len(pieces[1]) >= 4 /\ Len(pieces[1]) \in Nat
      BY <1>1, <1>6, <1>7, <3>1
    <3>3. B(1) >= 4 /\ B(1) \in Nat
      BY <1>6, <3>2
    <3> QED
      BY <1>1, <3>1, <3>3
  <2> DEFINE idx == [k \in 1..n |-> at[k]]
  <2>3. DOMAIN idx = 1..n /\ \A k \in 1..n : idx[k] = at[k]
    OBVIOUS
  <2> HIDE DEF idx
  <2>4. ParameterIndexes(buf) = idx
    BY <1>8 DEF idx
  <2>5. OpenError(buf) <=> \E k \in DOMAIN o : ~KnownCapability(Head(o[k]))
    <3>1. OpenError(buf) <=> \E i \in Range(idx) : ParameterError(buf, i)
      <4>1. ~(top < 29) /\ U16At(buf, 16) = top /\ At(buf, 28) = top - 29
            /\ At(buf, 28) >= 4
        BY <1>1, <1>5, <2>2
      <4> QED
        BY <2>4, <4>1 DEF OpenError, top
    <3>2. Range(idx) = {at[k] : k \in 1..n}
      BY <2>3 DEF Range
    <3>3. (\E i \in Range(idx) : ParameterError(buf, i))
            <=> \E k \in 1..n : ParameterError(buf, at[k])
      BY <3>2
    <3> QED
      BY <1>2, <1>9, <3>1, <3>3
  <2>6. ExtractedParameters(buf) = <<Each(FirstCapability, o)>>
    <3> DEFINE Capability(i) == CapabilityAt(buf, i)
    <3>1. At(buf, 28) >= 4
      BY <1>1, <1>5, <2>2
    <3>2. ExtractedParameters(buf) = <<Each(Capability, idx)>>
      BY <2>4, <3>1 DEF ExtractedParameters
    <3>3. [k \in DOMAIN idx |-> CapabilityAt(buf, idx[k])]
            = [k \in DOMAIN o |-> FirstCapability(o[k])]
      BY <1>2, <1>9, <2>3
    <3> QED
      BY <3>2, <3>3 DEF Each
  <2> QED
    BY <1>5, <1>11, <2>5, <2>6 DEF buf, top
<1> QED
  BY <1>10, <1>11 DEF buf

\* With the Keepalive behind it, it is refused.
LEMMA TrailingRefused ==
  ASSUME NEW o \in PeerOpens
  PROVE  OpenError(StandardOpen(o) \o Header(4, MinMessageLen))
<1> DEFINE buf == StandardOpen(o)
           h == Header(4, MinMessageLen)
           all == buf \o h
<1>1. buf \in Seq(Octet) /\ U16At(buf, 16) = Len(buf) /\ Len(buf) >= 29
  <2> DEFINE octets == Each(StandardParameter, o)
  <2>1. octets \in Seq(Octet) /\ Len(octets) <= 255
    BY ParametersLayout
  <2>2. buf = OpenBytes(octets)
    BY DEF StandardOpen
  <2> HIDE DEF octets, buf
  <2>3. /\ buf \in Seq(Octet) /\ Len(octets) \in Nat
        /\ Len(buf) = 29 + Len(octets) /\ U16At(buf, 16) = 29 + Len(octets)
    BY <2>1, <2>2, OpenLayout
  <2> QED
    BY <2>3
<1>2. h \in Seq(Octet) /\ Len(h) = 19
  <2> DEFINE length == MinMessageLen
  <2>1. 4 \in Octet /\ length \in Nat /\ length < 256 * 256
    BY DEF Octet, MinMessageLen
  <2> HIDE DEF length
  <2> QED
    BY <2>1, HeaderBytes DEF length
<1> HIDE DEF buf, h
<1>3. /\ Len(all) = Len(buf) + 19 /\ Len(buf) \in Nat
      /\ \A k \in 1..Len(buf) : all[k] = buf[k]
  <2>1. /\ Len(all) = Len(buf) + Len(h) /\ Len(buf) \in Nat
        /\ \A k \in 1..Len(buf) : all[k] = buf[k]
    <3>1. buf \in Seq(Octet) /\ h \in Seq(Octet)
      BY <1>1, <1>2
    <3> QED
      BY <3>1, Joined
  <2> QED
    BY <1>2, <2>1
<1> HIDE DEF all
<1>4. 17 \in 1..Len(buf) /\ 18 \in 1..Len(buf)
  BY <1>1, <1>3
<1>5. all[17] = buf[17] /\ all[18] = buf[18]
  BY <1>3, <1>4
<1>6. U16At(all, 16) = Len(buf)
  BY <1>1, <1>5, LengthField
<1>7. OpenError(all)
  BY <1>3, <1>6 DEF OpenError
<1> QED
  BY <1>7 DEF all, buf, h

-----------------------------------------------------------------------------
(* The Opens exchanged.                                                    *)

\* What is known of the last exchange.
OpeningInv ==
  /\ opening.from = "Active" =>
       /\ opening.offered = (IF configured = <<>> THEN <<>> ELSE <<configured>>)
       /\ Encodes(CapabilitiesOf(opening.offered))
  /\ session = "up" =>
       /\ opening.result = "ok" /\ opening.peer \in PeerOpens
       /\ opening.read # <<>> => negotiated = NegotiatedWith(opening.read)

OpenInv == config \in Configs /\ OpensUnderstood /\ OpeningInv

LEMMA OpenInvInit == MessagesInit => OpenInv
<1> SUFFICES ASSUME MessagesInit PROVE OpenInv
  OBVIOUS
<1>1. /\ config \in Configs /\ session = "down"
      /\ opening.from = "none" /\ opening.result = "none"
  BY DEF MessagesInit, NoOpening
<1> QED
  BY <1>1 DEF OpenInv, OpensUnderstood, OpeningInv

\* Only these steps are about sessions.
LEMMA SessionSteps ==
  ASSUME [MessagesNext]_messagesVars
  PROVE  \/ sessionVars' = sessionVars
         \/ \E from \in {"Active", "Connect"} :
              \/ OpenNotSent(from)
              \/ \E peer \in PeerOpens, trailing \in BOOLEAN :
                   ExchangeOpens(from, peer, trailing)
         \/ SessionDown
<1>1. CASE UNCHANGED messagesVars
  BY <1>1 DEF messagesVars
<1>2. CASE \E messages \in Reads : PeerSends(messages)
  BY <1>2 DEF PeerSends
<1>3. CASE TakeUpdate \/ TakeNotification \/ TakeKeepAlive
  BY <1>3 DEF TakeUpdate, TakeNotification, TakeKeepAlive
<1>4. CASE Extract
  BY <1>4 DEF Extract
<1>5. CASE NextMessage
  BY <1>5 DEF NextMessage
<1>6. CASE \E route \in Routes : SendUpdate(route) \/ SendUpdatePanics(route)
  BY <1>6 DEF SendUpdate, SendUpdatePanics
<1> QED
  BY <1>1, <1>2, <1>3, <1>4, <1>5, <1>6 DEF MessagesNext

LEMMA OpenInvNext == OpenInv /\ [MessagesNext]_messagesVars => OpenInv'
<1> SUFFICES ASSUME OpenInv, [MessagesNext]_messagesVars PROVE OpenInv'
  OBVIOUS
<1>1. CASE sessionVars' = sessionVars
  <2>1. /\ config' = config /\ negotiated' = negotiated /\ session' = session
        /\ opening' = opening
    BY <1>1 DEF sessionVars
  <2>2. OpensUnderstood' /\ config' \in Configs
    BY <2>1 DEF OpenInv, OpensUnderstood, Each
  <2>3. OpeningInv'
    BY <2>1 DEF OpenInv, OpeningInv, configured, NegotiatedWith, Each, Select
  <2> QED
    BY <2>2, <2>3 DEF OpenInv
<1>2. ASSUME NEW from \in {"Active", "Connect"}, OpenNotSent(from) PROVE OpenInv'
  <2>1. /\ config' = config /\ session' = "stranded" /\ opening' = opening
    BY <1>2 DEF OpenNotSent
  <2>2. OpensUnderstood' /\ config' \in Configs
    BY <2>1 DEF OpenInv, OpensUnderstood, Each
  <2>3. OpeningInv'
    BY <2>1 DEF OpenInv, OpeningInv, configured
  <2> QED
    BY <2>2, <2>3 DEF OpenInv
<1>3. ASSUME SessionDown PROVE OpenInv'
  <2>1. /\ config' = config /\ session' = "down"
        /\ opening'.from = "none" /\ opening'.result = "none"
    BY <1>3 DEF SessionDown, NoOpening
  <2>2. OpensUnderstood' /\ config' \in Configs
    BY <2>1 DEF OpenInv, OpensUnderstood, Each
  <2>3. OpeningInv'
    BY <2>1 DEF OpeningInv
  <2> QED
    BY <2>2, <2>3 DEF OpenInv
<1>4. ASSUME NEW from \in {"Active", "Connect"}, NEW peer \in PeerOpens,
             NEW trailing \in BOOLEAN, ExchangeOpens(from, peer, trailing)
      PROVE  OpenInv'
  <2> DEFINE open == StandardOpen(peer)
             buf == open \o IF trailing THEN Header(4, MinMessageLen) ELSE <<>>
             parameters == IF OpenError(buf) THEN <<>> ELSE ExtractedParameters(buf)
             strange == \E k \in DOMAIN peer : ~KnownCapability(Head(peer[k]))
  <2>1. /\ open \in Seq(Octet)
        /\ OpenError(open) <=> strange
        /\ ExtractedParameters(open) =
             IF peer = <<>> THEN <<>> ELSE <<Each(FirstCapability, peer)>>
    BY PeerOpenRead
  <2>2. /\ Encodes(CapabilitiesOf(Offered(from)))
        /\ config' = config
        /\ opening' = [from |-> from, offered |-> Offered(from), peer |-> peer,
                       trailing |-> trailing, read |-> parameters,
                       result |-> IF OpenError(buf) THEN "error" ELSE "ok"]
        /\ session' = IF OpenError(buf) THEN "down" ELSE "up"
        /\ negotiated' = IF OpenError(buf) THEN negotiated
                         ELSE NegotiatedWith(parameters)
    BY <1>4 DEF ExchangeOpens
  <2>3. trailing => OpenError(buf)
    <3>1. OpenError(open \o Header(4, MinMessageLen))
      BY TrailingRefused
    <3> HIDE DEF open
    <3> QED
      BY <3>1
  <2>4. ~trailing => buf = open
    <3> HIDE DEF open
    <3> QED
      BY <2>1
  <2> HIDE DEF open, buf, strange
  <2>5. OpenError(buf) <=> trailing \/ strange
    BY <2>1, <2>3, <2>4
  <2>6. ~OpenError(buf) =>
          parameters = IF peer = <<>> THEN <<>> ELSE <<Each(FirstCapability, peer)>>
    BY <2>1, <2>3, <2>4
  <2> HIDE DEF parameters
  <2>7. /\ opening'.from = from /\ opening'.offered = Offered(from)
        /\ opening'.peer = peer /\ opening'.trailing = trailing
        /\ opening'.read = parameters
        /\ opening'.result = IF OpenError(buf) THEN "error" ELSE "ok"
    BY <2>2
  <2>8. OpensUnderstood'
    <3>1. opening'.result = "error" => opening'.trailing \/ strange
      BY <2>5, <2>7
    <3>2. strange <=> \E k \in DOMAIN opening'.peer :
                        ~KnownCapability(Head(opening'.peer[k]))
      BY <2>7 DEF strange
    <3>3. opening'.result = "ok" =>
            opening'.read = IF opening'.peer = <<>> THEN <<>>
                            ELSE <<Each(FirstCapability, opening'.peer)>>
      BY <2>6, <2>7
    <3> QED
      BY <3>1, <3>2, <3>3 DEF OpensUnderstood
  <2>9. OpeningInv'
    <3>1. from = "Active" =>
            Offered(from) = IF configured = <<>> THEN <<>> ELSE <<configured>>
      BY DEF Offered
    <3>2. configured' = configured
      BY <2>2 DEF configured
    <3>3. opening'.from = "Active" =>
            /\ opening'.offered = (IF configured' = <<>> THEN <<>> ELSE <<configured'>>)
            /\ Encodes(CapabilitiesOf(opening'.offered))
      BY <2>2, <2>7, <3>1, <3>2
    <3>4. ASSUME session' = "up"
          PROVE  /\ opening'.result = "ok" /\ opening'.peer \in PeerOpens
                 /\ opening'.read # <<>> => negotiated' = NegotiatedWith(parameters)
      BY <2>2, <2>7, <3>4
    <3>5. opening'.read # <<>> =>
            NegotiatedWith(opening.read)' = NegotiatedWith(parameters)
      BY <2>7, <3>2 DEF NegotiatedWith, Each, Select
    <3> QED
      BY <2>7, <3>3, <3>4, <3>5 DEF OpeningInv
  <2> QED
    BY <2>2, <2>8, <2>9 DEF OpenInv
<1> QED
  BY <1>1, <1>2, <1>3, <1>4, SessionSteps

\* What is read of an Open that is accepted is what the peer offers, of each parameter
\* the first capability, and no Open is refused but for a family we do not know or the
\* Keepalive behind it (extract_open_message).
THEOREM OpensAreUnderstood == MessagesSpec => []OpensUnderstood
<1>1. MessagesInit => OpenInv
  BY OpenInvInit
<1>2. OpenInv /\ [MessagesNext]_messagesVars => OpenInv'
  BY OpenInvNext
<1>3. OpenInv => OpensUnderstood
  BY DEF OpenInv
<1> QED
  BY <1>1, <1>2, <1>3, PTL DEF MessagesSpec

-----------------------------------------------------------------------------
(* What the configuration offers.                                          *)

OfferedCapability ==
  [kind : {"MP"}, value : Range(Families)]
    \cup [kind : {"AS4"}, value : [1..4 -> Octet]]
    \cup [kind : RouteRefreshKinds, value : {<<>>}]

LEMMA KeptType ==
  ASSUME NEW S, NEW s \in Seq(S), NEW R
  PROVE  Kept(R, s) \in Seq(S)
<1> DEFINE Piece(k) == IF s[k] \in R THEN <<s[k]>> ELSE <<>>
           p == [k \in 1..Len(s) |-> Piece(k)]
<1>1. Len(s) \in Nat /\ DOMAIN s = 1..Len(s)
  BY LenProperties
<1>2. ASSUME NEW k \in 1..Len(s) PROVE Piece(k) \in Seq(S)
  <2>1. s[k] \in S
    BY ElementOfSeq
  <2>2. <<s[k]>> \in Seq(S) /\ <<>> \in Seq(S)
    BY <2>1
  <2> QED
    BY <2>2
<1>3. Kept(R, s) = FlattenSeq(p)
  BY <1>1 DEF Kept
<1> HIDE DEF Piece
<1>4. p \in Seq(Seq(S))
  BY <1>1, <1>2
<1> QED
  BY <1>3, <1>4, FlattenType

LEMMA SixOf ==
  ASSUME NEW a, NEW b, NEW c, NEW d, NEW e, NEW f
  PROVE  /\ <<a, b, c, d, e, f>> \in Seq({a, b, c, d, e, f})
         /\ Len(<<a, b, c, d, e, f>>) = 6
         /\ Range(<<a, b, c, d, e, f>>) = {a, b, c, d, e, f}
<1> DEFINE s == <<a, b, c, d, e, f>>
<1>1. s \in Seq({a, b, c, d, e, f}) /\ Len(s) = 6
  OBVIOUS
<1>2. DOMAIN s = 1..6 /\ 1..6 = {1, 2, 3, 4, 5, 6}
  OBVIOUS
<1>3. /\ s[1] = a /\ s[2] = b /\ s[3] = c /\ s[4] = d /\ s[5] = e /\ s[6] = f
  OBVIOUS
<1> HIDE DEF s
<1>4. Range(s) = {s[k] : k \in {1, 2, 3, 4, 5, 6}}
  BY <1>2 DEF Range
<1>5. {s[k] : k \in {1, 2, 3, 4, 5, 6}} = {s[1], s[2], s[3], s[4], s[5], s[6]}
  OBVIOUS
<1> QED
  BY <1>1, <1>3, <1>4, <1>5 DEF s

LEMMA FamiliesType ==
  /\ Families \in Seq(Range(Families)) /\ Len(Families) = 6
  /\ Range(Families) =
       {<<1, 1>>, <<1, 2>>, <<1, 128>>, <<2, 1>>, <<2, 2>>, <<2, 128>>}
<1> DEFINE a == <<1, 1>>
           b == <<1, 2>>
           c == <<1, 128>>
           d == <<2, 1>>
           e == <<2, 2>>
           f == <<2, 128>>
<1>1. Families = <<a, b, c, d, e, f>>
  BY DEF Families
<1> HIDE DEF a, b, c, d, e, f
<1>2. /\ Families \in Seq(Range(Families)) /\ Len(Families) = 6
      /\ Range(Families) = {a, b, c, d, e, f}
  BY <1>1, SixOf
<1> QED
  BY <1>2 DEF a, b, c, d, e, f

LEMMA OfferedType ==
  ASSUME NEW c \in Configs
  PROVE  Capabilities(c) \in Seq(OfferedCapability)
<1> DEFINE Family(f) == f \in c.families
           Refresh(r) == r \in c.refreshes
           families == Select(Family, Families)
           refreshes == Select(Refresh, <<"RouteRefreshPreStandard",
                                          "RouteRefresh", "EnhancedRouteRefresh">>)
           mp == IF families = <<>> THEN <<>>
                 ELSE <<MP(Head(families)[1], Head(families)[2])>>
           rr == [k \in DOMAIN refreshes |-> [kind |-> refreshes[k], value |-> <<>>]]
           as4 == IF c.as4 = <<>> THEN <<>> ELSE <<AS4(c.as4)>>
<1>1. Capabilities(c) = mp \o rr \o as4
  BY DEF Capabilities
<1>2. families \in Seq(Range(Families))
  <2>1. families = Kept(c.families, Families)
    BY DEF Select, Kept
  <2> QED
    BY <2>1, FamiliesType, KeptType
<1>3. mp \in Seq(OfferedCapability)
  <2> HIDE DEF families
  <2> DEFINE first == Head(families)
  <2>1. families # <<>> => first \in Range(Families)
    BY <1>2
  <2> HIDE DEF first
  <2>2. families # <<>> => <<first[1], first[2]>> = first
    BY <2>1, FamiliesType
  <2>3. families # <<>> => MP(first[1], first[2]) \in OfferedCapability
    BY <2>1, <2>2 DEF MP, OfferedCapability
  <2> QED
    BY <2>3 DEF first
<1>4. rr \in Seq(OfferedCapability)
  <2> DEFINE all == <<"RouteRefreshPreStandard", "RouteRefresh",
                      "EnhancedRouteRefresh">>
  <2>1. all \in Seq(RouteRefreshKinds)
    BY DEF RouteRefreshKinds
  <2> HIDE DEF all
  <2>2. refreshes = Kept(c.refreshes, all)
    BY DEF Select, Kept, all
  <2>3. refreshes \in Seq(RouteRefreshKinds)
    BY <2>1, <2>2, KeptType
  <2> HIDE DEF refreshes
  <2>4. Len(refreshes) \in Nat /\ DOMAIN refreshes = 1..Len(refreshes)
    BY <2>3, LenProperties
  <2>5. ASSUME NEW k \in 1..Len(refreshes)
        PROVE  [kind |-> refreshes[k], value |-> <<>>] \in OfferedCapability
    <3>1. refreshes[k] \in RouteRefreshKinds
      BY <2>3, ElementOfSeq
    <3> QED
      BY <3>1 DEF OfferedCapability
  <2> QED
    BY <2>4, <2>5
<1>5. as4 \in Seq(OfferedCapability)
  <2>1. c.as4 = <<>> \/ c.as4 \in [1..4 -> Octet]
    BY MessagesConstants
  <2>2. c.as4 # <<>> => AS4(c.as4) \in OfferedCapability
    BY <2>1 DEF AS4, OfferedCapability
  <2> QED
    BY <2>2
<1> HIDE DEF mp, rr, as4
<1> QED
  BY <1>1, <1>3, <1>4, <1>5

-----------------------------------------------------------------------------
(* The width of AS numbers.                                                *)

LEMMA WidthOf ==
  ASSUME NEW capabilities
  PROVE  AsWidth(<<capabilities>>) = IF HasAs4(capabilities) THEN 4 ELSE 2
<1>1. <<capabilities>> # <<>> /\ <<capabilities>>[1] = capabilities
  OBVIOUS
<1> QED
  BY <1>1 DEF AsWidth, HasAs4

\* Of one capability.
LEMMA HasOne ==
  ASSUME NEW S, NEW p \in Seq(S), Len(p) = 1
  PROVE  HasAs4(p) <=> p[1].kind = "AS4"
<1>1. DOMAIN p = 1..1
  BY LenProperties
<1>2. 1..1 = {1}
  OBVIOUS
<1> QED
  BY <1>1, <1>2 DEF HasAs4

\* What was read of parameters of one capability each has AS4 when they have.
LEMMA ReadHasAs4 ==
  ASSUME NEW o \in PeerOpens, \A k \in DOMAIN o : Len(o[k]) = 1
  PROVE  LET r == Each(FirstCapability, o) IN
         /\ r \in Seq(PeerCapability)
         /\ HasAs4(r) <=> HasAs4(FlattenSeq(o))
<1> DEFINE n == Len(o)
           pieces == [k \in DOMAIN o |-> FirstCapability(o[k])]
<1>1. /\ o \in Seq(Seq(PeerCapability) \ {<<>>})
      /\ \A k \in 1..n : o[k] \in Seq(PeerCapability) /\ o[k] # <<>>
  BY ParametersLayout
<1>2. n \in Nat /\ DOMAIN o = 1..n /\ \A k \in 1..n : Len(o[k]) = 1
  BY <1>1, LenProperties
<1>3. ASSUME NEW k \in 1..n
      PROVE  /\ FirstCapability(o[k]) \in Seq(PeerCapability)
             /\ HasAs4(FirstCapability(o[k])) <=> HasAs4(o[k])
  <2> DEFINE p == o[k]
             c == p[1]
  <2>1. p \in Seq(PeerCapability) /\ Len(p) = 1 /\ p # <<>>
    BY <1>1, <1>2
  <2> HIDE DEF p
  <2>2. Head(p) = c /\ c \in PeerCapability
    BY <2>1
  <2>3. HasAs4(p) <=> c.kind = "AS4"
    BY <2>1, HasOne
  <2> HIDE DEF c
  <2>4. CASE c.kind \in {"MP", "AS4"}
    <3>1. FirstCapability(p) = <<c>>
      BY <2>2, <2>4 DEF FirstCapability
    <3>2. <<c>> \in Seq(PeerCapability) /\ Len(<<c>>) = 1 /\ <<c>>[1] = c
      BY <2>2
    <3>3. HasAs4(<<c>>) <=> c.kind = "AS4"
      BY <3>2, HasOne
    <3> QED
      BY <2>3, <3>1, <3>2, <3>3 DEF p
  <2>5. CASE c.kind \notin {"MP", "AS4"}
    <3>1. FirstCapability(p) = <<>>
      BY <2>2, <2>5 DEF FirstCapability
    <3>2. <<>> \in Seq(PeerCapability) /\ DOMAIN <<>> = {}
      OBVIOUS
    <3>3. ~HasAs4(<<>>)
      BY <3>2 DEF HasAs4
    <3>4. ~HasAs4(p)
      BY <2>3, <2>5
    <3> QED
      BY <3>1, <3>2, <3>3, <3>4 DEF p
  <2> QED
    BY <2>4, <2>5
<1>4. /\ pieces \in Seq(Seq(PeerCapability)) /\ Len(pieces) = n
      /\ \A k \in 1..n : pieces[k] = FirstCapability(o[k])
  BY <1>2, <1>3
<1>5. Each(FirstCapability, o) = FlattenSeq(pieces)
  BY DEF Each
<1> HIDE DEF pieces, n
<1>6. FlattenSeq(pieces) \in Seq(PeerCapability)
      /\ (HasAs4(FlattenSeq(pieces)) <=> \E k \in 1..Len(pieces) : HasAs4(pieces[k]))
  <2>1. pieces \in Seq(Seq(PeerCapability))
    BY <1>4
  <2> QED
    BY <2>1, FlattenHas, FlattenType
<1>7. o \in Seq(Seq(PeerCapability))
  <2>1. Seq(PeerCapability) \ {<<>>} \subseteq Seq(PeerCapability)
    OBVIOUS
  <2> QED
    BY <1>1, <2>1, SeqOfMore
<1>8. HasAs4(FlattenSeq(o)) <=> \E k \in 1..Len(o) : HasAs4(o[k])
  BY <1>7, FlattenHas
<1> QED
  BY <1>3, <1>4, <1>5, <1>6, <1>8 DEF n

\* Of ours the AS4 is kept when it is in what was read.
LEMMA NegotiatedHasAs4 ==
  ASSUME NEW S, NEW s \in Seq(S), configured = s,
         NEW T, NEW r \in Seq(T)
  PROVE  \E caps : /\ NegotiatedWith(<<r>>) = <<caps>>
                   /\ HasAs4(caps) <=> HasAs4(r) /\ HasAs4(s)
<1> DEFINE Ours(c) == OfKind(c.kind, s)
           n == Len(r)
           pieces == [k \in DOMAIN r |-> Ours(r[k])]
           caps == FlattenSeq(pieces)
<1>1. n \in Nat /\ DOMAIN r = 1..n
  BY LenProperties
<1>2. ASSUME NEW k \in 1..n
      PROVE  /\ Ours(r[k]) \in Seq(S)
             /\ HasAs4(Ours(r[k])) <=> r[k].kind = "AS4" /\ HasAs4(s)
  BY OfKindType
<1>3. NegotiatedWith(<<r>>) = <<caps>>
  <2>1. <<r>> # <<>> /\ <<r>>[1] = r
    OBVIOUS
  <2> QED
    BY <2>1 DEF NegotiatedWith, Each, Select, OfKind
<1> HIDE DEF Ours
<1>4. /\ pieces \in Seq(Seq(S)) /\ Len(pieces) = n
      /\ \A k \in 1..n : pieces[k] = Ours(r[k])
  BY <1>1, <1>2
<1> HIDE DEF pieces, n
<1>5. HasAs4(caps) <=> \E k \in 1..Len(pieces) : HasAs4(pieces[k])
  <2>1. pieces \in Seq(Seq(S))
    BY <1>4
  <2> QED
    BY <2>1, FlattenHas
<1>6. HasAs4(caps) <=> HasAs4(r) /\ HasAs4(s)
  <2> HIDE DEF caps
  <2>1. HasAs4(r) <=> \E k \in 1..n : r[k].kind = "AS4"
    BY <1>1 DEF HasAs4
  <2> QED
    BY <1>2, <1>4, <1>5, <2>1
<1> QED
  BY <1>3, <1>6

LEMMA OpenInvWidths == OpenInv => WidthsAgree
<1> SUFFICES ASSUME OpenInv, session = "up", opening.from = "Active",
                    opening.peer # <<>>,
                    \A k \in DOMAIN opening.peer : Len(opening.peer[k]) = 1
             PROVE  OurWidth = PeerWidth
  BY DEF WidthsAgree
<1> DEFINE o == opening.peer
           r == Each(FirstCapability, o)
           offered == opening.offered
<1>1. /\ config \in Configs /\ opening.result = "ok" /\ o \in PeerOpens
      /\ opening.read # <<>> => negotiated = NegotiatedWith(opening.read)
      /\ offered = (IF configured = <<>> THEN <<>> ELSE <<configured>>)
  BY DEF OpenInv, OpeningInv
<1>2. opening.read = <<r>>
  BY <1>1 DEF OpenInv, OpensUnderstood
<1>3. r \in Seq(PeerCapability) /\ (HasAs4(r) <=> HasAs4(FlattenSeq(o)))
  BY <1>1, ReadHasAs4
<1>4. configured \in Seq(OfferedCapability)
  BY <1>1, OfferedType DEF configured
<1> HIDE DEF o, r, offered
<1>5. negotiated = NegotiatedWith(<<r>>)
  <2>1. <<r>> # <<>>
    OBVIOUS
  <2> QED
    BY <1>1, <1>2, <2>1
<1>6. PICK caps : /\ NegotiatedWith(<<r>>) = <<caps>>
                  /\ HasAs4(caps) <=> HasAs4(r) /\ HasAs4(configured)
  BY <1>3, <1>4, NegotiatedHasAs4
<1>7. OurWidth = IF HasAs4(caps) THEN 4 ELSE 2
  BY <1>5, <1>6, WidthOf DEF OurWidth
<1>8. AsWidth(offered) = IF HasAs4(configured) THEN 4 ELSE 2
  <2>1. CASE configured = <<>>
    <3>1. offered = <<>>
      BY <1>1, <2>1
    <3>2. AsWidth(<<>>) = 2
      BY DEF AsWidth
    <3>3. DOMAIN configured = {}
      BY <2>1
    <3>4. ~HasAs4(configured)
      BY <3>3 DEF HasAs4
    <3> QED
      BY <3>1, <3>2, <3>4
  <2>2. CASE configured # <<>>
    BY <1>1, <2>2, WidthOf
  <2> QED
    BY <2>1, <2>2
<1>9. AsWidth(<<FlattenSeq(o)>>) = IF HasAs4(FlattenSeq(o)) THEN 4 ELSE 2
  BY WidthOf
<1>10. PeerWidth = IF HasAs4(configured) /\ HasAs4(FlattenSeq(o)) THEN 4 ELSE 2
  BY <1>8, <1>9 DEF PeerWidth, offered, o
<1> QED
  BY <1>3, <1>6, <1>7, <1>10

\* AS numbers are sent and read in one width, in every session whose Open was sent
\* from Active to a peer that offers parameters of one capability each.
THEOREM OneWidth == MessagesSpec => []WidthsAgree
<1>1. MessagesInit => OpenInv
  BY OpenInvInit
<1>2. OpenInv /\ [MessagesNext]_messagesVars => OpenInv'
  BY OpenInvNext
<1>3. OpenInv => WidthsAgree
  BY OpenInvWidths
<1> QED
  BY <1>1, <1>2, <1>3, PTL DEF MessagesSpec

-----------------------------------------------------------------------------
(* Our Open and the standard's.                                            *)

\* Pieces of one width, joined.
LEMMA EvenPieces ==
  ASSUME NEW S, NEW seqs \in Seq(Seq(S)), NEW w \in Nat,
         \A k \in 1..Len(seqs) : Len(seqs[k]) = w
  PROVE  \A k \in 0..Len(seqs) : Before(seqs, k) = w * k
<1> DEFINE n == Len(seqs)
           Good == {k \in Nat : k <= n => Before(seqs, k) = w * k}
<1>1. n \in Nat
  BY LenProperties
<1>2. /\ Before(seqs, 0) = 0
      /\ \A k \in 1..n : Before(seqs, k) = Before(seqs, k - 1) + Len(seqs[k])
  BY FlattenLayout
<1>3. \A k \in 1..n : Len(seqs[k]) = w
  OBVIOUS
<1> HIDE DEF n
<1>4. 0 \in Good
  BY <1>2
<1>5. ASSUME NEW k \in Nat, k \in Good PROVE k + 1 \in Good
  <2> SUFFICES ASSUME k + 1 <= n PROVE Before(seqs, k + 1) = w * (k + 1)
    OBVIOUS
  <2>1. k + 1 \in 1..n /\ k + 1 - 1 = k /\ k <= n
    BY <1>1
  <2>2. Before(seqs, k + 1) = Before(seqs, k) + w
    BY <1>2, <1>3, <2>1
  <2>3. Before(seqs, k) = w * k
    BY <1>5, <2>1
  <2>4. w * (k + 1) = w * k + w
    OBVIOUS
  <2> QED
    BY <2>2, <2>3, <2>4
<1> HIDE DEF Good
<1>6. \A k \in Nat : k \in Good
  BY <1>4, <1>5, InductionOnNat
<1> QED
  BY <1>1, <1>6 DEF Good, n

LEMMA FlattenOne ==
  ASSUME NEW S, NEW s \in Seq(S)
  PROVE  FlattenSeq(<<s>>) = s
<1>1. <<>> \in Seq(Seq(S)) /\ Append(<<>>, s) = <<s>>
  OBVIOUS
<1>2. FlattenSeq(Append(<<>>, s)) = FlattenSeq(<<>>) \o s
  BY <1>1, FlattenAppend
<1>3. <<>> \o s = s
  OBVIOUS
<1> QED
  BY <1>1, <1>2, <1>3, FlattenEmpty

\* What is kept of s is in R.
LEMMA KeptMembers ==
  ASSUME NEW S, NEW s \in Seq(S), NEW R, NEW j \in 1..Len(Kept(R, s))
  PROVE  Kept(R, s)[j] \in R
<1> DEFINE Piece(k) == IF s[k] \in R THEN <<s[k]>> ELSE <<>>
           n == Len(s)
           p == [k \in 1..n |-> Piece(k)]
           kept == FlattenSeq(p)
<1>1. n \in Nat /\ DOMAIN s = 1..n
  BY LenProperties
<1>2. ASSUME NEW k \in 1..n PROVE Piece(k) \in Seq(S)
  <2>1. s[k] \in S
    BY ElementOfSeq
  <2>2. <<s[k]>> \in Seq(S) /\ <<>> \in Seq(S)
    BY <2>1
  <2> QED
    BY <2>2
<1>3. ASSUME NEW k \in 1..n, NEW x \in 1..Len(Piece(k))
      PROVE  s[k] \in R /\ Piece(k)[x] = s[k]
  <2>1. CASE s[k] \in R
    <3>1. Len(<<s[k]>>) = 1 /\ <<s[k]>>[1] = s[k]
      OBVIOUS
    <3>2. x = 1
      BY <2>1, <3>1
    <3> QED
      BY <2>1, <3>1, <3>2
  <2>2. CASE s[k] \notin R
    <3>1. Len(<<>>) = 0 /\ 1..0 = {}
      OBVIOUS
    <3> QED
      BY <2>2, <3>1
  <2> QED
    BY <2>1, <2>2
<1> HIDE DEF Piece
<1>4. p \in Seq(Seq(S)) /\ Len(p) = n /\ \A k \in 1..n : p[k] = Piece(k)
  BY <1>1, <1>2
<1>5. p \in Seq(Seq(S))
  BY <1>4
<1>6. Kept(R, s) = kept
  BY <1>1 DEF Kept, Piece
<1> HIDE DEF p, n
<1>7. PICK k \in 1..Len(p) : \E x \in 1..Len(p[k]) : kept[j] = p[k][x]
  BY <1>5, <1>6, FlattenMembers
<1>8. PICK x \in 1..Len(p[k]) : kept[j] = p[k][x]
  BY <1>7
<1>9. k \in 1..n /\ p[k] = Piece(k)
  BY <1>4
<1>10. s[k] \in R /\ Piece(k)[x] = s[k]
  BY <1>3, <1>9
<1> QED
  BY <1>6, <1>8, <1>9, <1>10

\* A capability that is encoded, as a parameter of its own: ours is the standard's
\* except for the family number of IPv6.
LEMMA OneCapability ==
  ASSUME NEW c \in OfferedCapability, c.kind \notin RouteRefreshKinds
  PROVE  /\ OurCapability(c) \in Seq(Nat) /\ Len(OurCapability(c)) = 8
         /\ StandardParameter(<<c>>) \in Seq(Nat)
         /\ Len(StandardParameter(<<c>>)) = 8
         /\ c.kind \in {"MP", "AS4"}
         /\ (c.kind = "MP" => c.value[1] = 1) =>
              OurCapability(c) = StandardParameter(<<c>>)
<1> DEFINE octets == StandardCapability(c)
           ours1 == OurCapability(c)
           theirs == StandardParameter(<<c>>)
<1>1. ASSUME octets \in Seq(Nat), Len(octets) = 6
      PROVE  theirs = <<2, 6>> \o octets
  <2>1. [k \in DOMAIN <<c>> |-> StandardCapability(<<c>>[k])] = <<octets>>
    OBVIOUS
  <2>2. Each(StandardCapability, <<c>>) = FlattenSeq(<<octets>>)
    BY <2>1 DEF Each
  <2> HIDE DEF octets
  <2>3. FlattenSeq(<<octets>>) = octets
    BY <1>1, FlattenOne
  <2> QED
    BY <1>1, <2>2, <2>3 DEF StandardParameter
<1>2. CASE c \in [kind : {"MP"}, value : Range(Families)]
  <2> DEFINE v == c.value[1]
             w == c.value[2]
             e == IF v = 1 THEN 0 ELSE 2
             f == IF v = 1 THEN 1 ELSE 0
  <2>1. c.kind = "MP" /\ v \in {1, 2} /\ w \in Nat
    BY <1>2, FamiliesType
  <2>2. octets = <<1, 4, 0, v, 0, w>>
    BY <2>1 DEF StandardCapability
  <2>3. ours1 = <<2, 6, 1, 4>> \o <<e, f>> \o <<0, w>>
    <3>1. ours1 = <<2, 6, 1, 4>> \o (IF v = 1 THEN <<0, 1>> ELSE <<2, 0>>) \o <<0, w>>
      BY <2>1 DEF OurCapability
    <3>2. (IF v = 1 THEN <<0, 1>> ELSE <<2, 0>>) = <<e, f>>
      OBVIOUS
    <3> QED
      BY <3>1, <3>2
  <2>4. e \in Nat /\ f \in Nat /\ v \in Nat /\ (v = 1 => e = 0 /\ f = v)
    BY <2>1
  <2> HIDE DEF v, w, e, f
  <2>5. octets \in Seq(Nat) /\ Len(octets) = 6
    BY <2>1, <2>2, <2>4
  <2>6. theirs = <<2, 6, 1, 4, 0, v, 0, w>>
    BY <1>1, <2>2, <2>5, TwoSix
  <2>7. ours1 = <<2, 6, 1, 4, e, f, 0, w>>
    <3>1. <<2, 6, 1, 4>> \o <<e, f>> = <<2, 6, 1, 4, e, f>>
      BY FourTwo
    <3>2. <<2, 6, 1, 4, e, f>> \o <<0, w>> = <<2, 6, 1, 4, e, f, 0, w>>
      BY SixTwo
    <3> QED
      BY <2>3, <3>1, <3>2
  <2>8. e = 0 /\ f = v => ours1 = theirs
    BY <2>6, <2>7
  <2>9. /\ ours1 \in Seq(Nat) /\ Len(ours1) = 8
        /\ theirs \in Seq(Nat) /\ Len(theirs) = 8
    <3>1. /\ <<2, 6, 1, 4, e, f, 0, w>> \in Seq(Nat)
          /\ Len(<<2, 6, 1, 4, e, f, 0, w>>) = 8
      BY <2>1, <2>4
    <3>2. /\ <<2, 6, 1, 4, 0, v, 0, w>> \in Seq(Nat)
          /\ Len(<<2, 6, 1, 4, 0, v, 0, w>>) = 8
      BY <2>1, <2>4
    <3> HIDE DEF ours1, theirs
    <3> QED
      BY <2>6, <2>7, <3>1, <3>2
  <2> QED
    BY <2>1, <2>4, <2>8, <2>9 DEF v
<1>3. CASE c \in [kind : {"AS4"}, value : [1..4 -> Octet]]
  <2> DEFINE v == c.value
             x == <<2, 6>>
             y == <<65, 4>>
             z == <<2, 6, 65, 4>>
  <2>1. c.kind = "AS4" /\ v \in [1..4 -> Octet]
    BY <1>3
  <2>2. v \in Seq(Nat) /\ Len(v) = 4
    BY <2>1, FourOctets, OctetsAreNumbers
  <2>3. octets = y \o v /\ ours1 = z \o v
    BY <2>1 DEF StandardCapability, OurCapability
  <2>4. z = x \o y
    BY TwoTwo
  <2>5. /\ x \in Seq(Nat) /\ y \in Seq(Nat) /\ z \in Seq(Nat)
        /\ Len(y) = 2 /\ Len(z) = 4
    OBVIOUS
  <2> HIDE DEF v, x, y, z
  <2>6. v \in Seq(Nat) /\ x \in Seq(Nat) /\ y \in Seq(Nat) /\ z \in Seq(Nat)
    BY <2>2, <2>5
  <2>7. /\ y \o v \in Seq(Nat) /\ Len(y \o v) = Len(y) + Len(v)
        /\ z \o v \in Seq(Nat) /\ Len(z \o v) = Len(z) + Len(v)
    <3>1. y \o v \in Seq(Nat) /\ Len(y \o v) = Len(y) + Len(v)
      BY <2>6, Joined
    <3>2. z \o v \in Seq(Nat) /\ Len(z \o v) = Len(z) + Len(v)
      BY <2>6, Joined
    <3> QED
      BY <3>1, <3>2
  <2>8. octets \in Seq(Nat) /\ Len(octets) = 6
        /\ ours1 \in Seq(Nat) /\ Len(ours1) = 8
    BY <2>2, <2>3, <2>5, <2>7
  <2>9. theirs = ours1
    <3>1. theirs = x \o (y \o v)
      <4>1. theirs = <<2, 6>> \o octets
        BY <1>1, <2>8
      <4> QED
        BY <2>3, <4>1 DEF x
    <3>2. v \in Seq(Nat) /\ x \in Seq(Nat) /\ y \in Seq(Nat)
      BY <2>6
    <3>3. (x \o y) \o v = x \o (y \o v)
      <4>1. Associates(x, y, v)
        BY <3>2, Joins
      <4> QED
        BY <4>1 DEF Associates
    <3> QED
      BY <2>3, <2>4, <3>1, <3>3
  <2> QED
    BY <2>1, <2>8, <2>9
<1>4. CASE c \in [kind : RouteRefreshKinds, value : {<<>>}]
  BY <1>4
<1> QED
  BY <1>2, <1>3, <1>4 DEF OfferedCapability

\* What the configuration is to offer: its families and its AS number, each in a
\* parameter of its own.
Intended(c) ==
  LET A == Kept(c.families, Families)
  IN  [k \in DOMAIN A |-> <<MP(A[k][1], A[k][2])>>]
        \o IF c.as4 = <<>> THEN <<>> ELSE << <<AS4(c.as4)>> >>

LEMMA OfferedIsStandard ==
  ASSUME NEW c \in Configs, Encodes(Capabilities(c)),
         Len(Kept(c.families, Families)) <= 1, \A f \in c.families : f[1] = 1
  PROVE  OurOpen(Capabilities(c)) = StandardOpen(Intended(c))
<1> DEFINE A == Kept(c.families, Families)
           n == Len(A)
           Refresh(r) == r \in c.refreshes
           refreshes == Select(Refresh, <<"RouteRefreshPreStandard",
                                          "RouteRefresh", "EnhancedRouteRefresh">>)
           rr == [k \in DOMAIN refreshes |-> [kind |-> refreshes[k], value |-> <<>>]]
           mp == IF A = <<>> THEN <<>> ELSE <<MP(Head(A)[1], Head(A)[2])>>
           as4 == IF c.as4 = <<>> THEN <<>> ELSE <<AS4(c.as4)>>
           fam == [k \in DOMAIN A |-> <<MP(A[k][1], A[k][2])>>]
           tail == IF c.as4 = <<>> THEN <<>> ELSE << <<AS4(c.as4)>> >>
           caps == Capabilities(c)
           pars == Intended(c)
           m == IF n = 0 THEN 0 ELSE 1
           a == IF c.as4 = <<>> THEN 0 ELSE 1
           Plain == {x \in OfferedCapability : x.kind \notin RouteRefreshKinds}
<1>1. A \in Seq(Range(Families)) /\ n \in Nat /\ DOMAIN A = 1..n
  BY FamiliesType, KeptType, LenProperties
<1>2. ASSUME NEW k \in 1..n
      PROVE  /\ A[k] \in Range(Families) /\ MP(A[k][1], A[k][2]) \in Plain
             /\ MP(A[k][1], A[k][2]).kind = "MP"
             /\ MP(A[k][1], A[k][2]).value[1] = A[k][1]
  <2> DEFINE f == A[k]
  <2>1. f \in Range(Families)
    BY <1>1, ElementOfSeq
  <2> HIDE DEF f
  <2>2. <<f[1], f[2]>> = f
    BY <2>1, FamiliesType
  <2>3. /\ MP(f[1], f[2]) \in Plain /\ MP(f[1], f[2]).kind = "MP"
        /\ MP(f[1], f[2]).value[1] = f[1]
    BY <2>1, <2>2 DEF MP, OfferedCapability, RouteRefreshKinds
  <2> QED
    BY <2>1, <2>3 DEF f
<1>3. /\ c.as4 # <<>> => AS4(c.as4) \in Plain /\ AS4(c.as4).kind = "AS4"
      /\ c.families \subseteq Range(Families)
  <2>1. c.as4 = <<>> \/ c.as4 \in [1..4 -> Octet]
    BY MessagesConstants
  <2>2. c.families \subseteq Range(Families)
    BY MessagesConstants
  <2> QED
    BY <2>1, <2>2 DEF AS4, OfferedCapability, RouteRefreshKinds
<1>4. caps \in Seq(OfferedCapability)
  BY OfferedType
<1>5. caps = mp \o rr \o as4
  BY DEF Capabilities, Select, Kept
<1>6. pars = fam \o tail
  BY DEF Intended
<1> HIDE DEF A, rr, caps, pars, Plain
<1>7. mp \in Seq(Plain) /\ Len(mp) = m
      /\ (n > 0 => mp[1] = MP(A[1][1], A[1][2]))
  <2>1. CASE A = <<>>
    BY <2>1
  <2>2. CASE A # <<>>
    <3>1. n > 0 /\ 1 \in 1..n
      BY <1>1, <2>2, EmptySeq
    <3>2. Head(A) = A[1]
      BY <1>1, <2>2
    <3> DEFINE q == MP(A[1][1], A[1][2])
    <3>3. q \in Plain
      BY <1>2, <3>1
    <3>4. mp = <<q>>
      BY <2>2, <3>2
    <3> HIDE DEF q
    <3>5. <<q>> \in Seq(Plain) /\ Len(<<q>>) = 1 /\ <<q>>[1] = q
      BY <3>3
    <3>6. m = 1
      BY <3>1
    <3> QED
      BY <3>4, <3>5, <3>6 DEF q
  <2> QED
    BY <2>1, <2>2
<1>8. as4 \in Seq(Plain) /\ Len(as4) = a /\ (a = 1 => as4[1] = AS4(c.as4))
  BY <1>3
<1>9. /\ fam \in Seq(Seq(Plain)) /\ Len(fam) = n
      /\ \A k \in 1..n : fam[k] = <<MP(A[k][1], A[k][2])>>
  <2>1. ASSUME NEW k \in 1..n PROVE <<MP(A[k][1], A[k][2])>> \in Seq(Plain)
    BY <1>2
  <2> QED
    BY <1>1, <2>1
<1>10. tail \in Seq(Seq(Plain)) /\ Len(tail) = a
       /\ (a = 1 => tail[1] = <<AS4(c.as4)>>)
  <2>1. CASE c.as4 = <<>>
    BY <2>1
  <2>2. CASE c.as4 # <<>>
    <3> DEFINE q == AS4(c.as4)
    <3>1. q \in Plain
      BY <1>3, <2>2
    <3>2. tail = << <<q>> >> /\ a = 1
      BY <2>2
    <3> HIDE DEF q
    <3>3. << <<q>> >> \in Seq(Seq(Plain)) /\ Len(<< <<q>> >>) = 1
          /\ << <<q>> >>[1] = <<q>>
      BY <3>1
    <3> QED
      BY <3>2, <3>3 DEF q
  <2> QED
    BY <2>1, <2>2
<1>11. m \in Nat /\ a \in {0, 1} /\ m = n
  <2>1. n <= 1
    BY DEF A
  <2> HIDE DEF n
  <2> QED
    BY <1>1, <2>1
<1>12. rr = <<>>
  <2>1. /\ rr \in Seq([kind : RouteRefreshKinds, value : {<<>>}])
    <3> DEFINE all == <<"RouteRefreshPreStandard", "RouteRefresh",
                        "EnhancedRouteRefresh">>
    <3>1. all \in Seq(RouteRefreshKinds)
      BY DEF RouteRefreshKinds
    <3> HIDE DEF all
    <3>2. refreshes = Kept(c.refreshes, all)
      BY DEF Select, Kept, all
    <3>3. refreshes \in Seq(RouteRefreshKinds)
      BY <3>1, <3>2, KeptType
    <3> HIDE DEF refreshes
    <3>4. Len(refreshes) \in Nat /\ DOMAIN refreshes = 1..Len(refreshes)
      BY <3>3, LenProperties
    <3>5. ASSUME NEW k \in 1..Len(refreshes) PROVE refreshes[k] \in RouteRefreshKinds
      BY <3>3, ElementOfSeq
    <3> QED
      BY <3>4, <3>5 DEF rr
  <2>2. SUFFICES ASSUME rr # <<>> PROVE FALSE
    OBVIOUS
  <2>3. Len(rr) \in Nat /\ 1 \in 1..Len(rr) /\ rr[1].kind \in RouteRefreshKinds
    <3>1. Len(rr) \in Nat /\ Len(rr) # 0
      BY <2>1, <2>2, EmptySeq, LenProperties
    <3>2. 1 \in 1..Len(rr)
      BY <3>1
    <3>3. rr[1] \in [kind : RouteRefreshKinds, value : {<<>>}]
      BY <2>1, <3>2, ElementOfSeq
    <3> QED
      BY <3>1, <3>2, <3>3
  <2> DEFINE B == OfferedCapability
  <2>4. mp \in Seq(B) /\ rr \in Seq(B) /\ as4 \in Seq(B)
    <3>1. Plain \subseteq B /\ [kind : RouteRefreshKinds, value : {<<>>}] \subseteq B
      BY DEF Plain, OfferedCapability
    <3> HIDE DEF B, mp, as4
    <3> QED
      BY <1>7, <1>8, <2>1, <3>1, SeqOfMore
  <2> HIDE DEF B, mp, as4, m
  <2> DEFINE j == mp \o rr
             u == Len(mp)
  <2>5. /\ j \in Seq(B) /\ u \in Nat /\ Len(j) = u + Len(rr)
        /\ \A k \in 1..Len(rr) : j[u + k] = rr[k]
    BY <2>4, Joined
  <2>6. j[u + 1] = rr[1]
    BY <2>3, <2>5
  <2>7. /\ caps \in Seq(B) /\ Len(caps) = Len(j) + Len(as4) /\ Len(as4) \in Nat
        /\ \A k \in 1..Len(j) : caps[k] = j[k]
    <3>1. j \in Seq(B) /\ as4 \in Seq(B)
      BY <2>4, <2>5
    <3>2. caps = j \o as4
      BY <1>5
    <3> HIDE DEF j
    <3> QED
      BY <3>1, <3>2, Joined
  <2> HIDE DEF j, u
  <2>8. u + 1 \in 1..Len(j) /\ u + 1 \in 1..Len(caps)
    <3> DEFINE lr == Len(rr)
               lj == Len(j)
               lc == Len(caps)
               la == Len(as4)
    <3>1. lr \in Nat /\ 1 <= lr /\ u \in Nat /\ lj = u + lr /\ la \in Nat /\ lc = lj + la
      BY <2>3, <2>5, <2>7
    <3> HIDE DEF lr, lj, lc, la
    <3>2. u + 1 \in 1..lj /\ u + 1 \in 1..lc
      BY <3>1
    <3> QED
      BY <3>2 DEF lj, lc
  <2>9. DOMAIN caps = 1..Len(caps)
    BY <2>7, LenProperties
  <2>10. caps[u + 1].kind \in RouteRefreshKinds
    BY <2>3, <2>6, <2>7, <2>8
  <2>11. Encodes(caps)
    BY DEF caps
  <2> QED
    BY <2>8, <2>9, <2>10, <2>11 DEF Encodes
<1> HIDE DEF mp, as4, fam, tail, m, a, n
<1>13. /\ caps \in Seq(Plain) /\ Len(caps) = m + a
       /\ \A k \in 1..m : caps[k] = mp[k]
       /\ \A k \in 1..a : caps[m + k] = as4[k]
  <2>1. mp \in Seq(Plain) /\ as4 \in Seq(Plain)
    BY <1>7, <1>8
  <2>2. caps = mp \o as4
    <3>1. mp \o <<>> = mp
      BY <2>1
    <3> QED
      BY <1>5, <1>12, <3>1
  <2>3. /\ caps \in Seq(Plain) /\ Len(caps) = Len(mp) + Len(as4)
        /\ \A k \in 1..Len(mp) : caps[k] = mp[k]
        /\ \A k \in 1..Len(as4) : caps[Len(mp) + k] = as4[k]
    BY <2>1, <2>2, Joined
  <2>4. Len(mp) = m /\ Len(as4) = a
    BY <1>7, <1>8
  <2> QED
    BY <2>3, <2>4
<1>14. /\ pars \in Seq(Seq(Plain)) /\ Len(pars) = n + a
       /\ \A k \in 1..n : pars[k] = fam[k]
       /\ \A k \in 1..a : pars[n + k] = tail[k]
  <2>1. fam \in Seq(Seq(Plain)) /\ tail \in Seq(Seq(Plain))
    BY <1>9, <1>10
  <2>3. /\ pars \in Seq(Seq(Plain)) /\ Len(pars) = Len(fam) + Len(tail)
        /\ \A k \in 1..Len(fam) : pars[k] = fam[k]
        /\ \A k \in 1..Len(tail) : pars[Len(fam) + k] = tail[k]
    BY <1>6, <2>1, Joined
  <2>4. Len(fam) = n /\ Len(tail) = a
    BY <1>9, <1>10
  <2> QED
    BY <2>3, <2>4
<1>15. ASSUME NEW k \in 1..(n + a)
       PROVE  \E x \in Plain : pars[k] = <<x>>
  <2>1. CASE k \in 1..n
    BY <1>2, <1>9, <1>14, <2>1
  <2>2. CASE k \notin 1..n
    <3>1. k = n + 1 /\ a = 1 /\ 1 \in 1..a
      BY <1>1, <1>11, <2>2
    <3>2. pars[k] = <<AS4(c.as4)>>
      BY <1>10, <1>14, <3>1
    <3>3. AS4(c.as4) \in Plain
      BY <1>3, <3>1 DEF a
    <3> QED
      BY <3>2, <3>3
  <2> QED
    BY <2>1, <2>2
<1> DEFINE P == [k \in DOMAIN caps |-> OurCapability(caps[k])]
           T == [k \in DOMAIN pars |-> StandardParameter(pars[k])]
<1>16. DOMAIN caps = 1..(m + a) /\ DOMAIN pars = 1..(n + a)
  BY <1>13, <1>14, LenProperties
<1>17. /\ P \in Seq(Seq(Nat)) /\ Len(P) = m + a
       /\ \A k \in 1..(m + a) : P[k] = OurCapability(caps[k]) /\ Len(P[k]) = 8
  <2>1. ASSUME NEW k \in 1..(m + a)
        PROVE  OurCapability(caps[k]) \in Seq(Nat) /\ Len(OurCapability(caps[k])) = 8
    <3>1. caps[k] \in Plain
      BY <1>13, ElementOfSeq
    <3> QED
      BY <3>1, OneCapability DEF Plain
  <2> DEFINE len == m + a
  <2>2. len \in Nat
    BY <1>11
  <2>3. /\ DOMAIN caps = 1..len
        /\ \A k \in 1..len : /\ OurCapability(caps[k]) \in Seq(Nat)
                             /\ Len(OurCapability(caps[k])) = 8
    BY <1>16, <2>1
  <2> HIDE DEF len
  <2>4. /\ P \in Seq(Seq(Nat)) /\ Len(P) = len
        /\ \A k \in 1..len : P[k] = OurCapability(caps[k])
    BY <2>2, <2>3
  <2> QED
    BY <2>3, <2>4 DEF len
<1>18. /\ T \in Seq(Seq(Nat)) /\ Len(T) = n + a
       /\ \A k \in 1..(n + a) : T[k] = StandardParameter(pars[k]) /\ Len(T[k]) = 8
  <2>1. ASSUME NEW k \in 1..(n + a)
        PROVE  /\ StandardParameter(pars[k]) \in Seq(Nat)
               /\ Len(StandardParameter(pars[k])) = 8
    <3>1. PICK x \in Plain : pars[k] = <<x>>
      BY <1>15
    <3> QED
      BY <3>1, OneCapability DEF Plain
  <2> DEFINE len == n + a
  <2>2. len \in Nat
    BY <1>1, <1>11
  <2>3. /\ DOMAIN pars = 1..len
        /\ \A k \in 1..len : /\ StandardParameter(pars[k]) \in Seq(Nat)
                             /\ Len(StandardParameter(pars[k])) = 8
    BY <1>16, <2>1
  <2> HIDE DEF len
  <2>4. /\ T \in Seq(Seq(Nat)) /\ Len(T) = len
        /\ \A k \in 1..len : T[k] = StandardParameter(pars[k])
    BY <2>2, <2>3
  <2> QED
    BY <2>3, <2>4 DEF len
<1>19. Each(OurCapability, caps) = FlattenSeq(P)
       /\ Each(StandardParameter, pars) = FlattenSeq(T)
  BY DEF Each
<1> HIDE DEF P, T
<1>20. ASSUME NEW k \in 1..m PROVE P[k] = T[k]
  <2>1. k = 1 /\ k \in 1..n /\ k \in 1..(m + a) /\ k \in 1..(n + a)
    BY <1>1, <1>11, <1>20 DEF m
  <2> DEFINE q == MP(A[k][1], A[k][2])
  <2>2. q \in Plain /\ q.kind = "MP" /\ q.value[1] = A[k][1]
    BY <1>2, <2>1
  <2>3. caps[k] = q
    BY <1>1, <1>7, <1>13, <2>1
  <2>4. pars[k] = <<q>>
    BY <1>9, <1>14, <2>1
  <2>5. A[k] \in c.families
    BY <2>1, FamiliesType, KeptMembers DEF A, n
  <2>6. q.value[1] = 1
    BY <2>2, <2>5
  <2> HIDE DEF q
  <2>7. P[k] = OurCapability(q) /\ T[k] = StandardParameter(<<q>>)
    BY <1>17, <1>18, <2>1, <2>3, <2>4
  <2> QED
    BY <2>2, <2>6, <2>7, OneCapability DEF Plain
<1>21. ASSUME NEW k \in 1..a PROVE P[m + k] = T[m + k]
  <2>1. k = 1 /\ a = 1 /\ m + k \in 1..(m + a) /\ m + k \in 1..(n + a)
    BY <1>1, <1>11, <1>21
  <2> DEFINE q == AS4(c.as4)
  <2>2. q \in Plain /\ q.kind = "AS4"
    BY <1>3, <2>1 DEF a
  <2>3. caps[m + k] = q
    BY <1>8, <1>13, <2>1
  <2>4. pars[m + k] = <<q>>
    BY <1>10, <1>11, <1>14, <2>1
  <2> HIDE DEF q
  <2>5. P[m + k] = OurCapability(q) /\ T[m + k] = StandardParameter(<<q>>)
    BY <1>17, <1>18, <2>1, <2>3, <2>4
  <2> QED
    BY <2>2, <2>5, OneCapability DEF Plain
<1>22. P = T
  <2>1. ASSUME NEW k \in 1..(m + a) PROVE P[k] = T[k]
    <3>1. CASE k \in 1..m
      BY <1>20, <3>1
    <3>2. CASE k \notin 1..m
      <4>1. k - m \in 1..a /\ m + (k - m) = k
        BY <1>11, <3>2
      <4> QED
        BY <1>21, <4>1
    <3> QED
      BY <3>1, <3>2
  <2>2. Len(P) = m + a /\ Len(T) = m + a
    BY <1>11, <1>17, <1>18
  <2> QED
    BY <1>17, <1>18, <2>1, <2>2, SeqEqual
<1> QED
  BY <1>19, <1>22 DEF OurOpen, StandardOpen, caps, pars

LEMMA OpenInvStandard == OpenInv => OpensAreStandard
<1> SUFFICES ASSUME OpenInv, opening.from = "Active"
             PROVE  LET Family(f) == f \in config.families
                        AllFamilies == Select(Family, Families)
                        parameters ==
                          [k \in DOMAIN AllFamilies |->
                             <<MP(AllFamilies[k][1], AllFamilies[k][2])>>]
                            \o IF config.as4 = <<>> THEN <<>>
                               ELSE << <<AS4(config.as4)>> >>
                    IN  Len(AllFamilies) <= 1
                          /\ (\A f \in config.families : f[1] = 1) =>
                        OurOpen(CapabilitiesOf(opening.offered))
                          = StandardOpen(parameters)
  BY DEF OpensAreStandard
<1>1. /\ config \in Configs
      /\ opening.offered = (IF configured = <<>> THEN <<>> ELSE <<configured>>)
      /\ Encodes(CapabilitiesOf(opening.offered))
  BY DEF OpenInv, OpeningInv
<1>2. CapabilitiesOf(opening.offered) = Capabilities(config)
  BY <1>1 DEF CapabilitiesOf, configured
<1>3. Len(Kept(config.families, Families)) <= 1
        /\ (\A f \in config.families : f[1] = 1) =>
      OurOpen(Capabilities(config)) = StandardOpen(Intended(config))
  BY <1>1, <1>2, OfferedIsStandard
<1> QED
  BY <1>2, <1>3 DEF Intended, Kept, Select

\* The Open sent from Active is what the standard writes for the configuration when
\* that has one family at most, and of IPv4 (OptionalParameters::new and
\* Capability::convert_to_bytes).
THEOREM OpensSent == MessagesSpec => []OpensAreStandard
<1>1. MessagesInit => OpenInv
  BY OpenInvInit
<1>2. OpenInv /\ [MessagesNext]_messagesVars => OpenInv'
  BY OpenInvNext
<1>3. OpenInv => OpensAreStandard
  BY OpenInvStandard
<1> QED
  BY <1>1, <1>2, <1>3, PTL DEF MessagesSpec

-----------------------------------------------------------------------------
(* Our Update and the standard's.                                          *)

\* The parts of an Update of one route.
UpdateFront(length, attributes_len) ==
  Header(2, length) \o U16(0) \o U16(attributes_len)
OriginOf(r) == <<64, 1, 1, r.origin>>
HopOf(r) == <<64, 3, 4>> \o r.next_hop
PathOf(r, length, octets) ==
  <<64, 2, length, r.segment_type, Len(r.as_list)>> \o octets
OctetsOf(list, width) ==
  FlattenSeq([k \in DOMAIN list |-> AsOctets(list[k], width)])
SentPrefix(n) == <<n.len>> \o SubSeq(n.prefix, 1, SentOctets(n.len))
Whole(front, r, path, prefix) ==
  front \o (OriginOf(r) \o (path \o (HopOf(r) \o prefix)))
AttributesOf(r, path) == OriginOf(r) \o (path \o HopOf(r))

LEMMA FrontBytes ==
  ASSUME NEW length \in Nat, NEW attributes_len \in Nat
  PROVE  /\ UpdateFront(length, attributes_len) \in Seq(Nat)
         /\ Len(UpdateFront(length, attributes_len)) = 23
         /\ Header(2, length) \in Seq(Nat)
         /\ U16(0) \in Seq(Nat) /\ U16(attributes_len) \in Seq(Nat)
         /\ Len(U16(0)) = 2 /\ Len(U16(attributes_len)) = 2
<1>1. ASSUME NEW n \in Nat PROVE U16(n) \in Seq(Nat) /\ Len(U16(n)) = 2
  <2>1. (n \div 256) % 256 \in Nat /\ n % 256 \in Nat
    OBVIOUS
  <2> QED
    BY <2>1 DEF U16
<1> DEFINE marker == [x \in 1..16 |-> 255]
           type == <<2>>
           h == Header(2, length)
           u == U16(0)
           v == U16(attributes_len)
           w == U16(length)
<1>2. marker \in Seq(Nat) /\ Len(marker) = 16 /\ type \in Seq(Nat) /\ Len(type) = 1
  OBVIOUS
<1>3. u \in Seq(Nat) /\ v \in Seq(Nat) /\ w \in Seq(Nat)
      /\ Len(u) = 2 /\ Len(v) = 2 /\ Len(w) = 2
  BY <1>1
<1>4. h = marker \o w \o type
  BY DEF Header
<1>5. UpdateFront(length, attributes_len) = h \o u \o v
  BY DEF UpdateFront
<1> HIDE DEF marker, type, h, u, v, w
<1>6. /\ marker \in Seq(Nat) /\ type \in Seq(Nat) /\ u \in Seq(Nat)
      /\ v \in Seq(Nat) /\ w \in Seq(Nat)
  BY <1>2, <1>3
<1>7. h \in Seq(Nat) /\ Len(h) = Len(marker) + Len(w) + Len(type)
  BY <1>4, <1>6, ThreeJoined
<1>8. h \in Seq(Nat)
  BY <1>7
<1>9. h \o u \o v \in Seq(Nat) /\ Len(h \o u \o v) = Len(h) + Len(u) + Len(v)
  BY <1>6, <1>8, ThreeJoined
<1>10. Len(h \o u \o v) = 23
  BY <1>2, <1>3, <1>7, <1>9
<1> QED
  BY <1>3, <1>5, <1>8, <1>9, <1>10 DEF h, u, v

LEMMA RouteParts ==
  ASSUME NEW r \in Routes
  PROVE  /\ r.nlri.len \in 1..32 /\ r.nlri.prefix \in Seq(Nat)
         /\ Len(r.nlri.prefix) = 4
         /\ r.as_list \in Seq(AsNumber) /\ Len(r.as_list) \in Nat \ {0}
         /\ DOMAIN r.as_list = 1..Len(r.as_list)
         /\ r.segment_type \in Nat /\ r.next_hop \in Seq(Nat) /\ Len(r.next_hop) = 4
         /\ OriginOf(r) \in Seq(Nat) /\ Len(OriginOf(r)) = 4
         /\ HopOf(r) \in Seq(Nat) /\ Len(HopOf(r)) = 7 /\ HopOf(r)[2] = 3
<1>1. /\ r.nlri.len \in 1..32 /\ r.nlri.prefix \in [1..4 -> Octet]
      /\ r.as_list \in Seq(AsNumber) /\ r.as_list # <<>>
      /\ r.origin \in Octet /\ r.segment_type \in Octet
      /\ r.next_hop \in [1..4 -> Octet]
  BY MessagesConstants
<1> DEFINE prefix == r.nlri.prefix
           hop == r.next_hop
           list == r.as_list
           o == r.origin
           three == <<64, 3, 4>>
<1>2. prefix \in Seq(Nat) /\ Len(prefix) = 4 /\ hop \in Seq(Nat) /\ Len(hop) = 4
  <2>1. prefix \in Seq(Octet) /\ Len(prefix) = 4 /\ hop \in Seq(Octet) /\ Len(hop) = 4
    BY <1>1, FourOctets
  <2> QED
    BY <2>1, OctetsAreNumbers
<1>3. Len(list) \in Nat \ {0} /\ DOMAIN list = 1..Len(list)
  BY <1>1, LenProperties, EmptySeq
<1>4. o \in Nat /\ r.segment_type \in Nat
  BY <1>1, OctetValue
<1>5. /\ OriginOf(r) \in Seq(Nat) /\ Len(OriginOf(r)) = 4
  BY <1>4 DEF OriginOf
<1>6. three \in Seq(Nat) /\ Len(three) = 3 /\ three[2] = 3
  OBVIOUS
<1>7. HopOf(r) = three \o hop
  BY DEF HopOf
<1> HIDE DEF hop, three
<1>8. /\ three \o hop \in Seq(Nat) /\ Len(three \o hop) = Len(three) + Len(hop)
      /\ \A k \in 1..Len(three) : (three \o hop)[k] = three[k]
  <2>1. three \in Seq(Nat) /\ hop \in Seq(Nat)
    BY <1>2, <1>6
  <2> QED
    BY <2>1, Joined
<1>9. HopOf(r) \in Seq(Nat) /\ Len(HopOf(r)) = 7 /\ HopOf(r)[2] = 3
  <2>1. 2 \in 1..Len(three) /\ Len(three) = 3 /\ Len(hop) = 4
    BY <1>2, <1>6 DEF hop
  <2>2. (three \o hop)[2] = three[2] /\ three[2] = 3
    BY <1>6, <1>8, <2>1
  <2>3. Len(three \o hop) = 7
    BY <1>8, <2>1
  <2> QED
    BY <1>7, <1>8, <2>2, <2>3
<1> QED
  BY <1>1, <1>2, <1>3, <1>4, <1>5, <1>9 DEF hop

\* An AS number in either width.
LEMMA AsWritten ==
  ASSUME NEW as \in AsNumber, NEW width \in {2, 4}
  PROVE  /\ as \in Seq(Octet) /\ Len(as) \in {2, 4}
         /\ AsOctets(as, width) \in Seq(Octet) /\ Len(AsOctets(as, width)) = width
         /\ Len(as) = width => AsOctets(as, width) = as
<1>1. as \in Seq(Octet) /\ Len(as) \in {2, 4}
  <2>1. CASE as \in [1..4 -> Octet]
    BY <2>1, FourOctets
  <2>2. CASE as \in [1..2 -> Octet]
    <3> DEFINE two == 2
    <3>1. two \in Nat /\ as \in [1..two -> Octet]
      BY <2>2
    <3> HIDE DEF two
    <3>2. as \in Seq(Octet) /\ Len(as) = two
      BY <3>1, SizedSeq
    <3> QED
      BY <3>2 DEF two
  <2> QED
    BY <2>1, <2>2 DEF AsNumber
<1>2. CASE Len(as) = width
  <2>1. ~(Len(as) = 2 /\ width = 4) /\ ~(Len(as) = 4 /\ width = 2)
    BY <1>2
  <2>2. AsOctets(as, width) = as
    BY <1>2, <2>1, Zenon DEF AsOctets
  <2> QED
    BY <1>1, <1>2, <2>2
<1>3. CASE Len(as) = 2 /\ width = 4
  <2> DEFINE zero == <<0, 0>>
  <2>0. Len(as) # width /\ ~(Len(as) = 4 /\ width = 2)
    BY <1>3
  <2>1. AsOctets(as, width) = zero \o as
    BY <1>3, <2>0, Zenon DEF AsOctets
  <2>2. zero \in Seq(Octet) /\ Len(zero) = 2
    BY DEF Octet
  <2> HIDE DEF zero
  <2>3. zero \in Seq(Octet) /\ as \in Seq(Octet)
    BY <1>1, <2>2
  <2>4. zero \o as \in Seq(Octet) /\ Len(zero \o as) = Len(zero) + Len(as)
    BY <2>3, Joined
  <2>5. Len(zero \o as) = width
    BY <1>3, <2>2, <2>4
  <2>6. Len(as) # width
    BY <1>3
  <2> QED
    BY <1>1, <2>1, <2>4, <2>5, <2>6
<1>4. CASE Len(as) = 4 /\ width = 2
  <2>0. Len(as) # width /\ ~(Len(as) = 2 /\ width = 4)
    BY <1>4
  <2>1. AsOctets(as, width) \in {SubSeq(as, 3, 4), AsTrans}
    <3>1. AsOctets(as, width) =
            IF as[1] = 0 /\ as[2] = 0 THEN SubSeq(as, 3, 4) ELSE AsTrans
      BY <1>4, <2>0, Zenon DEF AsOctets
    <3> QED
      BY <3>1
  <2>2. AsTrans \in Seq(Octet) /\ Len(AsTrans) = 2
    BY DEF AsTrans, Octet
  <2>3. SubSeq(as, 3, 4) \in Seq(Octet) /\ Len(SubSeq(as, 3, 4)) = 2
    <3>1. ASSUME NEW k \in 3..4 PROVE as[k] \in Octet
      <4>1. k \in 1..Len(as)
        BY <1>4
      <4> QED
        BY <1>1, <4>1, ElementOfSeq
    <3> DEFINE x == 3
               y == 4
    <3>1a. \A k \in x..y : as[k] \in Octet
      BY <3>1
    <3>1b. x \in Int /\ y \in Int /\ x <= y /\ y - x + 1 = 2
      OBVIOUS
    <3>2. x \in Int /\ y \in Int /\ x <= y /\ y - x + 1 = 2
          /\ \A k \in x..y : as[k] \in Octet
      BY <3>1a, <3>1b
    <3> HIDE DEF x, y
    <3>3. SubSeq(as, x, y) \in Seq(Octet) /\ Len(SubSeq(as, x, y)) = y - x + 1
      <4>1. x \in Int /\ y \in Int
        BY <3>2
      <4>2. Segments(Octet, as, x, y)
        BY <4>1, PartOf
      <4> QED
        BY <3>2, <4>2 DEF Segments
    <3>4. Len(SubSeq(as, x, y)) = 2
      BY <3>2, <3>3
    <3> QED
      BY <3>3, <3>4 DEF x, y
  <2>4. AsOctets(as, width) \in Seq(Octet) /\ Len(AsOctets(as, width)) = 2
    BY <2>1, <2>2, <2>3
  <2> QED
    BY <1>1, <1>4, <2>0, <2>4
<1> QED
  BY <1>1, <1>2, <1>3, <1>4

LEMMA PathWritten ==
  ASSUME NEW list \in Seq(AsNumber), NEW width \in {2, 4}
  PROVE  /\ OctetsOf(list, width) \in Seq(Octet)
         /\ Len(OctetsOf(list, width)) = width * Len(list)
         /\ (\A k \in DOMAIN list : Len(list[k]) = width) =>
              OctetsOf(list, width) = FlattenSeq(list)
<1> DEFINE n == Len(list)
           p == [k \in DOMAIN list |-> AsOctets(list[k], width)]
<1>1. n \in Nat /\ DOMAIN list = 1..n /\ width \in Nat
  BY LenProperties
<1>2. ASSUME NEW k \in 1..n
      PROVE  /\ list[k] \in Seq(Octet)
             /\ AsOctets(list[k], width) \in Seq(Octet)
             /\ Len(AsOctets(list[k], width)) = width
             /\ Len(list[k]) = width => AsOctets(list[k], width) = list[k]
  <2>1. list[k] \in AsNumber
    BY ElementOfSeq
  <2> QED
    BY <2>1, AsWritten
<1>3. OctetsOf(list, width) = FlattenSeq(p)
  BY DEF OctetsOf
<1> HIDE DEF n
<1>4. /\ p \in Seq(Seq(Octet)) /\ Len(p) = n
      /\ \A k \in 1..n : p[k] = AsOctets(list[k], width)
  BY <1>1, <1>2
<1> HIDE DEF p
<1>5. p \in Seq(Seq(Octet)) /\ \A k \in 1..Len(p) : Len(p[k]) = width
  BY <1>2, <1>4
<1>6. FlattenSeq(p) \in Seq(Octet) /\ Before(p, Len(p)) = Len(FlattenSeq(p))
  BY <1>5, FlattenLayout
<1>7. Len(FlattenSeq(p)) = width * n
  <2>1. \A k \in 0..Len(p) : Before(p, k) = width * k
    BY <1>1, <1>5, EvenPieces
  <2>2. n \in 0..n
    BY <1>1
  <2> QED
    BY <1>4, <1>6, <2>1, <2>2
<1>8. ASSUME \A k \in DOMAIN list : Len(list[k]) = width PROVE p = list
  <2>1. \A k \in 1..n : p[k] = list[k]
    BY <1>1, <1>2, <1>4, <1>8
  <2>2. list \in Seq(Seq(Octet))
    <3>1. ASSUME NEW k \in 1..n PROVE list[k] \in Seq(Octet)
      BY <1>2
    <3>2. list \in [1..n -> Seq(Octet)]
      <4>1. list \in [1..n -> AsNumber]
        BY <1>1, LenProperties DEF n
      <4> QED
        BY <3>1, <4>1
    <3> QED
      BY <1>1, <3>2, SeqDef
  <2> QED
    BY <1>4, <2>1, <2>2, SeqEqual DEF n
<1> QED
  BY <1>3, <1>6, <1>7, <1>8 DEF n

LEMMA FlattenThree ==
  \A x, y, z \in Seq(Nat) : FlattenSeq(<<x, y, z>>) = (x \o y) \o z
<1> DEFINE S == Nat
<1> SUFFICES ASSUME NEW x \in Seq(S), NEW y \in Seq(S), NEW z \in Seq(S)
             PROVE  FlattenSeq(<<x, y, z>>) = (x \o y) \o z
  OBVIOUS
<1> HIDE DEF S
<1>1. <<x>> \in Seq(Seq(S)) /\ Append(<<x>>, y) = <<x, y>>
      /\ <<x, y>> \in Seq(Seq(S)) /\ Append(<<x, y>>, z) = <<x, y, z>>
  <2> DEFINE T == Seq(S)
  <2>1. x \in T /\ y \in T /\ z \in T
    OBVIOUS
  <2> HIDE DEF T
  <2>2. <<x>> \in Seq(T)
    BY <2>1
  <2>3. <<x, y>> \in Seq(T)
    BY <2>1
  <2>3a. <<x, y, z>> \in Seq(T)
    BY <2>1
  <2> DEFINE p == <<x>>
             q == <<x, y>>
             r == <<x, y, z>>
  <2>3b. /\ Len(p) = 1 /\ p[1] = x /\ Len(q) = 2 /\ q[1] = x /\ q[2] = y
         /\ Len(r) = 3 /\ r[1] = x /\ r[2] = y /\ r[3] = z
    OBVIOUS
  <2>3c. p \in Seq(T) /\ q \in Seq(T) /\ r \in Seq(T)
    BY <2>2, <2>3, <2>3a
  <2> HIDE DEF p, q, r
  <2>4. Append(p, y) = q
    <3>1. /\ Append(p, y) \in Seq(T) /\ Len(Append(p, y)) = Len(p) + 1
          /\ \A k \in 1..Len(p) : Append(p, y)[k] = p[k]
          /\ Append(p, y)[Len(p) + 1] = y
      BY <2>1, <2>3c, AppendProperties
    <3>2. Len(Append(p, y)) = 2 /\ Append(p, y)[1] = x /\ Append(p, y)[2] = y
      BY <2>3b, <3>1
    <3>3. \A k \in 1..2 : Append(p, y)[k] = q[k]
      BY <2>3b, <3>2
    <3> QED
      BY <2>3b, <2>3c, <3>1, <3>2, <3>3, SeqEqual
  <2>5. Append(q, z) = r
    <3>1. /\ Append(q, z) \in Seq(T) /\ Len(Append(q, z)) = Len(q) + 1
          /\ \A k \in 1..Len(q) : Append(q, z)[k] = q[k]
          /\ Append(q, z)[Len(q) + 1] = z
      BY <2>1, <2>3c, AppendProperties
    <3>2. Len(Append(q, z)) = 3 /\ Append(q, z)[1] = x /\ Append(q, z)[2] = y
          /\ Append(q, z)[3] = z
      BY <2>3b, <3>1
    <3>3. \A k \in 1..3 : Append(q, z)[k] = r[k]
      BY <2>3b, <3>2
    <3> QED
      BY <2>3b, <2>3c, <3>1, <3>2, <3>3, SeqEqual
  <2> QED
    BY <2>2, <2>3, <2>4, <2>5 DEF T, p, q, r
<1>2. <<x>> \in Seq(Seq(S)) /\ <<x, y>> \in Seq(Seq(S))
  BY <1>1
<1> DEFINE p == <<x>>
           q == <<x, y>>
<1>2a. p \in Seq(Seq(S)) /\ q \in Seq(Seq(S))
  BY <1>2
<1> HIDE DEF p, q
<1>3. FlattenSeq(Append(p, y)) = FlattenSeq(p) \o y
  BY <1>2a, FlattenAppend
<1>4. FlattenSeq(Append(q, z)) = FlattenSeq(q) \o z
  BY <1>2a, FlattenAppend
<1>5. FlattenSeq(<<x>>) = x
  BY FlattenOne
<1> QED
  BY <1>1, <1>3, <1>4, <1>5 DEF p, q

\* An Update is its front, its attributes and its prefix.
LEMMA WholeJoined ==
  ASSUME NEW r \in Routes, NEW front \in Seq(Nat), NEW path \in Seq(Nat),
         NEW prefix \in Seq(Nat)
  PROVE  /\ AttributesOf(r, path) \in Seq(Nat)
         /\ Len(AttributesOf(r, path)) = 11 + Len(path)
         /\ OriginOf(r) \o path \o HopOf(r) = AttributesOf(r, path)
         /\ front \o AttributesOf(r, path) \o prefix = Whole(front, r, path, prefix)
         /\ path \o (HopOf(r) \o prefix) \in Seq(Nat)
         /\ OriginOf(r) \o (path \o (HopOf(r) \o prefix)) \in Seq(Nat)
<1> DEFINE start == OriginOf(r)
           h == HopOf(r)
           ph == path \o h
           hp == h \o prefix
           a == start \o ph
<1>1. start \in Seq(Nat) /\ h \in Seq(Nat) /\ Len(start) = 4 /\ Len(h) = 7
  BY RouteParts
<1> HIDE DEF start, h
<1>2. start \in Seq(Nat) /\ h \in Seq(Nat)
  BY <1>1
<1>3. ph \in Seq(Nat) /\ Len(ph) = Len(path) + Len(h)
  BY <1>2, Joined
<1>4. hp \in Seq(Nat) /\ path \o hp \in Seq(Nat)
  BY <1>2, Joined
<1>5. ph \in Seq(Nat) /\ hp \in Seq(Nat) /\ path \o hp \in Seq(Nat)
  BY <1>3, <1>4
<1>5a. /\ start \in Seq(Nat) /\ h \in Seq(Nat) /\ path \in Seq(Nat)
       /\ prefix \in Seq(Nat) /\ front \in Seq(Nat)
  BY <1>2
<1>6. (path \o h) \o prefix = path \o (h \o prefix)
  <2>1. Associates(path, h, prefix)
    BY <1>5a, Joins
  <2> QED
    BY <2>1 DEF Associates
<1>7. (start \o path) \o h = start \o (path \o h)
  <2>1. Associates(start, path, h)
    BY <1>5a, Joins
  <2> QED
    BY <2>1 DEF Associates
<1>7a. ph \in Seq(Nat) /\ start \in Seq(Nat) /\ prefix \in Seq(Nat)
  BY <1>5, <1>5a
<1>7b. ph \o prefix = path \o hp /\ (start \o path) \o h = start \o ph
  BY <1>6, <1>7
<1> HIDE DEF ph, hp
<1>8. a \in Seq(Nat) /\ Len(a) = Len(start) + Len(ph)
  BY <1>7a, Joined
<1>9. (start \o ph) \o prefix = start \o (ph \o prefix)
  <2>1. Associates(start, ph, prefix)
    BY <1>7a, Joins
  <2> QED
    BY <2>1 DEF Associates
<1>10. start \o (path \o hp) \in Seq(Nat)
  BY <1>2, <1>5, Joined
<1>11. Len(a) = 11 + Len(path)
  <2> DEFINE l == Len(path)
  <2>1. l \in Nat
    BY LenProperties
  <2>2. Len(ph) = l + 7
    BY <1>1, <1>3
  <2> HIDE DEF l
  <2>3. Len(a) = 11 + l
    BY <1>1, <1>8, <2>1, <2>2
  <2> QED
    BY <2>3 DEF l
<1> HIDE DEF a
<1>12. a \in Seq(Nat)
  BY <1>8
<1>12a. front \in Seq(Nat) /\ a \in Seq(Nat) /\ prefix \in Seq(Nat)
  BY <1>5a, <1>12
<1>13. (front \o a) \o prefix = front \o (a \o prefix)
  <2>1. Associates(front, a, prefix)
    BY <1>12a, Joins
  <2> QED
    BY <2>1 DEF Associates
<1>14. AttributesOf(r, path) = a
  BY DEF AttributesOf, a, start, h, ph
<1>15. front \o a \o prefix = front \o (start \o (path \o hp))
  BY <1>7b, <1>9, <1>13 DEF a
<1>16. Whole(front, r, path, prefix) = front \o (start \o (path \o hp))
  BY DEF Whole, start, hp, h
<1>17. start \o path \o h = AttributesOf(r, path)
  BY <1>7b, <1>14 DEF a
<1> QED
  BY <1>5, <1>10, <1>11, <1>12, <1>14, <1>15, <1>16, <1>17 DEF start, h, hp

LEMMA PrefixWritten ==
  ASSUME NEW r \in Routes
  PROVE  LET n == r.nlri IN
         /\ SentPrefix(n) \in Seq(Nat) /\ StandardPrefix(n) \in Seq(Nat)
         /\ Len(SentPrefix(n)) = 1 + SentOctets(n.len)
         /\ Len(StandardPrefix(n)) = 1 + StandardOctets(n.len)
         /\ SentOctets(n.len) \in 1..4 /\ StandardOctets(n.len) \in 1..4
<1> DEFINE n == r.nlri
           len == n.len
           prefix == n.prefix
           one == <<len>>
<1>1. len \in 1..32 /\ prefix \in Seq(Nat) /\ Len(prefix) = 4
  BY RouteParts
<1>2. one \in Seq(Nat) /\ Len(one) = 1
  <2> HIDE DEF len
  <2>1. len \in Nat
    BY <1>1
  <2>2. <<len>> \in Seq(Nat)
    BY <2>1
  <2> QED
    BY <2>2
<1>3. SentOctets(len) \in 1..4
  <2> HIDE DEF len
  <2>1. len = 32 \/ len \in 24..31 \/ len \in 16..23 \/ len \in 0..15
    BY <1>1
  <2>2. SentOctets(len) \in {1, 2, 3, 4}
    BY <2>1, Zenon DEF SentOctets
  <2> QED
    BY <2>2
<1>4. StandardOctets(len) \in 1..4
  <2>1. len \in 1..32
    BY <1>1
  <2> HIDE DEF len
  <2>2. len \in 0..32 /\ len # 0
    BY <2>1
  <2> QED
    BY <2>2, StandardRanges
<1> HIDE DEF len, prefix, one
<1>5. ASSUME NEW j \in 1..4
      PROVE  /\ one \o SubSeq(prefix, 1, j) \in Seq(Nat)
             /\ Len(one \o SubSeq(prefix, 1, j)) = 1 + j
  <2> DEFINE part == SubSeq(prefix, 1, j)
  <2>1. ASSUME NEW k \in 1..j PROVE prefix[k] \in Nat
    <3>1. k \in 1..Len(prefix)
      BY <1>1
    <3> QED
      BY <1>1, <3>1, ElementOfSeq
  <2>2. part \in Seq(Nat) /\ Len(part) = j
    <3> DEFINE x == 1
    <3>1. \A k \in x..j : prefix[k] \in Nat
      BY <2>1
    <3>2. x \in Int /\ j \in Int /\ x <= j /\ j - x + 1 = j
      OBVIOUS
    <3> HIDE DEF x
    <3>3. SubSeq(prefix, x, j) \in Seq(Nat) /\ Len(SubSeq(prefix, x, j)) = j - x + 1
      BY <3>1, <3>2, SubSeqProperties
    <3>4. Len(SubSeq(prefix, x, j)) = j
      BY <3>2, <3>3
    <3> QED
      BY <3>3, <3>4 DEF x
  <2> HIDE DEF part
  <2>3. one \in Seq(Nat) /\ part \in Seq(Nat)
    BY <1>2, <2>2
  <2>4. one \o part \in Seq(Nat) /\ Len(one \o part) = Len(one) + Len(part)
    BY <2>3, Joined
  <2>5. Len(one \o part) = 1 + j
    BY <1>2, <2>2, <2>4
  <2> QED
    BY <2>4, <2>5 DEF part
<1> QED
  BY <1>3, <1>4, <1>5 DEF SentPrefix, StandardPrefix, len, prefix, one

LEMMA OurPath ==
  ASSUME NEW r \in Routes, NEW width \in {2, 4}
  PROVE  LET n == Len(r.as_list)
             fits == \A k \in DOMAIN r.as_list : Len(r.as_list[k]) = width
         IN
         /\ OurAsPath(r, width) =
              IF fits THEN PathOf(r, (2 + width * n) % 256,
                                  OctetsOf(r.as_list, width))
              ELSE <<>>
         /\ OurAsPath(r, width) \in Seq(Nat)
         /\ fits => Len(OurAsPath(r, width)) = 5 + width * n
<1> DEFINE list == r.as_list
           n == Len(list)
           octets == OctetsOf(list, width)
           l == (2 + width * n) % 256
           five == <<64, 2, l, r.segment_type, n>>
           fits == \A k \in DOMAIN list : Len(list[k]) = width
<1>1. list \in Seq(AsNumber) /\ n \in Nat /\ r.segment_type \in Nat /\ width \in Nat
  BY RouteParts
<1>2. /\ octets \in Seq(Octet) /\ Len(octets) = width * n
      /\ fits => octets = FlattenSeq(list)
  BY <1>1, PathWritten
<1>3. octets \in Seq(Nat)
  BY <1>2, OctetsAreNumbers
<1>4. 2 + n * width = 2 + width * n
  <2> HIDE DEF n
  <2> QED
    BY <1>1
<1>5. OurAsPath(r, width) = IF fits THEN five \o octets ELSE <<>>
  BY <1>2, <1>4 DEF OurAsPath, Transitive, AsPathLen
<1>6. five \in Seq(Nat) /\ Len(five) = 5
  <2>1. l \in Nat
    <3> HIDE DEF n
    <3>1. 2 + width * n \in Nat
      BY <1>1
    <3> QED
      BY <3>1
  <2> HIDE DEF n, l
  <2> QED
    BY <1>1, <2>1
<1>7. PathOf(r, l, octets) = five \o octets
  BY DEF PathOf
<1> HIDE DEF five, octets, fits
<1>8. five \in Seq(Nat)
  BY <1>6
<1>9. five \o octets \in Seq(Nat) /\ Len(five \o octets) = Len(five) + Len(octets)
  BY <1>3, <1>8, Joined
<1>10. <<>> \in Seq(Nat)
  OBVIOUS
<1>11. Len(five \o octets) = 5 + width * n
  BY <1>2, <1>6, <1>9
<1> QED
  BY <1>5, <1>7, <1>9, <1>10, <1>11 DEF octets, fits

LEMMA OurBytes ==
  ASSUME NEW r \in Routes, NEW width \in {2, 4}
  PROVE  LET path == OurAsPath(r, width)
             prefix == SentPrefix(r.nlri)
         IN  OurUpdate(r, width) =
               Whole(UpdateFront(34 + Len(path) + Len(prefix), OurAttributesLen(r, width)),
                     r, path, prefix)
<1> DEFINE path == OurAsPath(r, width)
           prefix == SentPrefix(r.nlri)
           start == OriginOf(r)
           three == <<64, 3, 4>>
           hop == r.next_hop
           attributes == start \o path \o three \o hop
           length == 23 + Len(attributes) + Len(prefix)
           n == OurAttributesLen(r, width)
           front == UpdateFront(length, n)
<1>1. OurUpdate(r, width) =
        Header(2, length) \o U16(0) \o U16(n) \o attributes \o prefix
  BY DEF OurUpdate, SentPrefix, Transitive, OriginOf
<1>2. OurUpdate(r, width) = front \o attributes \o prefix
  BY <1>1 DEF UpdateFront
<1>3. /\ path \in Seq(Nat) /\ prefix \in Seq(Nat) /\ start \in Seq(Nat)
      /\ three \in Seq(Nat) /\ hop \in Seq(Nat)
  <2>1. three \in Seq(Nat)
    OBVIOUS
  <2> QED
    BY <2>1, OurPath, PrefixWritten, RouteParts
<1>4. three \o hop = HopOf(r)
  BY DEF HopOf
<1>5. AttributesOf(r, path) = start \o (path \o HopOf(r))
  BY DEF AttributesOf
<1> HIDE DEF path, prefix, start, three, hop
<1>3a. /\ start \in Seq(Nat) /\ path \in Seq(Nat) /\ three \in Seq(Nat)
       /\ hop \in Seq(Nat)
  BY <1>3
<1>6. attributes = start \o (path \o (three \o hop))
  <2> DEFINE two == start \o path
             last == three \o hop
  <2>1. two \in Seq(Nat) /\ last \in Seq(Nat)
    BY <1>3a, Joined
  <2>2. (start \o path) \o last = start \o (path \o last)
    <3> HIDE DEF last
    <3>1. Associates(start, path, last)
      BY <1>3a, <2>1, Joins
    <3> QED
      BY <3>1 DEF Associates
  <2>3. (two \o three) \o hop = two \o (three \o hop)
    <3> HIDE DEF two
    <3>1. Associates(two, three, hop)
      BY <1>3a, <2>1, Joins
    <3> QED
      BY <3>1 DEF Associates
  <2> QED
    BY <2>2, <2>3
<1>7. attributes = AttributesOf(r, path)
  BY <1>4, <1>5, <1>6
<1> HIDE DEF attributes
<1>8. Len(attributes) = 11 + Len(path)
  BY <1>3, <1>7, WholeJoined
<1>9. length = 34 + Len(path) + Len(prefix) /\ length \in Nat
  <2> DEFINE x == Len(path)
             y == Len(prefix)
  <2>1. x \in Nat /\ y \in Nat
    BY <1>3, LenProperties
  <2> HIDE DEF x, y
  <2>2. length = 23 + (11 + x) + y
    BY <1>8 DEF x, y
  <2>3. length = 34 + x + y /\ length \in Nat
    BY <2>1, <2>2
  <2> QED
    BY <2>3 DEF x, y
<1>10. n \in Nat
  <2> DEFINE k == Len(r.as_list)
  <2>1. k \in Nat /\ width \in Nat
    BY RouteParts
  <2>2. n = 4 + (5 + k * width) + 7
    BY DEF OurAttributesLen
  <2> HIDE DEF k, n
  <2>3. k * width \in Nat
    BY <2>1
  <2> QED
    BY <2>2, <2>3
<1> HIDE DEF length, n
<1>11. front \in Seq(Nat)
  BY <1>9, <1>10, FrontBytes
<1> HIDE DEF front
<1>11a. front \in Seq(Nat) /\ path \in Seq(Nat) /\ prefix \in Seq(Nat)
  BY <1>3, <1>11
<1>12. front \o AttributesOf(r, path) \o prefix = Whole(front, r, path, prefix)
  BY <1>11a, WholeJoined
<1> QED
  BY <1>2, <1>7, <1>9, <1>12 DEF front, n, path, prefix

\* The attributes of a route by the standard.
LEMMA TheirAttributes ==
  ASSUME NEW r \in Routes, NEW width \in {2, 4}
  PROVE  LET octets == OctetsOf(r.as_list, width)
             path == PathOf(r, 2 + width * Len(r.as_list), octets)
         IN
         /\ StandardAttribute([code |-> 1, data |-> <<r.origin>>], width) = OriginOf(r)
         /\ StandardAttribute([code |-> 2,
                               data |-> [segment_type |-> r.segment_type,
                                         as_list |-> r.as_list]], width) = path
         /\ StandardAttribute([code |-> 3, data |-> r.next_hop], width) = HopOf(r)
         /\ path \in Seq(Nat) /\ Len(path) = 5 + width * Len(r.as_list)
         /\ octets \in Seq(Nat) /\ Len(octets) = width * Len(r.as_list)
<1> DEFINE list == r.as_list
           n == Len(list)
           octets == OctetsOf(list, width)
           s == r.segment_type
           l == 2 + width * n
           origin == [code |-> 1, data |-> <<r.origin>>]
           aspath == [code |-> 2, data |-> [segment_type |-> s, as_list |-> list]]
           hop == [code |-> 3, data |-> r.next_hop]
<1>1. /\ list \in Seq(AsNumber) /\ n \in Nat \ {0} /\ s \in Nat /\ width \in Nat
      /\ Len(r.next_hop) = 4
  BY RouteParts
<1>2. octets \in Seq(Nat) /\ Len(octets) = width * n
  <2>1. octets \in Seq(Octet) /\ Len(octets) = width * n
    BY <1>1, PathWritten
  <2> QED
    BY <2>1, OctetsAreNumbers
<1>3. StandardAttribute(origin, width) = OriginOf(r)
  <2>1. origin.code = 1 /\ origin.data = <<r.origin>> /\ Len(<<r.origin>>) = 1
    OBVIOUS
  <2> HIDE DEF origin
  <2>2. origin.code \notin {2, 7} /\ origin.code # 2 /\ origin.code # 7
    BY <2>1
  <2>3. StandardData(origin, width) = <<r.origin>>
    BY <2>1, <2>2, Zenon DEF StandardData
  <2>4. AttributeFlags(1) = 64
    <3>1. 1 \in {1, 2, 3, 5, 6} /\ 1 # 4
      OBVIOUS
    <3> QED
      BY <3>1, Zenon DEF AttributeFlags
  <2>5. StandardAttribute(origin, width) = <<64, 1, 1>> \o <<r.origin>>
    BY <2>1, <2>3, <2>4 DEF StandardAttribute
  <2> QED
    BY <2>5, ThreeOne DEF OriginOf
<1>4. StandardAttribute(hop, width) = HopOf(r)
  <2>1. hop.code = 3 /\ hop.data = r.next_hop
    OBVIOUS
  <2> HIDE DEF hop
  <2>2. hop.code \notin {2, 7} /\ hop.code # 2 /\ hop.code # 7
    BY <2>1
  <2>3. StandardData(hop, width) = r.next_hop
    BY <2>1, <2>2, Zenon DEF StandardData
  <2>4. AttributeFlags(3) = 64
    <3>1. 3 \in {1, 2, 3, 5, 6} /\ 3 # 4
      OBVIOUS
    <3> QED
      BY <3>1, Zenon DEF AttributeFlags
  <2>5. StandardAttribute(hop, width) = <<64, 3, 4>> \o r.next_hop
    BY <1>1, <2>1, <2>3, <2>4 DEF StandardAttribute
  <2> QED
    BY <2>5 DEF HopOf
<1> DEFINE two == <<s, n>>
           three == <<64, 2, l>>
           five == <<64, 2, l, s, n>>
           data == two \o octets
<1>5. two \in Seq(Nat) /\ Len(two) = 2
  <2> HIDE DEF n, s
  <2>1. <<s, n>> \in Seq(Nat) /\ Len(<<s, n>>) = 2
    BY <1>1
  <2> QED
    BY <2>1
<1>6. l \in Nat
  <2> HIDE DEF n
  <2> QED
    BY <1>1
<1>7. three \in Seq(Nat)
  <2> HIDE DEF l
  <2>1. <<64, 2, l>> \in Seq(Nat)
    BY <1>6
  <2> QED
    BY <2>1
<1>8. three \o two = five
  <2> HIDE DEF l, s, n
  <2>1. <<64, 2, l>> \o <<s, n>> = <<64, 2, l, s, n>>
    BY ThreeTwo
  <2> QED
    BY <2>1
<1>9. PathOf(r, l, octets) = five \o octets
  BY DEF PathOf
<1>10. StandardData(aspath, width) = data
  <2>1. aspath.code = 2 /\ aspath.data.as_list = list /\ aspath.data.segment_type = s
    OBVIOUS
  <2>2. list # <<>>
    BY <1>1, EmptySeq
  <2> HIDE DEF aspath
  <2>3. aspath.code # 7 /\ ~(aspath.code \notin {2, 7}) /\ aspath.data.as_list # <<>>
    BY <2>1, <2>2
  <2>4. StandardData(aspath, width) =
          <<aspath.data.segment_type, Len(aspath.data.as_list)>>
            \o FlattenSeq([k \in DOMAIN aspath.data.as_list |->
                             AsOctets(aspath.data.as_list[k], width)])
    BY <2>1, <2>3, Zenon DEF StandardData, Each
  <2>5. octets = FlattenSeq([k \in DOMAIN list |-> AsOctets(list[k], width)])
    BY DEF OctetsOf
  <2> HIDE DEF octets
  <2> QED
    BY <2>1, <2>4, <2>5
<1>11. aspath.code = 2
  OBVIOUS
<1>12. AttributeFlags(2) = 64
  <2>1. 2 \in {1, 2, 3, 5, 6} /\ 2 # 4
    OBVIOUS
  <2> QED
    BY <2>1, Zenon DEF AttributeFlags
<1> HIDE DEF list, octets, s, aspath
<1>13. Len(data) = l
  <2> HIDE DEF n, two, l
  <2>1. two \in Seq(Nat) /\ octets \in Seq(Nat)
    BY <1>2, <1>5
  <2>2. Len(two \o octets) = Len(two) + Len(octets)
    BY <2>1, Joined
  <2> QED
    BY <1>2, <1>5, <2>2 DEF l
<1>14. StandardAttribute(aspath, width) = three \o data
  <2> HIDE DEF data, l
  <2> QED
    BY <1>10, <1>11, <1>12, <1>13 DEF StandardAttribute
<1> HIDE DEF two, three, l, n
<1>15. (three \o two) \o octets = three \o (two \o octets)
  <2>1. three \in Seq(Nat) /\ two \in Seq(Nat) /\ octets \in Seq(Nat)
    BY <1>2, <1>5, <1>7
  <2>2. Associates(three, two, octets)
    BY <2>1, Joins
  <2> QED
    BY <2>2 DEF Associates
<1>16. StandardAttribute(aspath, width) = PathOf(r, l, octets)
  BY <1>8, <1>9, <1>14, <1>15
<1>17. three \o data \in Seq(Nat) /\ Len(three \o data) = 3 + l
  <2>1. two \o octets \in Seq(Nat)
    <3>1. two \in Seq(Nat) /\ octets \in Seq(Nat)
      BY <1>2, <1>5
    <3> QED
      BY <3>1, Joined
  <2>2. three \in Seq(Nat) /\ data \in Seq(Nat)
    BY <1>7, <2>1
  <2>3. Len(three) = 3
    BY DEF three
  <2> HIDE DEF data
  <2>4. three \o data \in Seq(Nat) /\ Len(three \o data) = Len(three) + Len(data)
    BY <2>2, Joined
  <2> QED
    BY <1>13, <2>3, <2>4
<1>18. 3 + l = 5 + width * n
  BY <1>1 DEF l
<1>19. PathOf(r, l, octets) \in Seq(Nat) /\ Len(PathOf(r, l, octets)) = 5 + width * n
  BY <1>14, <1>16, <1>17, <1>18
<1> QED
  BY <1>2, <1>3, <1>4, <1>16, <1>19 DEF l, octets, list, s, n, aspath

LEMMA TheirBytes ==
  ASSUME NEW r \in Routes, NEW width \in {2, 4}
  PROVE  LET path == PathOf(r, 2 + width * Len(r.as_list),
                            OctetsOf(r.as_list, width))
             prefix == StandardPrefix(r.nlri)
         IN  StandardMessage(RouteUpdate(r), width) =
               Whole(UpdateFront(34 + Len(path) + Len(prefix), 11 + Len(path)),
                     r, path, prefix)
<1> DEFINE path == PathOf(r, 2 + width * Len(r.as_list), OctetsOf(r.as_list, width))
           prefix == StandardPrefix(r.nlri)
           m == RouteUpdate(r)
           a1 == [code |-> 1, data |-> <<r.origin>>]
           a2 == [code |-> 2, data |-> [segment_type |-> r.segment_type,
                                        as_list |-> r.as_list]]
           a3 == [code |-> 3, data |-> r.next_hop]
           o == OriginOf(r)
           h == HopOf(r)
           all == AttributesOf(r, path)
<1>1. /\ m.type = "Update" /\ m.withdrawn = <<>> /\ m.nlri = <<r.nlri>>
      /\ m.attributes = <<a1, a2, a3>>
  BY DEF RouteUpdate
<1>2. /\ StandardAttribute(a1, width) = o /\ StandardAttribute(a2, width) = path
      /\ StandardAttribute(a3, width) = h /\ path \in Seq(Nat)
  BY TheirAttributes
<1>3. prefix \in Seq(Nat) /\ o \in Seq(Nat) /\ h \in Seq(Nat)
  BY PrefixWritten, RouteParts
<1>4. (o \o path) \o h = all /\ Len(all) = 11 + Len(path) /\ all \in Seq(Nat)
  <2>1. path \in Seq(Nat) /\ prefix \in Seq(Nat)
    BY <1>2, <1>3
  <2> HIDE DEF path, prefix
  <2>2. /\ AttributesOf(r, path) \in Seq(Nat)
        /\ Len(AttributesOf(r, path)) = 11 + Len(path)
        /\ OriginOf(r) \o path \o HopOf(r) = AttributesOf(r, path)
    BY <2>1, WholeJoined
  <2> QED
    BY <2>2
<1>5. Each(StandardPrefix, <<>>) = <<>>
  <2>1. [k \in DOMAIN <<>> |-> StandardPrefix(<<>>[k])] = <<>>
    OBVIOUS
  <2> QED
    BY <2>1, FlattenEmpty DEF Each
<1>6. Each(StandardPrefix, <<r.nlri>>) = prefix
  <2> DEFINE n == r.nlri
             one == <<n>>
             s == [k \in DOMAIN one |-> StandardPrefix(one[k])]
  <2>1. s = <<StandardPrefix(n)>>
    <3> HIDE DEF n
    <3> QED
      OBVIOUS
  <2>2. FlattenSeq(<<prefix>>) = prefix
    <3> HIDE DEF prefix
    <3> QED
      BY <1>3, FlattenOne
  <2> QED
    BY <2>1, <2>2 DEF Each
<1>7. FlattenSeq([k \in DOMAIN m.attributes |->
                    StandardAttribute(m.attributes[k], width)]) = all
  <2> DEFINE s == <<a1, a2, a3>>
             t == [k \in DOMAIN s |-> StandardAttribute(s[k], width)]
  <2> HIDE DEF a1, a2, a3, o, path, h, all
  <2>1. t = <<o, path, h>>
    BY <1>2
  <2>2. o \in Seq(Nat) /\ path \in Seq(Nat) /\ h \in Seq(Nat)
    BY <1>2, <1>3
  <2>3. FlattenSeq(<<o, path, h>>) = o \o path \o h
    BY <2>2, FlattenThree, Zenon
  <2> QED
    BY <1>1, <1>4, <2>1, <2>3
<1> DEFINE w == Each(StandardPrefix, m.withdrawn)
           d == FlattenSeq([k \in DOMAIN m.attributes |->
                              StandardAttribute(m.attributes[k], width)])
           e == Each(StandardPrefix, m.nlri)
           body == U16(Len(w)) \o w \o U16(Len(d)) \o d \o e
<1>8. StandardUpdate(m, width) = Header(2, MinMessageLen + Len(body)) \o body
  BY DEF StandardUpdate, Each
<1>9. StandardMessage(m, width) = StandardUpdate(m, width)
  <2> HIDE DEF m
  <2>1. m.type # "Notification" /\ m.type # "KeepAlive"
    BY <1>1
  <2> QED
    BY <1>1, <2>1, Zenon DEF StandardMessage
<1>10. w = <<>> /\ d = all /\ e = prefix
  <2> HIDE DEF m, all, prefix
  <2> QED
    BY <1>1, <1>5, <1>6, <1>7
<1> HIDE DEF m, w, d, e, all, prefix, path
<1> DEFINE z == U16(0)
           v == U16(Len(all))
<1>11. /\ Len(all) \in Nat /\ Len(prefix) \in Nat /\ Len(path) \in Nat
  BY <1>2, <1>3, <1>4, LenProperties
<1>12. /\ z \in Seq(Nat) /\ v \in Seq(Nat) /\ Len(z) = 2 /\ Len(v) = 2
  BY <1>11, FrontBytes
<1>13. body = z \o v \o all \o prefix
  <2>1. Len(<<>>) = 0
    OBVIOUS
  <2>2. U16(Len(w)) = z
    BY <1>10, <2>1
  <2> HIDE DEF z, v
  <2>3. z \o <<>> = z
    BY <1>12
  <2> QED
    BY <1>10, <2>2, <2>3 DEF v
<1> HIDE DEF z, v, body
<1>14. z \in Seq(Nat) /\ v \in Seq(Nat) /\ all \in Seq(Nat) /\ prefix \in Seq(Nat)
  BY <1>3, <1>4, <1>12
<1>15. z \o v \in Seq(Nat) /\ Len(z \o v) = Len(z) + Len(v)
  BY <1>14, Joined
<1>16. z \o v \o all \in Seq(Nat) /\ Len(z \o v \o all) = Len(z) + Len(v) + Len(all)
  BY <1>14, ThreeJoined
<1> DEFINE zv == z \o v
           zva == zv \o all
           ap == all \o prefix
<1>17. zva \in Seq(Nat) /\ zv \in Seq(Nat)
  BY <1>15, <1>16
<1>18. Len(body) = 4 + Len(all) + Len(prefix)
  <2>1. Len(zva) = Len(z) + Len(v) + Len(all)
    BY <1>16
  <2>2. body = zva \o prefix
    BY <1>13
  <2> HIDE DEF zv, zva
  <2>3. zva \in Seq(Nat) /\ prefix \in Seq(Nat)
    BY <1>14, <1>17
  <2>4. Len(zva \o prefix) = Len(zva) + Len(prefix)
    BY <2>3, Joined
  <2> QED
    BY <1>11, <1>12, <2>1, <2>2, <2>4
<1> DEFINE size == MinMessageLen + Len(body)
           head == Header(2, size)
<1>19. size = 34 + Len(path) + Len(prefix) /\ size \in Nat
  BY <1>4, <1>11, <1>18 DEF MinMessageLen
<1>20. head \in Seq(Nat)
  <2> HIDE DEF size
  <2> QED
    BY <1>11, <1>19, FrontBytes
<1>21. UpdateFront(size, Len(all)) = (head \o z) \o v
  BY DEF UpdateFront, z, v
<1>22. StandardMessage(m, width) = head \o body
  BY <1>8, <1>9
<1> HIDE DEF head, size
<1>23. ap \in Seq(Nat) /\ head \o z \in Seq(Nat)
  <2>1. head \in Seq(Nat) /\ z \in Seq(Nat) /\ all \in Seq(Nat) /\ prefix \in Seq(Nat)
    BY <1>14, <1>20
  <2>2. all \o prefix \in Seq(Nat)
    BY <2>1, Joined
  <2>3. head \o z \in Seq(Nat)
    BY <2>1, Joined
  <2> QED
    BY <2>2, <2>3
<1> DEFINE front == (head \o z) \o v
<1>24. body = zv \o ap
  <2>1. zv \in Seq(Nat) /\ all \in Seq(Nat) /\ prefix \in Seq(Nat)
    BY <1>14, <1>17
  <2> HIDE DEF zv
  <2>2. (zv \o all) \o prefix = zv \o (all \o prefix)
    <3>1. Associates(zv, all, prefix)
      BY <2>1, Joins
    <3> QED
      BY <3>1 DEF Associates
  <2> QED
    BY <1>13, <2>2 DEF zv
<1>25. head \o (zv \o ap) = (head \o zv) \o ap
  <2>1. head \in Seq(Nat) /\ zv \in Seq(Nat) /\ ap \in Seq(Nat)
    BY <1>17, <1>20, <1>23
  <2> HIDE DEF zv, ap
  <2>2. (head \o zv) \o ap = head \o (zv \o ap)
    <3>1. Associates(head, zv, ap)
      BY <2>1, Joins
    <3> QED
      BY <3>1 DEF Associates
  <2> QED
    BY <2>2
<1>26. head \o zv = front
  <2>1. head \in Seq(Nat) /\ z \in Seq(Nat) /\ v \in Seq(Nat)
    BY <1>14, <1>20
  <2>2. (head \o z) \o v = head \o (z \o v)
    <3>1. Associates(head, z, v)
      BY <2>1, Joins
    <3> QED
      BY <3>1 DEF Associates
  <2> QED
    BY <2>2
<1>27. front \in Seq(Nat)
  <2>1. UpdateFront(size, Len(all)) \in Seq(Nat)
    BY <1>11, <1>19, FrontBytes
  <2> QED
    BY <1>21, <2>1
<1> HIDE DEF front, zv
<1>28. (front \o all) \o prefix = front \o (all \o prefix)
  <2>1. front \in Seq(Nat) /\ all \in Seq(Nat) /\ prefix \in Seq(Nat)
    BY <1>14, <1>27
  <2>2. Associates(front, all, prefix)
    BY <2>1, Joins
  <2> QED
    BY <2>2 DEF Associates
<1>29. (front \o all) \o prefix = Whole(front, r, path, prefix)
  <2>1. front \in Seq(Nat) /\ path \in Seq(Nat) /\ prefix \in Seq(Nat)
    BY <1>2, <1>14, <1>27
  <2> QED
    BY <2>1, WholeJoined DEF all
<1>30. StandardMessage(m, width) = Whole(front, r, path, prefix)
  BY <1>22, <1>24, <1>25, <1>26, <1>28, <1>29
<1>31. front = UpdateFront(34 + Len(path) + Len(prefix), 11 + Len(path))
  BY <1>4, <1>19, <1>21 DEF front
<1> QED
  BY <1>30, <1>31 DEF m, path, prefix

\* The length of the path tells the width, once it fits an octet.
LEMMA RouteIsStandard ==
  ASSUME NEW r \in Routes, NEW width \in {2, 4},
         r.nlri.len \in 1..8 \cup {16, 24, 32},
         \A k \in DOMAIN r.as_list : Len(r.as_list[k]) = width,
         ~AsPathOverflows(r.as_list, width)
  PROVE  OurUpdate(r, width) = StandardMessage(RouteUpdate(r), width)
<1> DEFINE n == Len(r.as_list)
           len == r.nlri.len
           octets == OctetsOf(r.as_list, width)
           l == (2 + width * n) % 256
           m == 2 + width * n
           p == OurAsPath(r, width)
           q == PathOf(r, m, octets)
           x == SentPrefix(r.nlri)
           y == StandardPrefix(r.nlri)
           f == UpdateFront(34 + Len(p) + Len(x), OurAttributesLen(r, width))
           g == UpdateFront(34 + Len(q) + Len(y), 11 + Len(q))
<1>1. n \in Nat \ {0} /\ len \in 1..32
  BY RouteParts
<1>2. /\ OurUpdate(r, width) = Whole(f, r, p, x)
      /\ StandardMessage(RouteUpdate(r), width) = Whole(g, r, q, y)
  BY OurBytes, TheirBytes
<1>3. p = PathOf(r, l, octets)
  BY OurPath
<1>4. Len(q) = 5 + width * n
  BY TheirAttributes
<1>5. x = y
  <2>1. len \in 0..32 /\ len \in 1..8 \cup {16, 24, 32}
    BY <1>1
  <2> HIDE DEF len
  <2>2. SentOctets(len) = StandardOctets(len)
    BY <2>1, WrittenAsStandard
  <2> QED
    BY <2>2 DEF SentPrefix, StandardPrefix, len
<1>6. l = m
  <2>1. ~(2 + n * width > 255)
    BY DEF AsPathOverflows, AsPathLen
  <2> HIDE DEF n
  <2> QED
    BY <1>1, <2>1
<1>7. OurAttributesLen(r, width) = 11 + Len(q)
  <2>1. OurAttributesLen(r, width) = 4 + (5 + n * width) + 7
    BY DEF OurAttributesLen
  <2> HIDE DEF n, q
  <2> QED
    BY <1>1, <1>4, <2>1
<1>8. p = q
  BY <1>3, <1>6
<1> HIDE DEF p, q, x, y
<1>9. f = g
  BY <1>5, <1>7, <1>8
<1> QED
  BY <1>2, <1>5, <1>8, <1>9

\* The Update just sent, if any, is that of a route, in our width.
UpdateInv ==
  ours = <<>> \/
  \E r \in Routes, width, other \in {2, 4} :
    ours = <<[route |-> r, width |-> width, peer_width |-> other,
              bytes |-> OurUpdate(r, width)]>>

LEMMA UpdateInvNext == UpdateInv /\ [MessagesNext]_messagesVars => UpdateInv'
<1> SUFFICES ASSUME UpdateInv, [MessagesNext]_messagesVars PROVE UpdateInv'
  OBVIOUS
<1>1. ASSUME ours' = ours \/ ours' = <<>> PROVE UpdateInv'
  BY <1>1 DEF UpdateInv
<1>2. CASE UNCHANGED messagesVars
  BY <1>1, <1>2 DEF messagesVars
<1>3. ASSUME NEW from \in {"Active", "Connect"}, OpenNotSent(from) PROVE UpdateInv'
  BY <1>1, <1>3 DEF OpenNotSent
<1>4. ASSUME NEW from \in {"Active", "Connect"}, NEW peer \in PeerOpens,
             NEW trailing \in BOOLEAN, ExchangeOpens(from, peer, trailing)
      PROVE  UpdateInv'
  BY <1>1, <1>4 DEF ExchangeOpens
<1>5. CASE SessionDown
  BY <1>1, <1>5 DEF SessionDown
<1>6. ASSUME NEW messages \in Reads, PeerSends(messages) PROVE UpdateInv'
  BY <1>1, <1>6 DEF PeerSends
<1>7. CASE TakeUpdate \/ TakeNotification \/ TakeKeepAlive
  BY <1>1, <1>7 DEF TakeUpdate, TakeNotification, TakeKeepAlive
<1>8. CASE Extract
  BY <1>1, <1>8 DEF Extract
<1>9. CASE NextMessage
  BY <1>1, <1>9 DEF NextMessage
<1>10. ASSUME NEW route \in Routes, SendUpdate(route) PROVE UpdateInv'
  <2> DEFINE width == OurWidth
             other == PeerWidth
  <2>1. width \in {2, 4} /\ other \in {2, 4}
    BY DEF OurWidth, PeerWidth, AsWidth
  <2>2. ours' = <<[route |-> route, width |-> width, peer_width |-> other,
                   bytes |-> OurUpdate(route, width)]>>
    BY <1>10 DEF SendUpdate
  <2> HIDE DEF width, other
  <2> QED
    BY <2>1, <2>2, Zenon DEF UpdateInv
<1>11. ASSUME NEW route \in Routes, SendUpdatePanics(route) PROVE UpdateInv'
  BY <1>1, <1>11 DEF SendUpdatePanics
<1> QED
  BY <1>2, <1>3, <1>4, <1>5, <1>6, <1>7, <1>8, <1>9, <1>10, <1>11 DEF MessagesNext

LEMMA UpdateInvStandard == UpdateInv => UpdatesAreStandard
<1> SUFFICES ASSUME UpdateInv, NEW k \in DOMAIN ours
             PROVE  LET u == ours[k] IN
                    /\ u.route.nlri.len \in 1..8 \cup {16, 24, 32}
                    /\ u.width = u.peer_width
                    /\ \A j \in DOMAIN u.route.as_list :
                         Len(u.route.as_list[j]) = u.width
                    /\ ~AsPathOverflows(u.route.as_list, u.width)
                    => u.bytes = StandardMessage(RouteUpdate(u.route), u.peer_width)
  BY DEF UpdatesAreStandard
<1>1. ours # <<>>
  OBVIOUS
<1>2. PICK r \in Routes, width \in {2, 4}, other \in {2, 4} :
        ours = <<[route |-> r, width |-> width, peer_width |-> other,
                  bytes |-> OurUpdate(r, width)]>>
  BY <1>1 DEF UpdateInv
<1> DEFINE u == ours[k]
<1>3. u.route = r /\ u.width = width /\ u.peer_width = other
      /\ u.bytes = OurUpdate(r, width)
  BY <1>2
<1> HIDE DEF u
<1>4. ASSUME u.route.nlri.len \in 1..8 \cup {16, 24, 32}, u.width = u.peer_width,
             \A j \in DOMAIN u.route.as_list : Len(u.route.as_list[j]) = u.width,
             ~AsPathOverflows(u.route.as_list, u.width)
      PROVE  u.bytes = StandardMessage(RouteUpdate(u.route), u.peer_width)
  <2>1. /\ r.nlri.len \in 1..8 \cup {16, 24, 32} /\ width = other
        /\ \A j \in DOMAIN r.as_list : Len(r.as_list[j]) = width
        /\ ~AsPathOverflows(r.as_list, width)
    BY <1>3, <1>4
  <2>2. OurUpdate(r, width) = StandardMessage(RouteUpdate(r), width)
    BY <2>1, RouteIsStandard
  <2> QED
    BY <1>3, <2>1, <2>2
<1> QED
  BY <1>4 DEF u

\* The Update we send (SendUpdateMsg, UpdateMessage::convert_to_bytes) is what the
\* standard writes for the route, in the peer's width, when the mask is one of the
\* eleven the encoder cuts right, both sides use one width, every AS number has it and
\* the path's length fits its octet: for every configuration, peer and route.
THEOREM UpdatesSent == MessagesSpec => []UpdatesAreStandard
<1>1. MessagesInit => UpdateInv
  BY DEF MessagesInit, UpdateInv
<1>2. UpdateInv /\ [MessagesNext]_messagesVars => UpdateInv'
  BY UpdateInvNext
<1>3. UpdateInv => UpdatesAreStandard
  BY UpdateInvStandard
<1> QED
  BY <1>1, <1>2, <1>3, PTL DEF MessagesSpec


-----------------------------------------------------------------------------
(* What stands where in a read.                                            *)

\* s stands at index i of buf.
Lays(buf, i, s) ==
  i + Len(s) <= Len(buf) /\ \A k \in 1..Len(s) : buf[i + k] = s[k]

LEMMA LaysBoth ==
  ASSUME NEW buf \in Seq(Nat), NEW i \in Nat, NEW s \in Seq(Nat),
         NEW t \in Seq(Nat), Lays(buf, i, s \o t)
  PROVE  Lays(buf, i, s) /\ Lays(buf, i + Len(s), t)
<1> DEFINE st == s \o t
           m == Len(s)
           n == Len(t)
           top == Len(buf)
<1>1. /\ st \in Seq(Nat) /\ Len(st) = m + n /\ m \in Nat /\ n \in Nat
      /\ \A k \in 1..m : st[k] = s[k]
      /\ \A k \in 1..n : st[m + k] = t[k]
  BY Joined
<1>2. i + Len(st) <= top /\ \A k \in 1..Len(st) : buf[i + k] = st[k]
  BY DEF Lays
<1>3. top \in Nat
  BY LenProperties
<1> HIDE DEF st, m, n, top
<1>4. i + m <= top /\ \A k \in 1..m : buf[i + k] = s[k]
  <2>1. i + m <= top
    BY <1>1, <1>2, <1>3
  <2>2. ASSUME NEW k \in 1..m PROVE buf[i + k] = s[k]
    <3>1. k \in 1..Len(st)
      BY <1>1
    <3>2. buf[i + k] = st[k] /\ st[k] = s[k]
      BY <1>1, <1>2, <3>1
    <3> QED
      BY <3>2
  <2> QED
    BY <2>1, <2>2
<1>5. i + m + n <= top
  <2>1. Len(st) = m + n /\ m \in Nat /\ n \in Nat
    BY <1>1
  <2>2. i + Len(st) <= top
    BY <1>2
  <2> QED
    BY <2>1, <2>2
<1>6. ASSUME NEW k \in 1..n PROVE buf[i + m + k] = t[k]
  <2>1. m + k \in 1..Len(st) /\ i + (m + k) = i + m + k
    BY <1>1
  <2>2. buf[i + (m + k)] = st[m + k]
    BY <1>2, <2>1
  <2> QED
    BY <1>1, <2>1, <2>2
<1> QED
  BY <1>4, <1>5, <1>6 DEF Lays, m, n, top

\* Of a joined sequence each piece stands where those before it end.
LEMMA LaysPiece ==
  ASSUME NEW buf \in Seq(Nat), NEW i \in Nat, NEW seqs \in Seq(Seq(Nat)),
         Lays(buf, i, FlattenSeq(seqs)), NEW k \in 1..Len(seqs)
  PROVE  /\ Before(seqs, k - 1) \in Nat
         /\ Lays(buf, i + Before(seqs, k - 1), seqs[k])
         /\ Before(seqs, k) = Before(seqs, k - 1) + Len(seqs[k])
         /\ Before(seqs, k) <= Len(FlattenSeq(seqs))
<1> DEFINE f == FlattenSeq(seqs)
           n == Len(seqs)
           u == Before(seqs, k - 1)
           v == Before(seqs, k)
           l == Len(seqs[k])
           top == Len(buf)
           size == Len(f)
<1>1. n \in Nat /\ top \in Nat
  BY LenProperties
<1>2. k - 1 \in 0..n /\ k \in 0..n /\ n \in 0..n /\ k <= n /\ k \in 1..n
  BY <1>1
<1>3. seqs[k] \in Seq(Nat)
  BY ElementOfSeq
<1>4. l \in Nat
  BY <1>3, LenProperties
<1>5. /\ u \in Nat /\ v \in Nat /\ v = u + l /\ v <= Before(seqs, n)
      /\ Before(seqs, n) = size
      /\ \A x \in 1..l : f[u + x] = seqs[k][x]
  BY <1>2, FlattenLayout
<1>6. i + size <= top /\ \A x \in 1..size : buf[i + x] = f[x]
  BY DEF Lays
<1>7. size \in Nat
  BY <1>5, <1>2, FlattenLayout
<1> HIDE DEF f, n, u, v, l, top, size
<1>8. v <= size /\ i + u + l <= top
  BY <1>1, <1>4, <1>5, <1>6, <1>7
<1>9. ASSUME NEW x \in 1..l PROVE buf[i + u + x] = seqs[k][x]
  <2>1. u + x \in 1..size /\ i + (u + x) = i + u + x
    BY <1>4, <1>5, <1>7, <1>8
  <2>2. buf[i + (u + x)] = f[u + x]
    BY <1>6, <2>1
  <2> QED
    BY <1>5, <2>1, <2>2
<1>10. Lays(buf, i + u, seqs[k])
  BY <1>8, <1>9 DEF Lays, l, top
<1> QED
  BY <1>5, <1>8, <1>10 DEF u, v, l, size, f

LEMMA NumberAt ==
  ASSUME NEW buf \in Seq(Nat), NEW i \in Nat, NEW n \in Nat, n < 256 * 256,
         Lays(buf, i, U16(n))
  PROVE  U16At(buf, i) = n /\ At(buf, i) = n \div 256
<1> DEFINE h == (n \div 256) % 256
           l == n % 256
           u == <<h, l>>
           q == n \div 256
<1>1. h \in 0..255 /\ l \in 0..255 /\ 256 * h + l = n /\ h = q
  OBVIOUS
<1>2. U16(n) = u
  BY DEF U16
<1>3. Len(u) = 2 /\ u[1] = h /\ u[2] = l
  OBVIOUS
<1> HIDE DEF h, l, u, q
<1>4. buf[i + 1] = h /\ buf[i + 2] = l
  <2>1. 1 \in 1..Len(u) /\ 2 \in 1..Len(u)
    BY <1>3
  <2>2. buf[i + 1] = u[1] /\ buf[i + 2] = u[2]
    BY <1>2, <2>1 DEF Lays
  <2> QED
    BY <1>3, <2>2
<1>5. U16At(buf, i) = 256 * buf[i + 1] + buf[i + 1 + 1] /\ At(buf, i) = buf[i + 1]
  BY DEF U16At, At
<1>6. i + 1 + 1 = i + 2
  OBVIOUS
<1>7. U16At(buf, i) = 256 * h + l /\ At(buf, i) = h
  BY <1>4, <1>5, <1>6
<1> HIDE DEF q
<1>8. U16At(buf, i) = n /\ At(buf, i) = q
  BY <1>1, <1>7
<1> QED
  BY <1>8 DEF q

LEMMA U16Bytes ==
  ASSUME NEW n \in Nat
  PROVE  U16(n) \in Seq(Nat) /\ Len(U16(n)) = 2
<1> DEFINE h == (n \div 256) % 256
           l == n % 256
<1>1. h \in Nat /\ l \in Nat
  OBVIOUS
<1> HIDE DEF h, l
<1>2. <<h, l>> \in Seq(Nat) /\ Len(<<h, l>>) = 2
  BY <1>1
<1> QED
  BY <1>2 DEF U16, h, l

-----------------------------------------------------------------------------
(* What a peer writes.                                                     *)

LEMMA NumbersOf ==
  ASSUME NEW n \in Nat, NEW v \in [1..n -> Octet]
  PROVE  v \in Seq(Nat) /\ Len(v) = n /\ \A k \in 1..n : v[k] \in Nat
<1>1. v \in Seq(Octet) /\ Len(v) = n
  BY SizedSeq
<1>2. v \in Seq(Nat)
  BY <1>1, OctetsAreNumbers
<1>3. ASSUME NEW k \in 1..n PROVE v[k] \in Nat
  <2>1. v[k] \in Octet
    OBVIOUS
  <2> QED
    BY <2>1, OctetValue
<1> QED
  BY <1>1, <1>2, <1>3

LEMMA PrefixParts ==
  ASSUME NEW n \in PeerPrefix
  PROVE  /\ n.len \in 0..32 /\ n.prefix \in [1..4 -> Nat]
         /\ \A k \in 1..4 : k > StandardOctets(n.len) => n.prefix[k] = 0
         /\ StandardOctets(n.len) \in 0..4
         /\ n = [len |-> n.len, prefix |-> n.prefix]
<1>1. /\ n \in [len : 0..32, prefix : [1..4 -> Octet]]
      /\ \A k \in 1..4 : k > StandardOctets(n.len) => n.prefix[k] = 0
  BY DEF PeerPrefix
<1>2. n.len \in 0..32 /\ n.prefix \in [1..4 -> Octet]
      /\ n = [len |-> n.len, prefix |-> n.prefix]
  BY <1>1
<1>3. n.prefix \in [1..4 -> Nat]
  BY <1>2 DEF Octet
<1>4. StandardOctets(n.len) \in 0..4
  <2> DEFINE len == n.len
  <2>1. len \in 0..32
    BY <1>2
  <2> HIDE DEF len
  <2>2. len = 0 \/ len # 0
    OBVIOUS
  <2>3. StandardOctets(len) \in 0..4
    <3>1. len = 0 => StandardOctets(len) = 0
      BY <2>1, StandardRanges
    <3>2. len # 0 => StandardOctets(len) \in 1..4
      BY <2>1, StandardRanges
    <3> QED
      BY <3>1, <3>2
  <2> QED
    BY <2>3 DEF len
<1> QED
  BY <1>1, <1>2, <1>3, <1>4

LEMMA PrefixBytes ==
  ASSUME NEW n \in PeerPrefix
  PROVE  /\ StandardPrefix(n) \in Seq(Nat)
         /\ Len(StandardPrefix(n)) = 1 + StandardOctets(n.len)
         /\ StandardPrefix(n)[1] = n.len
         /\ \A k \in 1..StandardOctets(n.len) :
              StandardPrefix(n)[1 + k] = n.prefix[k]
<1> DEFINE len == n.len
           prefix == n.prefix
           j == StandardOctets(len)
           one == <<len>>
           part == SubSeq(prefix, 1, j)
<1>1. len \in Nat /\ prefix \in [1..4 -> Nat] /\ j \in 0..4
  BY PrefixParts
<1> HIDE DEF len, prefix, j
<1>2. one \in Seq(Nat) /\ Len(one) = 1 /\ one[1] = len
  BY <1>1
<1>3. part \in Seq(Nat) /\ Len(part) = j /\ \A k \in 1..j : part[k] = prefix[k]
  <2> DEFINE x == 1
  <2>1. x \in Int /\ j \in Int /\ x - 1 <= j /\ j - x + 1 = j
        /\ \A k \in x..j : prefix[k] \in Nat
    BY <1>1
  <2>2. \A k \in 1..j : x + k - 1 = k /\ x + k - 1 \in Int
    BY <1>1
  <2> HIDE DEF x
  <2>3. /\ SubSeq(prefix, x, j) \in Seq(Nat)
        /\ Len(SubSeq(prefix, x, j)) = j - x + 1
        /\ \A k \in 1..(j - x + 1) : SubSeq(prefix, x, j)[k] = prefix[x + k - 1]
    BY <2>1, SubSeqProperties
  <2>4. /\ Len(SubSeq(prefix, x, j)) = j
        /\ \A k \in 1..j : SubSeq(prefix, x, j)[k] = prefix[k]
    BY <2>1, <2>2, <2>3
  <2> QED
    BY <2>3, <2>4 DEF x
<1> HIDE DEF one, part
<1>4. one \in Seq(Nat) /\ part \in Seq(Nat)
  BY <1>2, <1>3
<1>5. /\ one \o part \in Seq(Nat) /\ Len(one \o part) = Len(one) + Len(part)
      /\ \A k \in 1..Len(one) : (one \o part)[k] = one[k]
      /\ \A k \in 1..Len(part) : (one \o part)[Len(one) + k] = part[k]
  BY <1>4, Joined
<1>6. 1 \in 1..Len(one)
  BY <1>2
<1>7. /\ one \o part \in Seq(Nat) /\ Len(one \o part) = 1 + j
      /\ (one \o part)[1] = len
      /\ \A k \in 1..j : (one \o part)[1 + k] = prefix[k]
  BY <1>2, <1>3, <1>5, <1>6
<1> QED
  BY <1>7 DEF StandardPrefix, one, part, len, prefix, j

LEMMA SmallOctet ==
  ASSUME NEW x \in 0..7
  PROVE  x \in Octet
BY DEF Octet

LEMMA NumbersJoined ==
  ASSUME NEW s \in Seq(Nat), NEW t \in Seq(Nat)
  PROVE  s \o t \in Seq(Nat) /\ Len(s \o t) = Len(s) + Len(t)
BY Joined

LEMMA PiecesLaid ==
  ASSUME NEW seqs \in Seq(Seq(Nat))
  PROVE  \A y \in 1..Len(seqs) : \A x \in 1..Len(seqs[y]) :
           FlattenSeq(seqs)[Before(seqs, y - 1) + x] = seqs[y][x]
BY FlattenLayout

\* The attributes by their type code.
LEMMA AttributeKinds ==
  ASSUME NEW a \in PeerAttribute
  PROVE  /\ a.code \in Octet
         /\ a.code = 1 => a.data \in [1..1 -> 0..2]
         /\ a.code = 2 => /\ a.data.segment_type \in {1, 2}
                          /\ a.data.as_list \in Seq(AsNumber)
                          /\ a.data = [segment_type |-> a.data.segment_type,
                                       as_list |-> a.data.as_list]
         /\ a.code \in {3, 4, 5} => a.data \in [1..4 -> Octet]
         /\ a.code = 6 => a.data = <<>>
         /\ a.code = 7 => /\ a.data[1] \in AsNumber
                          /\ a.data[2] \in [1..4 -> Octet]
                          /\ a.data = <<a.data[1], a.data[2]>>
         /\ a.code \notin 1..7 => a.data \in Seq(Octet)
<1>1. CASE a \in [code : {1}, data : [1..1 -> 0..2]]
  <2>1. a.code = 1 /\ a.data \in [1..1 -> 0..2]
    BY <1>1
  <2>2. a.code \in Octet
    BY <2>1, SmallOctet
  <2>3. a.code # 2 /\ a.code \notin {3, 4, 5} /\ a.code # 6 /\ a.code # 7
        /\ a.code \in 1..7
    BY <2>1
  <2> QED
    BY <2>1, <2>2, <2>3
<1>2. CASE a \in [code : {2}, data : [segment_type : {1, 2}, as_list : Seq(AsNumber)]]
  <2>1. a.code = 2 /\ a.data \in [segment_type : {1, 2}, as_list : Seq(AsNumber)]
    BY <1>2
  <2>2. a.code \in Octet
    BY <2>1, SmallOctet
  <2>3. a.code # 1 /\ a.code \notin {3, 4, 5} /\ a.code # 6 /\ a.code # 7
        /\ a.code \in 1..7
    BY <2>1
  <2>4. /\ a.data.segment_type \in {1, 2} /\ a.data.as_list \in Seq(AsNumber)
        /\ a.data = [segment_type |-> a.data.segment_type,
                     as_list |-> a.data.as_list]
    BY <2>1
  <2> QED
    BY <2>1, <2>2, <2>3, <2>4
<1>3. CASE a \in [code : {3, 4, 5}, data : [1..4 -> Octet]]
  <2>1. a.code \in {3, 4, 5} /\ a.data \in [1..4 -> Octet]
    BY <1>3
  <2>2. a.code \in Octet
    BY <2>1, SmallOctet
  <2>3. a.code # 1 /\ a.code # 2 /\ a.code # 6 /\ a.code # 7 /\ a.code \in 1..7
    BY <2>1
  <2> QED
    BY <2>1, <2>2, <2>3
<1>4. CASE a \in [code : {6}, data : {<<>>}]
  <2>1. a.code = 6 /\ a.data = <<>>
    BY <1>4
  <2>2. a.code \in Octet
    BY <2>1, SmallOctet
  <2>3. a.code # 1 /\ a.code # 2 /\ a.code \notin {3, 4, 5} /\ a.code # 7
        /\ a.code \in 1..7
    BY <2>1
  <2> QED
    BY <2>1, <2>2, <2>3
<1>5. CASE a \in [code : {7}, data : AsNumber \X [1..4 -> Octet]]
  <2>1. a.code = 7 /\ a.data \in AsNumber \X [1..4 -> Octet]
    BY <1>5
  <2>2. /\ a.data[1] \in AsNumber /\ a.data[2] \in [1..4 -> Octet]
        /\ a.data = <<a.data[1], a.data[2]>>
    BY <2>1
  <2>3. a.code \in Octet /\ a.code # 1 /\ a.code # 2 /\ a.code \notin {3, 4, 5}
        /\ a.code # 6 /\ a.code \in 1..7
    BY <2>1 DEF Octet
  <2> QED
    BY <2>1, <2>2, <2>3
<1>6. CASE a \in [code : Octet \ 1..7, data : Seq(Octet)]
  <2>1. a.code \in Octet \ 1..7 /\ a.data \in Seq(Octet)
    BY <1>6
  <2>2. a.code # 1 /\ a.code # 2 /\ a.code \notin {3, 4, 5} /\ a.code # 6
        /\ a.code # 7
    BY <2>1
  <2> QED
    BY <2>1, <2>2
<1> QED
  BY <1>1, <1>2, <1>3, <1>4, <1>5, <1>6 DEF PeerAttribute

\* The data of an attribute that is not an AS path or an aggregator.
LEMMA PlainData ==
  ASSUME NEW a, NEW width, a.code \notin {2, 7}
  PROVE  StandardData(a, width) = a.data
<1>1. ~(a.code = 2 /\ a.data.as_list = <<>>) /\ ~(a.code = 2 /\ a.data.as_list # <<>>)
      /\ ~(a.code = 7)
  OBVIOUS
<1> QED
  BY <1>1, Zenon DEF StandardData

LEMMA PathData ==
  ASSUME NEW a, NEW width, a.code = 2
  PROVE  StandardData(a, width) =
           IF a.data.as_list = <<>> THEN <<>>
           ELSE <<a.data.segment_type, Len(a.data.as_list)>>
                  \o OctetsOf(a.data.as_list, width)
<1>1. ~(a.code = 7) /\ ~(a.code \notin {2, 7})
  OBVIOUS
<1>2. CASE a.data.as_list = <<>>
  <2>1. a.code = 2 /\ a.data.as_list = <<>> /\ ~(a.code = 2 /\ a.data.as_list # <<>>)
    BY <1>2
  <2> QED
    BY <1>1, <2>1, Zenon DEF StandardData
<1>3. CASE a.data.as_list # <<>>
  <2>1. a.code = 2 /\ a.data.as_list # <<>> /\ ~(a.code = 2 /\ a.data.as_list = <<>>)
    BY <1>3
  <2>2. StandardData(a, width) =
          <<a.data.segment_type, Len(a.data.as_list)>>
            \o Each(LAMBDA as : AsOctets(as, width), a.data.as_list)
    BY <1>1, <2>1, Zenon DEF StandardData, Each
  <2> QED
    BY <2>1, <2>2 DEF Each, OctetsOf
<1> QED
  BY <1>2, <1>3

LEMMA AggregatorData ==
  ASSUME NEW a, NEW width, a.code = 7
  PROVE  StandardData(a, width) = AsOctets(a.data[1], width) \o a.data[2]
<1>1. ~(a.code = 2 /\ a.data.as_list = <<>>) /\ ~(a.code = 2 /\ a.data.as_list # <<>>)
      /\ ~(a.code \notin {2, 7})
  OBVIOUS
<1> QED
  BY <1>1, Zenon DEF StandardData

\* The octets of an AS path: its segment, the number of AS numbers, and these.
LEMMA PathBytes ==
  ASSUME NEW type \in Nat, NEW list \in Seq(AsNumber), NEW width \in {2, 4}
  PROVE  LET d == <<type, Len(list)>> \o OctetsOf(list, width) IN
         /\ d \in Seq(Nat) /\ Len(list) \in Nat /\ DOMAIN list = 1..Len(list)
         /\ Len(d) = 2 + width * Len(list)
         /\ d[1] = type /\ d[2] = Len(list)
         /\ \A k \in 1..Len(OctetsOf(list, width)) :
              d[2 + k] = OctetsOf(list, width)[k]
<1> DEFINE n == Len(list)
           v == OctetsOf(list, width)
<1>1. n \in Nat /\ DOMAIN list = 1..n
  BY LenProperties
<1>2. v \in Seq(Octet) /\ Len(v) = width * n
  BY PathWritten
<1>3. v \in Seq(Nat)
  BY <1>2, OctetsAreNumbers
<1> HIDE DEF n, v
<1>4. /\ <<type, n>> \o v \in Seq(Nat) /\ Len(<<type, n>> \o v) = 2 + Len(v)
      /\ (<<type, n>> \o v)[1] = type /\ (<<type, n>> \o v)[2] = n
      /\ \A k \in 1..Len(v) : (<<type, n>> \o v)[2 + k] = v[k]
  BY <1>1, <1>3, TwoAhead
<1>5. Len(<<type, n>> \o v) = 2 + width * n
  BY <1>2, <1>4
<1> QED
  BY <1>1, <1>4, <1>5 DEF n, v

LEMMA DataBytes ==
  ASSUME NEW a \in PeerAttribute, NEW width \in {2, 4}
  PROVE  /\ StandardData(a, width) \in Seq(Nat)
         /\ a.code = 1 => /\ StandardData(a, width) = a.data
                          /\ Len(a.data) = 1 /\ a.data[1] \in 0..2
         /\ a.code \in {3, 4, 5} => /\ StandardData(a, width) = a.data
                                    /\ Len(a.data) = 4
         /\ a.code = 6 => StandardData(a, width) = <<>> /\ a.data = <<>>
         /\ a.code = 7 => /\ Len(StandardData(a, width)) = width + 4
                          /\ AsOctets(a.data[1], width) \in Seq(Nat)
                          /\ Len(AsOctets(a.data[1], width)) = width
                          /\ a.data[2] \in Seq(Nat) /\ Len(a.data[2]) = 4
<1> USE AttributeKinds
<1>1. CASE a.code = 1
  <2> DEFINE one == 1
  <2>1. one \in Nat /\ a.data \in [1..one -> 0..2]
    BY <1>1
  <2> HIDE DEF one
  <2>2. a.data \in [1..one -> Octet]
    <3>1. \A x \in 0..2 : x \in Octet
      BY SmallOctet
    <3> QED
      BY <2>1, <3>1
  <2>3. a.data \in Seq(Nat) /\ Len(a.data) = one
    BY <2>1, <2>2, NumbersOf
  <2>4. a.data[1] \in 0..2
    BY <2>1 DEF one
  <2>5. StandardData(a, width) = a.data
    BY <1>1, PlainData
  <2> QED
    BY <1>1, <2>3, <2>4, <2>5 DEF one
<1>2. CASE a.code = 2
  <2> DEFINE list == a.data.as_list
             type == a.data.segment_type
  <2>1. list \in Seq(AsNumber) /\ type \in Nat
    <3>1. list \in Seq(AsNumber) /\ type \in {1, 2}
      BY <1>2, AttributeKinds
    <3> HIDE DEF list, type
    <3> QED
      BY <3>1
  <2>2. StandardData(a, width) = IF list = <<>> THEN <<>>
                                 ELSE <<type, Len(list)>> \o OctetsOf(list, width)
    BY <1>2, PathData
  <2> HIDE DEF list, type
  <2>3. <<type, Len(list)>> \o OctetsOf(list, width) \in Seq(Nat)
    BY <2>1, PathBytes
  <2>4. <<>> \in Seq(Nat)
    OBVIOUS
  <2>5. StandardData(a, width) \in Seq(Nat)
    BY <2>2, <2>3, <2>4
  <2> QED
    BY <1>2, <2>5
<1>3. CASE a.code \in {3, 4, 5}
  <2> DEFINE four == 4
  <2>1. four \in Nat /\ a.data \in [1..four -> Octet]
    BY <1>3
  <2> HIDE DEF four
  <2>2. a.data \in Seq(Nat) /\ Len(a.data) = four
    BY <2>1, NumbersOf
  <2>3. StandardData(a, width) = a.data
    BY <1>3, PlainData
  <2> QED
    BY <1>3, <2>2, <2>3 DEF four
<1>4. CASE a.code = 6
  <2>1. a.code \notin {2, 7}
    BY <1>4
  <2>2. StandardData(a, width) = a.data
    BY <2>1, PlainData
  <2>3. a.data = <<>>
    BY <1>4, AttributeKinds
  <2>4. <<>> \in Seq(Nat) /\ a.code # 1 /\ a.code \notin {3, 4, 5} /\ a.code # 7
    BY <1>4
  <2> QED
    BY <2>2, <2>3, <2>4
<1>5. CASE a.code = 7
  <2> DEFINE as == AsOctets(a.data[1], width)
             id == a.data[2]
             four == 4
  <2>1. a.data[1] \in AsNumber /\ four \in Nat /\ id \in [1..four -> Octet]
    BY <1>5
  <2>2. StandardData(a, width) = as \o id
    BY <1>5, AggregatorData
  <2>3. as \in Seq(Octet) /\ Len(as) = width
    BY <2>1, AsWritten
  <2>4. as \in Seq(Nat)
    BY <2>3, OctetsAreNumbers
  <2> HIDE DEF as, id, four
  <2>5. id \in Seq(Nat) /\ Len(id) = four
    BY <2>1, NumbersOf
  <2>6. as \o id \in Seq(Nat) /\ Len(as \o id) = Len(as) + Len(id)
    <3>1. as \in Seq(Nat) /\ id \in Seq(Nat)
      BY <2>4, <2>5
    <3> QED
      BY <3>1, NumbersJoined
  <2>7. Len(StandardData(a, width)) = width + 4
    BY <2>2, <2>3, <2>5, <2>6 DEF four
  <2> QED
    BY <1>5, <2>2, <2>3, <2>4, <2>5, <2>6, <2>7 DEF as, id, four
<1>6. CASE a.code \notin 1..7
  <2>1. a.code \notin {2, 7} /\ a.data \in Seq(Octet)
    <3>1. a.code \notin {2, 7}
      BY <1>6
    <3>2. a.data \in Seq(Octet)
      BY <1>6, AttributeKinds
    <3> QED
      BY <3>1, <3>2
  <2>2. StandardData(a, width) = a.data
    BY <2>1, PlainData
  <2>3. a.data \in Seq(Nat)
    BY <2>1, OctetsAreNumbers
  <2> QED
    BY <1>6, <2>2, <2>3
<1>7. a.code \in 1..7 <=> a.code \in {1, 2, 3, 4, 5, 6, 7}
  <2> DEFINE code == a.code
  <2>1. code \in Octet
    OBVIOUS
  <2> HIDE DEF code
  <2>2. code \in Nat
    BY <2>1, OctetValue
  <2>3. code \in 1..7 <=> code \in {1, 2, 3, 4, 5, 6, 7}
    BY <2>2
  <2> QED
    BY <2>3 DEF code
<1> QED
  BY <1>1, <1>2, <1>3, <1>4, <1>5, <1>6, <1>7

LEMMA AttributeBytes ==
  ASSUME NEW a \in PeerAttribute, NEW width \in {2, 4}
  PROVE  LET d == StandardData(a, width)
             s == StandardAttribute(a, width)
         IN  /\ s \in Seq(Nat) /\ Len(d) \in Nat /\ Len(s) = 3 + Len(d)
             /\ s[2] = a.code /\ s[3] = Len(d)
             /\ \A k \in 1..Len(d) : s[3 + k] = d[k]
<1> DEFINE d == StandardData(a, width)
           n == Len(d)
           f == AttributeFlags(a.code)
           c == a.code
           h == <<f, c, n>>
<1>1. d \in Seq(Nat)
  BY DataBytes
<1>2. n \in Nat
  BY <1>1, LenProperties
<1>3. c \in Nat
  BY AttributeKinds, OctetValue
<1>4. f \in Nat
  <2>1. c \in {1, 2, 3, 5, 6} => f = 64
    <3>1. c \in {1, 2, 3, 5, 6} => c # 4
      OBVIOUS
    <3> QED
      BY <3>1, Zenon DEF AttributeFlags
  <2>2. c = 4 => f = 128
    <3>1. c = 4 => c \notin {1, 2, 3, 5, 6}
      OBVIOUS
    <3> QED
      BY <3>1, Zenon DEF AttributeFlags
  <2>3. c \notin {1, 2, 3, 5, 6} /\ c # 4 => f = 192
    BY Zenon DEF AttributeFlags
  <2> HIDE DEF f, c
  <2> QED
    BY <2>1, <2>2, <2>3
<1>5. StandardAttribute(a, width) = h \o d
  BY DEF StandardAttribute
<1> HIDE DEF d, n, f, c
<1>6. h \in Seq(Nat) /\ Len(h) = 3 /\ h[2] = c /\ h[3] = n
  BY <1>2, <1>3, <1>4
<1> HIDE DEF h
<1>7. h \in Seq(Nat)
  BY <1>6
<1>8. /\ h \o d \in Seq(Nat) /\ Len(h \o d) = Len(h) + Len(d)
      /\ \A k \in 1..Len(h) : (h \o d)[k] = h[k]
      /\ \A k \in 1..Len(d) : (h \o d)[Len(h) + k] = d[k]
  BY <1>1, <1>7, Joined
<1>9. 2 \in 1..Len(h) /\ 3 \in 1..Len(h)
  BY <1>6
<1>10. (h \o d)[2] = c /\ (h \o d)[3] = n /\ Len(h \o d) = 3 + n
  BY <1>6, <1>8, <1>9 DEF n
<1>11. \A k \in 1..n : (h \o d)[3 + k] = d[k]
  BY <1>6, <1>8 DEF n
<1> QED
  BY <1>2, <1>5, <1>8, <1>10, <1>11 DEF d, n, c

PrefixPieces(list) == [k \in DOMAIN list |-> StandardPrefix(list[k])]
AttributePieces(list, width) ==
  [k \in DOMAIN list |-> StandardAttribute(list[k], width)]

LEMMA PrefixesWritten ==
  ASSUME NEW list \in Seq(PeerPrefix)
  PROVE  /\ PrefixPieces(list) \in Seq(Seq(Nat))
         /\ Len(PrefixPieces(list)) = Len(list) /\ Len(list) \in Nat
         /\ \A k \in 1..Len(list) :
              /\ list[k] \in PeerPrefix
              /\ PrefixPieces(list)[k] = StandardPrefix(list[k])
         /\ Each(StandardPrefix, list) = FlattenSeq(PrefixPieces(list))
         /\ Each(StandardPrefix, list) \in Seq(Nat)
<1> DEFINE n == Len(list)
           p == PrefixPieces(list)
<1>1. n \in Nat /\ DOMAIN list = 1..n
  BY LenProperties
<1>2. ASSUME NEW k \in 1..n
      PROVE  list[k] \in PeerPrefix /\ StandardPrefix(list[k]) \in Seq(Nat)
  <2>1. list[k] \in PeerPrefix
    BY ElementOfSeq
  <2> QED
    BY <2>1, PrefixBytes
<1>3. p = [k \in 1..n |-> StandardPrefix(list[k])]
  BY <1>1 DEF PrefixPieces
<1>4. Each(StandardPrefix, list) = FlattenSeq(p)
  BY DEF Each, PrefixPieces
<1> HIDE DEF n, p
<1>5. p \in [1..n -> Seq(Nat)] /\ \A k \in 1..n : p[k] = StandardPrefix(list[k])
  BY <1>2, <1>3
<1>6. p \in Seq(Seq(Nat)) /\ Len(p) = n
  BY <1>1, <1>5, SizedSeq
<1>7. FlattenSeq(p) \in Seq(Nat)
  BY <1>6, FlattenType
<1> QED
  BY <1>1, <1>2, <1>4, <1>5, <1>6, <1>7 DEF n, p

LEMMA AttributesWritten ==
  ASSUME NEW list \in Seq(PeerAttribute), NEW width \in {2, 4}
  PROVE  LET p == AttributePieces(list, width) IN
         /\ p \in Seq(Seq(Nat)) /\ Len(p) = Len(list) /\ Len(list) \in Nat
         /\ \A k \in 1..Len(list) :
              list[k] \in PeerAttribute /\ p[k] = StandardAttribute(list[k], width)
         /\ FlattenSeq(p) \in Seq(Nat)
<1> DEFINE n == Len(list)
           p == AttributePieces(list, width)
<1>1. n \in Nat /\ DOMAIN list = 1..n
  BY LenProperties
<1>2. ASSUME NEW k \in 1..n
      PROVE  list[k] \in PeerAttribute /\ StandardAttribute(list[k], width) \in Seq(Nat)
  <2>1. list[k] \in PeerAttribute
    BY ElementOfSeq
  <2> QED
    BY <2>1, AttributeBytes
<1>3. p = [k \in 1..n |-> StandardAttribute(list[k], width)]
  BY <1>1 DEF AttributePieces
<1> HIDE DEF n, p
<1>4. p \in [1..n -> Seq(Nat)]
      /\ \A k \in 1..n : p[k] = StandardAttribute(list[k], width)
  BY <1>2, <1>3
<1>5. p \in Seq(Seq(Nat)) /\ Len(p) = n
  BY <1>1, <1>4, SizedSeq
<1>6. FlattenSeq(p) \in Seq(Nat)
  BY <1>5, FlattenType
<1> QED
  BY <1>1, <1>2, <1>4, <1>5, <1>6 DEF n, p

\* The three parts of an Update.
WithdrawnBytes(m) == FlattenSeq(PrefixPieces(m.withdrawn))
AttributesBytes(m, width) == FlattenSeq(AttributePieces(m.attributes, width))
NlriBytes(m) == FlattenSeq(PrefixPieces(m.nlri))

LEMMA UpdateParts ==
  ASSUME NEW m \in PeerUpdate
  PROVE  /\ m.type = "Update"
         /\ m.withdrawn \in Seq(PeerPrefix) /\ m.nlri \in Seq(PeerPrefix)
         /\ m.attributes \in Seq(PeerAttribute)
         /\ m.nlri # <<>> => m.attributes # <<>>
         /\ \A width \in {2, 4} :
              /\ Len(StandardUpdate(m, width)) <= MaxMessageLen
              /\ \A k \in DOMAIN m.attributes :
                   Len(StandardData(m.attributes[k], width)) <= 255
BY DEF PeerUpdate

\* Where they stand, with their lengths, in a read that begins with it.
UpdateAt(buf, m, width) ==
  LET w == Len(WithdrawnBytes(m))
      a == Len(AttributesBytes(m, width))
      n == Len(NlriBytes(m))
  IN  /\ U16At(buf, 16) = 23 + w + a + n
      /\ U16At(buf, 19) = w /\ At(buf, 19) = w \div 256
      /\ Lays(buf, 21, WithdrawnBytes(m))
      /\ U16At(buf, 21 + w) = a
      /\ Lays(buf, 23 + w, AttributesBytes(m, width))
      /\ Lays(buf, 23 + w + a, NlriBytes(m))
      /\ 23 + w + a + n <= Len(buf)

LEMMA UpdateLayout ==
  ASSUME NEW m \in PeerUpdate, NEW width \in {2, 4}
  PROVE  LET w == Len(WithdrawnBytes(m))
             a == Len(AttributesBytes(m, width))
             n == Len(NlriBytes(m))
             s == StandardUpdate(m, width)
         IN  /\ s \in Seq(Nat) /\ w \in Nat /\ a \in Nat /\ n \in Nat
             /\ 23 + w + a + n <= 4096
             /\ \A buf \in Seq(Nat) : Lays(buf, 0, s) => UpdateAt(buf, m, width)
<1> DEFINE W == WithdrawnBytes(m)
           A == AttributesBytes(m, width)
           N == NlriBytes(m)
           w == Len(W)
           a == Len(A)
           n == Len(N)
           uw == U16(w)
           ua == U16(a)
           b1 == uw \o W
           b2 == b1 \o ua
           b3 == b2 \o A
           body == b3 \o N
           h == Header(2, 19 + Len(body))
           s == h \o body
<1>1. /\ Each(StandardPrefix, m.withdrawn) = W /\ W \in Seq(Nat)
      /\ Each(StandardPrefix, m.nlri) = N /\ N \in Seq(Nat)
  BY UpdateParts, PrefixesWritten DEF WithdrawnBytes, NlriBytes
<1>2. A \in Seq(Nat)
  BY UpdateParts, AttributesWritten DEF AttributesBytes
<1>3. StandardUpdate(m, width) = s
  BY <1>1 DEF StandardUpdate, AttributesBytes, AttributePieces, Each, MinMessageLen
<1> HIDE DEF W, A, N
<1>4. w \in Nat /\ a \in Nat /\ n \in Nat
  BY <1>1, <1>2, LenProperties
<1> HIDE DEF w, a, n
<1>5. uw \in Seq(Nat) /\ Len(uw) = 2 /\ ua \in Seq(Nat) /\ Len(ua) = 2
  BY <1>4, U16Bytes
<1> HIDE DEF uw, ua
<1>6. b1 \in Seq(Nat) /\ Len(b1) = 2 + w
  <2>1. b1 \in Seq(Nat) /\ Len(b1) = Len(uw) + Len(W)
    BY <1>1, <1>5, Joined
  <2> HIDE DEF b1
  <2> QED
    BY <1>5, <2>1 DEF w
<1> HIDE DEF b1
<1>7. b2 \in Seq(Nat) /\ Len(b2) = 4 + w
  <2>1. b2 \in Seq(Nat) /\ Len(b2) = Len(b1) + Len(ua)
    BY <1>5, <1>6, Joined
  <2> HIDE DEF b2
  <2> QED
    BY <1>4, <1>5, <1>6, <2>1
<1> HIDE DEF b2
<1>8. b3 \in Seq(Nat) /\ Len(b3) = 4 + w + a
  <2>1. b3 \in Seq(Nat) /\ Len(b3) = Len(b2) + Len(A)
    BY <1>2, <1>7, Joined
  <2> HIDE DEF b3
  <2> QED
    BY <1>4, <1>7, <2>1 DEF a
<1> HIDE DEF b3
<1>9. body \in Seq(Nat) /\ Len(body) = 4 + w + a + n
  <2>1. body \in Seq(Nat) /\ Len(body) = Len(b3) + Len(N)
    BY <1>1, <1>8, Joined
  <2> HIDE DEF body
  <2> QED
    BY <1>4, <1>8, <2>1 DEF n
<1> HIDE DEF body
<1> DEFINE length == 19 + Len(body)
<1>10. length \in Nat /\ length = 23 + w + a + n
  BY <1>4, <1>9
<1>11. length <= 4096
  <2>1. Len(StandardUpdate(m, width)) <= 4096
    BY UpdateParts DEF MaxMessageLen
  <2>2. h \in Seq(Nat) /\ Len(h) = 19
    <3>1. 2 \in Nat /\ length \in Nat
      BY <1>10
    <3> HIDE DEF length
    <3>2. Header(2, length) \in Seq(Nat) /\ Len(UpdateFront(length, 0)) = 23
      BY <3>1, FrontBytes
    <3>3. Header(2, length) = [k \in 1..16 |-> 255] \o U16(length) \o <<2>>
      BY DEF Header
    <3> DEFINE marker == [k \in 1..16 |-> 255]
               sixteen == 16
    <3>4. marker \in [1..sixteen -> Octet] /\ sixteen \in Nat
      BY DEF Octet
    <3>5. Header(2, length) = marker \o U16(length) \o <<2>>
      BY <3>3
    <3> DEFINE number == U16(length)
               type == <<2>>
               header == Header(2, length)
    <3>6. type \in Seq(Nat) /\ Len(type) = 1
      OBVIOUS
    <3>7. number \in Seq(Nat) /\ Len(number) = 2
      BY <3>1, U16Bytes
    <3>8. header = marker \o number \o type
      BY <3>5
    <3> HIDE DEF marker, sixteen, number, type, header
    <3>9. marker \in Seq(Nat) /\ Len(marker) = sixteen
      BY <3>4, NumbersOf
    <3>10. Len(header) = Len(marker) + Len(number) + Len(type)
      <4>0. marker \in Seq(Nat) /\ number \in Seq(Nat) /\ type \in Seq(Nat)
        BY <3>6, <3>7, <3>9
      <4>1. /\ marker \o number \o type \in Seq(Nat)
            /\ Len(marker \o number \o type) = Len(marker) + Len(number) + Len(type)
        BY <4>0, ThreeJoined
      <4> QED
        BY <3>8, <4>1
    <3>11. Len(header) = sixteen + 2 + 1
      BY <3>6, <3>7, <3>9, <3>10
    <3>12. Len(header) = 19
      BY <3>11 DEF sixteen
    <3>13. h = header
      BY DEF header, length
    <3>14. header \in Seq(Nat)
      BY <3>2 DEF header
    <3> QED
      BY <3>12, <3>13, <3>14
  <2> HIDE DEF h
  <2>3. Len(s) = Len(h) + Len(body)
    <3>1. h \in Seq(Nat) /\ body \in Seq(Nat)
      BY <1>9, <2>2
    <3>2. Len(h \o body) = Len(h) + Len(body)
      BY <3>1, Joined
    <3>3. s = h \o body
      OBVIOUS
    <3> QED
      BY <3>2, <3>3
  <2> HIDE DEF s
  <2> QED
    BY <1>3, <1>9, <1>10, <2>1, <2>2, <2>3
<1>12. /\ h \in Seq(Nat) /\ Len(h) = 19 /\ U16At(h, 16) = length
  <2>1. 2 \in Octet /\ length \in Nat /\ length < 256 * 256
    BY <1>10, <1>11 DEF Octet
  <2> HIDE DEF length
  <2>2. /\ Header(2, length) \in Seq(Octet) /\ Len(Header(2, length)) = 19
        /\ U16At(Header(2, length), 16) = length
    BY <2>1, HeaderBytes
  <2>3. Header(2, length) \in Seq(Nat)
    BY <2>2, OctetsAreNumbers
  <2> QED
    BY <2>2, <2>3 DEF length
<1> HIDE DEF h, length
<1>13. s \in Seq(Nat) /\ Len(s) = 23 + w + a + n
  <2>1. s \in Seq(Nat) /\ Len(s) = Len(h) + Len(body)
    BY <1>9, <1>12, Joined
  <2> HIDE DEF s
  <2> QED
    BY <1>4, <1>9, <1>12, <2>1
<1>14. ASSUME NEW buf \in Seq(Nat), Lays(buf, 0, s)
       PROVE  UpdateAt(buf, m, width)
  <2>1. Lays(buf, 0, h) /\ Lays(buf, 0 + Len(h), body)
    <3>1. 0 \in Nat
      OBVIOUS
    <3> QED
      BY <1>9, <1>12, <1>14, <3>1, LaysBoth
  <2>2. Lays(buf, 19, body)
    <3>1. 0 + Len(h) = 19
      BY <1>12
    <3> QED
      BY <2>1, <3>1
  <2>3. U16At(buf, 16) = length
    <3>1. 17 \in 1..Len(h) /\ 18 \in 1..Len(h)
      BY <1>12
    <3>2. buf[0 + 17] = h[17] /\ buf[0 + 18] = h[18]
      BY <2>1, <3>1 DEF Lays
    <3>3. buf[17] = h[17] /\ buf[18] = h[18]
      BY <3>2
    <3> QED
      BY <1>12, <3>3, LengthField
  <2>4. Lays(buf, 19, b3) /\ Lays(buf, 23 + w + a, N)
    <3>1. 19 \in Nat /\ 19 + Len(b3) = 23 + w + a
      BY <1>4, <1>8
    <3>2. Lays(buf, 19, b3) /\ Lays(buf, 19 + Len(b3), N)
      BY <1>1, <1>8, <2>2, <3>1, LaysBoth DEF body
    <3> QED
      BY <3>1, <3>2
  <2>5. Lays(buf, 19, b2) /\ Lays(buf, 23 + w, A)
    <3>1. 19 \in Nat /\ 19 + Len(b2) = 23 + w
      BY <1>4, <1>7
    <3>2. Lays(buf, 19, b2) /\ Lays(buf, 19 + Len(b2), A)
      BY <1>2, <1>7, <2>4, <3>1, LaysBoth DEF b3
    <3> QED
      BY <3>1, <3>2
  <2>6. Lays(buf, 19, b1) /\ Lays(buf, 21 + w, ua)
    <3>1. 19 \in Nat /\ 19 + Len(b1) = 21 + w
      BY <1>4, <1>6
    <3>2. Lays(buf, 19, b1) /\ Lays(buf, 19 + Len(b1), ua)
      BY <1>5, <1>6, <2>5, <3>1, LaysBoth DEF b2
    <3> QED
      BY <3>1, <3>2
  <2>7. Lays(buf, 19, uw) /\ Lays(buf, 21, W)
    <3>1. 19 \in Nat /\ 19 + Len(uw) = 21
      BY <1>5
    <3>2. Lays(buf, 19, uw) /\ Lays(buf, 19 + Len(uw), W)
      BY <1>1, <1>5, <2>6, <3>1, LaysBoth DEF b1
    <3> QED
      BY <3>1, <3>2
  <2>8. U16At(buf, 19) = w /\ At(buf, 19) = w \div 256
    <3>1. w < 256 * 256 /\ 19 \in Nat
      BY <1>4, <1>10, <1>11
    <3> QED
      BY <1>4, <2>7, <3>1, NumberAt DEF uw
  <2>9. U16At(buf, 21 + w) = a
    <3>1. a < 256 * 256 /\ 21 + w \in Nat
      BY <1>4, <1>10, <1>11
    <3> QED
      BY <1>4, <2>6, <3>1, NumberAt DEF ua
  <2>10. 23 + w + a + n <= Len(buf)
    <3>1. 0 + Len(s) <= Len(buf)
      BY <1>14 DEF Lays
    <3> HIDE DEF s
    <3> QED
      BY <1>4, <1>13, <3>1
  <2> QED
    BY <1>10, <2>3, <2>4, <2>5, <2>7, <2>8, <2>9, <2>10
    DEF UpdateAt, W, A, N, w, a, n
<1> QED
  BY <1>3, <1>4, <1>10, <1>11, <1>13, <1>14 DEF W, A, N, w, a, n

-----------------------------------------------------------------------------
(* The messages of a read.                                                 *)

LEMMA StandsFirst ==
  ASSUME NEW s \in Seq(Nat)
  PROVE  Lays(s, 0, s)
<1> DEFINE n == Len(s)
<1>1. n \in Nat
  BY LenProperties
<1> HIDE DEF n
<1>2. 0 + n <= n /\ \A k \in 1..n : s[0 + k] = s[k]
  BY <1>1
<1> QED
  BY <1>2 DEF Lays, n

\* A header, with the length and the type it says.
LEMMA HeaderAt ==
  ASSUME NEW type \in Octet, NEW length \in Nat, length < 256 * 256
  PROVE  LET h == Header(type, length) IN
         /\ h \in Seq(Nat) /\ Len(h) = 19
         /\ \A buf \in Seq(Nat) : Lays(buf, 0, h) => U16At(buf, 16) = length
<1> DEFINE h == Header(type, length)
<1>1. h \in Seq(Octet) /\ Len(h) = 19 /\ U16At(h, 16) = length
  BY HeaderBytes
<1>2. h \in Seq(Nat)
  BY <1>1, OctetsAreNumbers
<1> HIDE DEF h
<1>3. ASSUME NEW buf \in Seq(Nat), Lays(buf, 0, h)
      PROVE  U16At(buf, 16) = length
  <2>1. 17 \in 1..Len(h) /\ 18 \in 1..Len(h)
    BY <1>1
  <2>2. buf[0 + 17] = h[17] /\ buf[0 + 18] = h[18]
    BY <1>3, <2>1 DEF Lays
  <2>3. buf[17] = h[17] /\ buf[18] = h[18]
    BY <2>2
  <2> QED
    BY <1>1, <2>3, LengthField
<1> QED
  BY <1>1, <1>2, <1>3 DEF h

\* What a message says to the parsers, at the beginning of a read.
SaysFirst(buf, m, width) ==
  /\ m.type = "Update" => m \in PeerUpdate /\ UpdateAt(buf, m, width)
  /\ m.type = "Notification" =>
       m.code \in 1..6 /\ U16At(buf, 16) = 21 /\ At(buf, 19) = m.code /\ Has(buf, 21)
  /\ m.type = "KeepAlive" => U16At(buf, 16) = 19

LEMMA MessageKinds ==
  ASSUME NEW m \in PeerMessage
  PROVE  \/ m.type = "Update" /\ m \in PeerUpdate
         \/ m.type = "Notification" /\ m.code \in 1..6 /\ m.subcode \in Octet
         \/ m.type = "KeepAlive"
<1>1. CASE m \in PeerUpdate
  BY <1>1, UpdateParts
<1>2. CASE m \in [type : {"Notification"}, code : 1..6, subcode : Octet]
  BY <1>2
<1>3. CASE m \in [type : {"KeepAlive"}]
  BY <1>3
<1> QED
  BY <1>1, <1>2, <1>3 DEF PeerMessage

LEMMA MessageBytes ==
  ASSUME NEW m \in PeerMessage, NEW width \in {2, 4}
  PROVE  /\ StandardMessage(m, width) \in Seq(Nat)
         /\ \A buf \in Seq(Nat) :
              Lays(buf, 0, StandardMessage(m, width)) => SaysFirst(buf, m, width)
<1> DEFINE s == StandardMessage(m, width)
<1>1. CASE m.type = "Update" /\ m \in PeerUpdate
  <2>1. m.type # "Notification" /\ m.type # "KeepAlive"
    BY <1>1
  <2>2. s = StandardUpdate(m, width)
    BY <1>1, <2>1, Zenon DEF StandardMessage
  <2> HIDE DEF s
  <2>3. /\ s \in Seq(Nat)
        /\ \A buf \in Seq(Nat) : Lays(buf, 0, s) => UpdateAt(buf, m, width)
    BY <1>1, <2>2, UpdateLayout
  <2> QED
    BY <1>1, <2>1, <2>3 DEF SaysFirst, s
<1>2. CASE m.type = "Notification" /\ m.code \in 1..6 /\ m.subcode \in Octet
  <2> DEFINE h == Header(3, 21)
             t == <<m.code, m.subcode>>
  <2>1. m.type # "Update" /\ m.type # "KeepAlive"
    BY <1>2
  <2>2. s = h \o t
    BY <1>2, <2>1, Zenon DEF StandardMessage
  <2>3. 3 \in Octet /\ 21 \in Nat /\ 21 < 256 * 256
    BY DEF Octet
  <2>4. /\ h \in Seq(Nat) /\ Len(h) = 19
        /\ \A buf \in Seq(Nat) : Lays(buf, 0, h) => U16At(buf, 16) = 21
    BY <2>3, HeaderAt
  <2>5. t \in Seq(Nat) /\ Len(t) = 2 /\ t[1] = m.code
    <3>1. m.code \in Nat /\ m.subcode \in Nat
      BY <1>2, OctetValue
    <3> QED
      BY <3>1
  <2> HIDE DEF s, h, t
  <2>6. s \in Seq(Nat)
    BY <2>2, <2>4, <2>5, Joined
  <2>7. ASSUME NEW buf \in Seq(Nat), Lays(buf, 0, s)
        PROVE  U16At(buf, 16) = 21 /\ At(buf, 19) = m.code /\ Has(buf, 21)
    <3>1. Lays(buf, 0, h) /\ Lays(buf, 0 + Len(h), t)
      <4>1. 0 \in Nat
        OBVIOUS
      <4> QED
        BY <2>2, <2>4, <2>5, <2>7, <4>1, LaysBoth
    <3>2. Lays(buf, 19, t)
      <4>1. 0 + Len(h) = 19
        BY <2>4
      <4> QED
        BY <3>1, <4>1
    <3>3. 1 \in 1..Len(t) /\ 19 + Len(t) = 21
      BY <2>5
    <3>4. buf[19 + 1] = t[1] /\ 21 <= Len(buf)
      BY <3>2, <3>3 DEF Lays
    <3> QED
      BY <2>4, <2>5, <3>1, <3>4 DEF At, Has
  <2>8. \A buf \in Seq(Nat) : Lays(buf, 0, s) => SaysFirst(buf, m, width)
    BY <1>2, <2>1, <2>7 DEF SaysFirst
  <2> QED
    BY <2>6, <2>8 DEF s
<1>3. CASE m.type = "KeepAlive"
  <2> DEFINE h == Header(4, 19)
  <2>1. m.type # "Update" /\ m.type # "Notification"
    BY <1>3
  <2>2. s = h
    BY <1>3, <2>1, Zenon DEF StandardMessage, MinMessageLen
  <2>3. 4 \in Octet /\ 19 \in Nat /\ 19 < 256 * 256
    BY DEF Octet
  <2>4. /\ h \in Seq(Nat)
        /\ \A buf \in Seq(Nat) : Lays(buf, 0, h) => U16At(buf, 16) = 19
    BY <2>3, HeaderAt
  <2> HIDE DEF s, h
  <2> QED
    BY <1>3, <2>1, <2>2, <2>4 DEF SaysFirst, s
<1> QED
  BY <1>1, <1>2, <1>3, MessageKinds

\* The bytes of a read begin with its first message.
LEMMA ReadBytes ==
  ASSUME NEW messages \in Seq(PeerMessage), messages # <<>>, NEW width \in {2, 4}
  PROVE  LET buf == FlattenSeq([k \in DOMAIN messages |->
                                  StandardMessage(messages[k], width)])
         IN  buf \in Seq(Nat) /\ SaysFirst(buf, messages[1], width)
<1> DEFINE n == Len(messages)
           p == [k \in DOMAIN messages |-> StandardMessage(messages[k], width)]
           buf == FlattenSeq(p)
<1>1. n \in Nat /\ DOMAIN messages = 1..n
  BY LenProperties
<1>2. n # 0
  BY EmptySeq
<1>3. ASSUME NEW k \in 1..n
      PROVE  messages[k] \in PeerMessage
             /\ StandardMessage(messages[k], width) \in Seq(Nat)
  <2>1. messages[k] \in PeerMessage
    BY ElementOfSeq
  <2> QED
    BY <2>1, MessageBytes
<1>4. p = [k \in 1..n |-> StandardMessage(messages[k], width)]
  BY <1>1
<1> HIDE DEF n, p
<1>5. p \in [1..n -> Seq(Nat)] /\ \A k \in 1..n : p[k] = StandardMessage(messages[k], width)
  BY <1>3, <1>4
<1>6. p \in Seq(Seq(Nat)) /\ Len(p) = n
  BY <1>1, <1>5, SizedSeq
<1>7. buf \in Seq(Nat)
  BY <1>6, FlattenType
<1> HIDE DEF buf
<1>8. 1 \in 1..n /\ 1 \in 1..Len(p) /\ 1 - 1 = 0 /\ 0 \in Nat
  BY <1>1, <1>2, <1>6
<1>9. Lays(buf, 0, FlattenSeq(p))
  BY <1>7, StandsFirst DEF buf
<1>10. Lays(buf, 0 + Before(p, 1 - 1), p[1])
  BY <1>6, <1>7, <1>8, <1>9, LaysPiece
<1>11. Before(p, 0) = 0
  BY <1>6, FlattenLayout
<1>12. 0 + Before(p, 1 - 1) = 0
  BY <1>8, <1>11
<1>13. Lays(buf, 0, StandardMessage(messages[1], width))
  BY <1>5, <1>8, <1>10, <1>12
<1>14. SaysFirst(buf, messages[1], width)
  BY <1>3, <1>7, <1>8, <1>13, MessageBytes
<1> QED
  BY <1>7, <1>14 DEF buf, p

-----------------------------------------------------------------------------
(* The withdrawn routes.                                                   *)

Prefix == [len : Nat, prefix : [1..4 -> Nat]]

LEMMA PrefixRead ==
  ASSUME NEW buf \in Seq(Nat), NEW i \in Nat, NEW n \in PeerPrefix,
         Lays(buf, i, StandardPrefix(n))
  PROVE  /\ At(buf, i) = n.len /\ Has(buf, i + 1)
         /\ n.len = 0 => PrefixAt(buf, i) = <<>>
         /\ n.len # 0 => PrefixFits(buf, i) /\ PrefixAt(buf, i) = <<n>>
<1> DEFINE s == StandardPrefix(n)
           len == n.len
           prefix == n.prefix
           j == StandardOctets(len)
           top == Len(buf)
<1>1. /\ len \in 0..32 /\ prefix \in [1..4 -> Nat] /\ j \in 0..4
      /\ \A k \in 1..4 : k > j => prefix[k] = 0
      /\ n = [len |-> len, prefix |-> prefix]
  BY PrefixParts
<1>2. /\ s \in Seq(Nat) /\ Len(s) = 1 + j /\ s[1] = len
      /\ \A k \in 1..j : s[1 + k] = prefix[k]
  BY PrefixBytes
<1>3. i + Len(s) <= top /\ \A k \in 1..Len(s) : buf[i + k] = s[k]
  BY DEF Lays
<1>4. top \in Nat
  BY LenProperties
<1> HIDE DEF s, len, prefix, j, top
<1>5. buf[i + 1] = len /\ i + 1 <= top /\ i + 1 + j <= top
  <2>1. 1 \in 1..Len(s)
    BY <1>1, <1>2
  <2>2. buf[i + 1] = s[1] /\ s[1] = len
    BY <1>2, <1>3, <2>1
  <2>3. i + (1 + j) <= top /\ j \in Nat
    BY <1>1, <1>2, <1>3
  <2> QED
    BY <1>4, <2>2, <2>3
<1>6. At(buf, i) = len /\ Has(buf, i + 1)
  BY <1>5 DEF At, Has, top
<1>7. CASE len = 0
  <2>1. len \notin 1..32
    BY <1>7
  <2>2. PrefixAt(buf, i) = <<>>
    BY <1>6, <2>1 DEF PrefixAt, NewNlri
  <2> QED
    BY <1>6, <1>7, <2>2 DEF len
<1>8. CASE len # 0
  <2>1. len \in 1..32
    BY <1>1, <1>8
  <2>2. Has(buf, i + 1 + j)
    BY <1>5 DEF Has, top
  <2>3. \A k \in 1..j : At(buf, i + k) = prefix[k]
    <3> SUFFICES ASSUME NEW k \in 1..j PROVE At(buf, i + k) = prefix[k]
      OBVIOUS
    <3>1. 1 + k \in 1..Len(s) /\ i + (1 + k) = i + k + 1
      BY <1>1, <1>2
    <3>2. buf[i + (1 + k)] = s[1 + k]
      BY <1>3, <3>1
    <3> QED
      BY <1>2, <3>1, <3>2 DEF At
  <2>4. /\ PrefixFits(buf, i)
        /\ PrefixAt(buf, i) = <<[len |-> len, prefix |-> prefix]>>
    BY <1>1, <1>6, <2>1, <2>2, <2>3, PrefixIsReadBack DEF j
  <2> QED
    BY <1>1, <1>6, <1>8, <2>4 DEF len
<1> QED
  BY <1>7, <1>8

\* Whatever is read is a list of prefixes.
LEMMA PrefixAtType ==
  ASSUME NEW buf \in Seq(Nat), NEW i \in Nat, PrefixFits(buf, i), Has(buf, i + 1)
  PROVE  PrefixAt(buf, i) \in Seq(Prefix)
<1> DEFINE len == At(buf, i)
           j == RouteLenBytes(len)
           top == Len(buf)
           v == [k \in 1..4 |-> IF k <= j THEN At(buf, i + k) ELSE 0]
<1>1. top \in Nat
  BY LenProperties
<1>2. len \in Nat
  <2>1. i + 1 \in 1..Len(buf)
    BY <1>1 DEF Has
  <2> QED
    BY <2>1, ElementOfSeq DEF At
<1>3. len <= 32 /\ i + 1 + j <= top
  BY DEF PrefixFits, Has
<1>4. j \in Nat
  <2> HIDE DEF len
  <2>1. len \in 0..32
    BY <1>2, <1>3
  <2>2. len = 0 \/ len # 0
    OBVIOUS
  <2>3. len = 0 => RouteLenBytes(len) = 1
    <3>1. len = 0 => len \in 0..8 /\ len \notin 9..16 /\ len \notin 17..24
                       /\ len \notin 25..32
      BY <2>1
    <3> QED
      BY <3>1, Zenon DEF RouteLenBytes
  <2>4. len # 0 => RouteLenBytes(len) \in 1..4
    <3>1. RouteLenBytes(len) = StandardOctets(len) <=> len # 0
      BY <2>1, ReadAsStandard
    <3>2. len # 0 => StandardOctets(len) \in 1..4
      BY <2>1, StandardRanges
    <3> QED
      BY <3>1, <3>2
  <2>5. RouteLenBytes(len) \in Nat
    BY <2>3, <2>4
  <2> QED
    BY <2>5
<1>5. PrefixAt(buf, i) = NewNlri(len, v)
  BY DEF PrefixAt
<1> HIDE DEF len, j, top
<1>6. v \in [1..4 -> Nat]
  <2> SUFFICES ASSUME NEW k \in 1..4, k <= j PROVE At(buf, i + k) \in Nat
    OBVIOUS
  <2>1. i + k + 1 \in 1..top
    BY <1>1, <1>3, <1>4
  <2> QED
    BY <2>1, ElementOfSeq DEF At, top
<1> HIDE DEF v
<1>7. NewNlri(len, v) \in {<<>>, <<[len |-> len, prefix |-> v]>>}
  BY DEF NewNlri
<1>8. [len |-> len, prefix |-> v] \in Prefix
  BY <1>2, <1>6 DEF Prefix
<1>9. <<>> \in Seq(Prefix) /\ <<[len |-> len, prefix |-> v]>> \in Seq(Prefix)
  BY <1>8
<1> QED
  BY <1>5, <1>7, <1>9

\* How often the loop over the withdrawn routes turns, and what it has after i turns.
Turns(m) == Len(WithdrawnBytes(m)) \div 5
WithdrawnRead(m, i, routes) ==
  /\ routes \in Seq(Prefix)
  /\ HostRoutes(m.withdrawn) =>
       Len(routes) = i /\ \A k \in 1..i : routes[k] = m.withdrawn[k]
  /\ i = 0 => routes = <<>>
  /\ i # 0 /\ m.withdrawn[1].len # 0 =>
       Len(routes) # 0 /\ routes[1] = m.withdrawn[1]

\* Host routes take five octets each.
LEMMA HostsLaid ==
  ASSUME NEW list \in Seq(PeerPrefix), HostRoutes(list)
  PROVE  LET p == PrefixPieces(list) IN
         /\ Len(FlattenSeq(p)) = 5 * Len(list)
         /\ \A k \in 0..Len(list) : Before(p, k) = 5 * k
<1> DEFINE p == PrefixPieces(list)
           n == Len(list)
<1>1. /\ p \in Seq(Seq(Nat)) /\ Len(p) = n /\ n \in Nat
      /\ \A k \in 1..n : list[k] \in PeerPrefix /\ p[k] = StandardPrefix(list[k])
  BY PrefixesWritten
<1>2. DOMAIN list = 1..n
  BY LenProperties
<1>3. \A k \in 1..n : StandardOctets(list[k].len) = 4
  BY <1>2 DEF HostRoutes
<1> HIDE DEF p, n
<1>4. ASSUME NEW k \in 1..n PROVE Len(p[k]) = 5
  <2>1. Len(StandardPrefix(list[k])) = 1 + StandardOctets(list[k].len)
    BY <1>1, PrefixBytes
  <2>2. p[k] = StandardPrefix(list[k]) /\ StandardOctets(list[k].len) = 4
    BY <1>1, <1>3
  <2> QED
    BY <2>1, <2>2
<1>5. 5 \in Nat /\ \A k \in 1..Len(p) : Len(p[k]) = 5
  BY <1>1, <1>4
<1>6. \A k \in 0..Len(p) : Before(p, k) = 5 * k
  BY <1>1, <1>5, EvenPieces
<1>7. Before(p, Len(p)) = Len(FlattenSeq(p)) /\ n \in 0..n
  BY <1>1, FlattenLayout
<1> QED
  BY <1>1, <1>6, <1>7 DEF p, n

\* A list of one, of five octets or more, is one of host routes.
LEMMA FiveIsHost ==
  ASSUME NEW list \in Seq(PeerPrefix), Len(list) <= 1,
         Len(FlattenSeq(PrefixPieces(list))) >= 5
  PROVE  HostRoutes(list) /\ Len(list) = 1
<1> DEFINE p == PrefixPieces(list)
           n == Len(list)
           size == Len(FlattenSeq(p))
<1>1. /\ p \in Seq(Seq(Nat)) /\ Len(p) = n /\ n \in Nat
      /\ \A k \in 1..n : list[k] \in PeerPrefix /\ p[k] = StandardPrefix(list[k])
  BY PrefixesWritten
<1>2. DOMAIN list = 1..n
  BY LenProperties
<1>3. /\ Before(p, 0) = 0 /\ Before(p, Len(p)) = size
      /\ \A k \in 1..Len(p) : Before(p, k) = Before(p, k - 1) + Len(p[k])
  BY <1>1, FlattenLayout
<1> HIDE DEF p, n, size
<1>4. n = 1
  <2>1. n # 0
    BY <1>1, <1>3 DEF size, p
  <2> QED
    BY <1>1, <2>1 DEF n
<1>5. 1 \in 1..n /\ 1 - 1 = 0
  BY <1>4
<1>6. /\ list[1] \in PeerPrefix /\ p[1] = StandardPrefix(list[1])
      /\ Before(p, 1) = Before(p, 0) + Len(p[1])
  BY <1>1, <1>3, <1>5
<1>7. Len(p[1]) = 1 + StandardOctets(list[1].len) /\ StandardOctets(list[1].len) \in 0..4
  BY <1>6, PrefixBytes, PrefixParts
<1>8. Before(p, 1) = size /\ size >= 5
  BY <1>1, <1>3, <1>4 DEF size, p
<1>9. StandardOctets(list[1].len) = 4
  BY <1>3, <1>6, <1>7, <1>8
<1>10. \A k \in DOMAIN list : StandardOctets(list[k].len) = 4
  <2>1. \A k \in DOMAIN list : k = 1
    BY <1>2, <1>4
  <2> QED
    BY <1>9, <2>1
<1> QED
  BY <1>4, <1>10 DEF HostRoutes, n

\* One turn of the loop.
LEMMA OneTurn ==
  ASSUME NEW m \in PeerUpdate, NEW buf \in Seq(Nat),
         Lays(buf, 21, WithdrawnBytes(m)),
         NEW i \in Nat, i < Turns(m), NEW routes, WithdrawnRead(m, i, routes)
  PROVE  LET at == 21 + 5 * i IN
         /\ Has(buf, at + 1)
         /\ ~PrefixFits(buf, at) =>
              Len(m.withdrawn) > 1 /\ ~HostRoutes(m.withdrawn)
         /\ PrefixFits(buf, at) =>
              WithdrawnRead(m, i + 1, routes \o PrefixAt(buf, at))
<1> DEFINE list == m.withdrawn
           p == PrefixPieces(list)
           W == WithdrawnBytes(m)
           size == Len(W)
           turns == Turns(m)
           n == Len(list)
           at == 21 + 5 * i
           host == HostRoutes(list)
           got == PrefixAt(buf, at)
<1>1. list \in Seq(PeerPrefix) /\ W = FlattenSeq(p)
  BY UpdateParts DEF WithdrawnBytes
<1>2. /\ p \in Seq(Seq(Nat)) /\ Len(p) = n /\ n \in Nat
      /\ \A k \in 1..n : list[k] \in PeerPrefix /\ p[k] = StandardPrefix(list[k])
      /\ W \in Seq(Nat)
  BY <1>1, PrefixesWritten DEF WithdrawnBytes
<1>3. size \in Nat /\ Len(buf) \in Nat
  BY <1>2, LenProperties
<1>4. turns = size \div 5
  BY DEF Turns
<1>5. 21 + size <= Len(buf)
  BY DEF Lays
<1> HIDE DEF list, p, W, size, turns, n, host
<1>6. turns \in Nat /\ 5 * turns <= size /\ size < 5 * turns + 5 /\ i < turns
  BY <1>3, <1>4 DEF turns
<1>7. at \in Nat /\ at + 5 <= Len(buf) /\ size >= 5
  BY <1>3, <1>5, <1>6
<1>8. Has(buf, at + 1)
  BY <1>3, <1>7 DEF Has
<1>9. 21 \in Nat /\ Lays(buf, 21, FlattenSeq(p))
  BY <1>1 DEF W
<1>10. ASSUME host
       PROVE  PrefixFits(buf, at) /\ i + 1 \in 1..n /\ got = <<list[i + 1]>>
  <2>1. /\ Len(FlattenSeq(p)) = 5 * n
        /\ \A k \in 0..n : Before(p, k) = 5 * k
    BY <1>1, <1>10, HostsLaid DEF host, p, n
  <2>2. size = 5 * n
    BY <1>1, <2>1 DEF size
  <2>3. turns = n
    BY <1>2, <1>3, <1>6, <2>2
  <2>4. i + 1 \in 1..n /\ i + 1 \in 1..Len(p) /\ (i + 1) - 1 = i /\ i \in 0..n
    BY <1>2, <1>6, <2>3
  <2>5. Lays(buf, 21 + Before(p, (i + 1) - 1), p[i + 1])
    BY <1>2, <1>9, <2>4, LaysPiece
  <2>6. 21 + Before(p, (i + 1) - 1) = at
    BY <2>1, <2>4
  <2>7. Lays(buf, at, StandardPrefix(list[i + 1])) /\ list[i + 1] \in PeerPrefix
    BY <1>2, <2>4, <2>5, <2>6
  <2>8. list[i + 1].len # 0
    <3>1. i + 1 \in DOMAIN list
      BY <1>1, <2>4, LenProperties DEF n
    <3>2. StandardOctets(list[i + 1].len) = 4
      BY <1>10, <3>1 DEF host, HostRoutes
    <3>3. StandardOctets(0) = 0
      BY StandardRanges
    <3> QED
      BY <3>2, <3>3
  <2>9. PrefixFits(buf, at) /\ PrefixAt(buf, at) = <<list[i + 1]>>
    <3> HIDE DEF at
    <3> QED
      BY <1>7, <2>7, <2>8, PrefixRead
  <2> QED
    BY <2>4, <2>9
<1>11. ~PrefixFits(buf, at) => n > 1 /\ ~host
  <2>1. n <= 1 => host
    BY <1>1, <1>7, FiveIsHost DEF n, p, host, size
  <2> HIDE DEF at, got
  <2> QED
    BY <1>2, <1>10, <2>1
<1>12. ASSUME PrefixFits(buf, at) PROVE WithdrawnRead(m, i + 1, routes \o got)
  <2>1. got \in Seq(Prefix)
    <3> HIDE DEF at
    <3> QED
      BY <1>7, <1>8, <1>12, PrefixAtType
  <2>2. /\ routes \in Seq(Prefix)
        /\ host => Len(routes) = i /\ \A k \in 1..i : routes[k] = list[k]
        /\ i = 0 => routes = <<>>
        /\ i # 0 /\ list[1].len # 0 => Len(routes) # 0 /\ routes[1] = list[1]
    BY DEF WithdrawnRead, host, list
  <2> DEFINE all == routes \o got
             r == Len(routes)
             g == Len(got)
  <2>3. /\ all \in Seq(Prefix) /\ r \in Nat /\ g \in Nat /\ Len(all) = r + g
        /\ \A k \in 1..r : all[k] = routes[k]
        /\ \A k \in 1..g : all[r + k] = got[k]
    BY <2>1, <2>2, Joined
  <2>4. host => g = 1 /\ got[1] = list[i + 1]
    BY <1>10
  <2> HIDE DEF all, got, r, g
  <2>5. ASSUME host
        PROVE  Len(all) = i + 1 /\ \A k \in 1..(i + 1) : all[k] = list[k]
    <3>1. r = i /\ g = 1 /\ 1 \in 1..g
      BY <2>2, <2>4, <2>5 DEF r
    <3>2. all[i + 1] = list[i + 1]
      BY <2>3, <2>4, <2>5, <3>1
    <3>3. ASSUME NEW k \in 1..i PROVE all[k] = list[k]
      BY <2>2, <2>3, <2>5, <3>1, <3>3
    <3> QED
      BY <2>3, <3>1, <3>2, <3>3
  <2>6. ASSUME list[1].len # 0 PROVE Len(all) # 0 /\ all[1] = list[1]
    <3>1. CASE i # 0
      <4>1. r # 0 /\ routes[1] = list[1]
        BY <2>2, <2>6, <3>1 DEF r
      <4>2. 1 \in 1..r
        BY <2>3, <4>1
      <4> QED
        BY <2>3, <4>1, <4>2
    <3>2. CASE i = 0
      <4>1. r = 0 /\ at = 21
        BY <2>2, <3>2 DEF r
      <4>2. n >= 1
        <5>1. n = 0 => Before(p, 0) = size /\ Before(p, 0) = 0
          BY <1>1, <1>2, FlattenLayout DEF size
        <5> QED
          BY <1>2, <1>7, <5>1
      <4>3. 1 \in 1..n /\ 1 \in 1..Len(p) /\ 1 - 1 = 0
        BY <1>2, <4>2
      <4>4. Before(p, 0) = 0
        BY <1>2, FlattenLayout
      <4>5. Lays(buf, 21 + Before(p, 1 - 1), p[1])
        BY <1>2, <1>9, <4>3, LaysPiece
      <4>6. 21 + Before(p, 1 - 1) = at
        BY <4>1, <4>3, <4>4
      <4>7. Lays(buf, at, StandardPrefix(list[1])) /\ list[1] \in PeerPrefix
        BY <1>2, <4>3, <4>5, <4>6
      <4>8. PrefixAt(buf, at) = <<list[1]>>
        <5> HIDE DEF at
        <5> QED
          BY <1>7, <2>6, <4>7, PrefixRead
      <4>9. g = 1 /\ got[1] = list[1]
        BY <4>8 DEF g, got
      <4>10. 1 \in 1..g /\ r + 1 = 1
        BY <4>1, <4>9
      <4> QED
        BY <2>3, <4>1, <4>9, <4>10
    <3> QED
      BY <3>1, <3>2
  <2>7. WithdrawnRead(m, i + 1, all)
    <3>1. i + 1 # 0
      OBVIOUS
    <3> QED
      BY <2>3, <2>5, <2>6, <3>1 DEF WithdrawnRead, host, list
  <2> QED
    BY <2>7 DEF all
<1> QED
  BY <1>8, <1>11, <1>12 DEF n, host, list

\* What has been read when the loop ends.
LEMMA TurnsDone ==
  ASSUME NEW m \in PeerUpdate, NEW routes, WithdrawnRead(m, Turns(m), routes)
  PROVE  LET octets == Len(Each(StandardPrefix, m.withdrawn)) IN
         /\ HostRoutes(m.withdrawn) => routes = m.withdrawn
         /\ octets >= 5 /\ m.withdrawn[1].len > 0 => routes[1] = m.withdrawn[1]
         /\ octets < 5 => routes = <<>>
<1> DEFINE list == m.withdrawn
           size == Len(WithdrawnBytes(m))
           turns == Turns(m)
           n == Len(list)
<1>1. list \in Seq(PeerPrefix)
  BY UpdateParts
<1>2. /\ n \in Nat /\ Len(PrefixPieces(list)) = n /\ WithdrawnBytes(m) \in Seq(Nat)
      /\ Each(StandardPrefix, list) = WithdrawnBytes(m)
  BY <1>1, PrefixesWritten DEF WithdrawnBytes
<1>3. size \in Nat
  BY <1>2, LenProperties
<1>4. turns = size \div 5
  BY DEF Turns
<1> HIDE DEF size, turns
<1>5. turns \in Nat /\ (size >= 5 => turns # 0) /\ (size < 5 => turns = 0)
  BY <1>3, <1>4
<1>6. /\ routes \in Seq(Prefix)
      /\ HostRoutes(list) =>
           Len(routes) = turns /\ \A k \in 1..turns : routes[k] = list[k]
      /\ turns = 0 => routes = <<>>
      /\ turns # 0 /\ list[1].len # 0 => routes[1] = list[1]
  BY DEF WithdrawnRead, turns
<1>7. ASSUME HostRoutes(list) PROVE routes = list
  <2>1. size = 5 * n
    BY <1>1, <1>7, HostsLaid DEF size, WithdrawnBytes
  <2>2. turns = n
    <3> HIDE DEF n
    <3> QED
      BY <1>2, <1>4, <2>1
  <2>3. Len(routes) = Len(list) /\ \A k \in 1..Len(list) : routes[k] = list[k]
    BY <1>6, <1>7, <2>2
  <2>4. list \in Seq(Prefix)
    <3>1. PeerPrefix \subseteq Prefix
      BY DEF PeerPrefix, Prefix, Octet
    <3> QED
      BY <1>1, <3>1, SeqOfMore
  <2> QED
    BY <1>6, <2>3, <2>4, SeqEqual
<1>8. list[1].len > 0 => list[1].len # 0
  OBVIOUS
<1> QED
  BY <1>2, <1>5, <1>6, <1>7, <1>8 DEF size

-----------------------------------------------------------------------------
(* The path attributes.                                                    *)

\* What an attribute means (Meaning), by itself.
ValueOf(a, width) ==
  CASE a.code = 1 -> a.data[1]
    [] a.code = 2 -> [a.data EXCEPT !.as_list =
                        [k \in DOMAIN @ |-> AsOctets(@[k], width)]]
    [] a.code = 7 -> <<AsOctets(a.data[1], width), a.data[2]>>
    [] a.code \notin {1, 2, 7} -> a.data
RecordOf(a, width) == [code |-> a.code, data |-> ValueOf(a, width)]
Meanings(attributes, width) ==
  [k \in DOMAIN attributes |->
     IF StandardData(attributes[k], width) = <<>> THEN <<>>
     ELSE <<RecordOf(attributes[k], width)>>]

LEMMA MeaningIs ==
  ASSUME NEW attributes, NEW width
  PROVE  Meaning(attributes, width) = FlattenSeq(Meanings(attributes, width))
BY DEF Meaning, Each, Meanings, RecordOf, ValueOf

LEMMA Panics ==
  ASSUME NEW d, NEW width
  PROVE  /\ PAdataPanics(1, d, width) <=> d[1] > 2
         /\ PAdataPanics(2, d, width) <=> ~AsPathFits(d, width)
         /\ \A code \in {3, 4} : PAdataPanics(code, d, width) <=> Len(d) < 4
         /\ PAdataPanics(6, d, width) <=> FALSE
         /\ PAdataPanics(7, d, width) <=> Len(d) < width + 4
<1>1. /\ 1 # 2 /\ 1 \notin {3, 4} /\ 1 # 5 /\ 1 # 6 /\ 1 # 7
      /\ 2 # 1 /\ 2 \notin {3, 4} /\ 2 # 5 /\ 2 # 6 /\ 2 # 7
      /\ 6 # 1 /\ 6 # 2 /\ 6 \notin {3, 4} /\ 6 # 5 /\ 6 # 7
      /\ 7 # 1 /\ 7 # 2 /\ 7 \notin {3, 4} /\ 7 # 5 /\ 7 # 6
  OBVIOUS
<1>2. ASSUME NEW code \in {3, 4}
      PROVE  PAdataPanics(code, d, width) <=> Len(d) < 4
  <2>1. code # 1 /\ code # 2 /\ code # 5 /\ code # 6 /\ code # 7
    OBVIOUS
  <2> QED
    BY <2>1, Zenon DEF PAdataPanics
<1>3. PAdataPanics(1, d, width) <=> d[1] > 2
  BY <1>1, Zenon DEF PAdataPanics
<1>4. PAdataPanics(2, d, width) <=> ~AsPathFits(d, width)
  BY <1>1, Zenon DEF PAdataPanics
<1>5. PAdataPanics(6, d, width) <=> FALSE
  BY <1>1, Zenon DEF PAdataPanics
<1>6. PAdataPanics(7, d, width) <=> Len(d) < width + 4
  BY <1>1, Zenon DEF PAdataPanics
<1> QED
  BY <1>2, <1>3, <1>4, <1>5, <1>6

LEMMA Values ==
  ASSUME NEW d, NEW width
  PROVE  /\ PAdata(1, d, width) = d[1]
         /\ PAdata(2, d, width) = AsPathData(d, width)
         /\ \A code \in {3, 4} : PAdata(code, d, width) = SubSeq(d, 1, 4)
         /\ PAdata(6, d, width) = <<>>
         /\ PAdata(7, d, width) =
              <<SubSeq(d, 1, width), SubSeq(d, width + 1, width + 4)>>
<1>1. /\ 1 # 2 /\ 1 \notin {3, 4} /\ 1 # 6 /\ 1 # 7
      /\ 2 # 1 /\ 2 \notin {3, 4} /\ 2 # 6 /\ 2 # 7
      /\ 6 # 1 /\ 6 # 2 /\ 6 \notin {3, 4} /\ 6 # 7
      /\ 7 # 1 /\ 7 # 2 /\ 7 \notin {3, 4} /\ 7 # 6
  OBVIOUS
<1>2. ASSUME NEW code \in {3, 4} PROVE PAdata(code, d, width) = SubSeq(d, 1, 4)
  <2>1. code # 1 /\ code # 2 /\ code # 6 /\ code # 7
    OBVIOUS
  <2> QED
    BY <2>1, Zenon DEF PAdata
<1>3. PAdata(1, d, width) = d[1]
  BY <1>1, Zenon DEF PAdata
<1>4. PAdata(2, d, width) = AsPathData(d, width)
  BY <1>1, Zenon DEF PAdata
<1>5. PAdata(6, d, width) = <<>>
  BY <1>1, Zenon DEF PAdata
<1>6. PAdata(7, d, width) =
        <<SubSeq(d, 1, width), SubSeq(d, width + 1, width + 4)>>
  BY <1>1, Zenon DEF PAdata
<1> QED
  BY <1>2, <1>3, <1>4, <1>5, <1>6

\* A part of a sequence that is the same as another.
LEMMA PartIs ==
  ASSUME NEW d \in Seq(Nat), NEW i \in Nat, NEW v \in Seq(Nat),
         i + Len(v) <= Len(d), \A k \in 1..Len(v) : d[i + k] = v[k]
  PROVE  SubSeq(d, i + 1, i + Len(v)) = v
<1> DEFINE n == Len(v)
           x == i + 1
           y == i + n
           s == SubSeq(d, x, y)
<1>1. n \in Nat /\ Len(d) \in Nat
  BY LenProperties
<1> HIDE DEF n
<1>2. x \in Int /\ y \in Int /\ x - 1 <= y /\ y - x + 1 = n
  BY <1>1
<1>3. \A k \in x..y : d[k] \in Nat
  <2>1. \A k \in x..y : k \in 1..Len(d)
    BY <1>1 DEF n
  <2> QED
    BY <2>1, ElementOfSeq
<1>4. \A k \in 1..n : x + k - 1 = i + k
  BY <1>1
<1> HIDE DEF x, y
<1>5. /\ s \in Seq(Nat) /\ Len(s) = y - x + 1
      /\ \A k \in 1..(y - x + 1) : s[k] = d[x + k - 1]
  BY <1>2, <1>3, SubSeqProperties
<1>6. Len(s) = n /\ \A k \in 1..n : s[k] = d[i + k]
  BY <1>2, <1>4, <1>5
<1>7. Len(s) = n /\ \A k \in 1..n : s[k] = v[k]
  BY <1>6 DEF n
<1> HIDE DEF s
<1>8. s = v
  BY <1>5, <1>7, SeqEqual DEF n
<1> QED
  BY <1>8 DEF s, x, y, n

\* The AS numbers of a path are read back, by a reader that knows their width.
LEMMA PathRead ==
  ASSUME NEW type \in {1, 2}, NEW list \in Seq(AsNumber), NEW width \in {2, 4}
  PROVE  LET d == <<type, Len(list)>> \o OctetsOf(list, width) IN
         /\ AsPathFits(d, width)
         /\ AsPathData(d, width) =
              [segment_type |-> type,
               as_list |-> [k \in DOMAIN list |-> AsOctets(list[k], width)]]
<1>0. LET d == <<type, Len(list)>> \o OctetsOf(list, width) IN
      /\ d \in Seq(Nat) /\ Len(list) \in Nat /\ DOMAIN list = 1..Len(list)
      /\ Len(d) = 2 + width * Len(list)
      /\ d[1] = type /\ d[2] = Len(list)
      /\ \A k \in 1..Len(OctetsOf(list, width)) :
           d[2 + k] = OctetsOf(list, width)[k]
  <2>1. type \in Nat
    OBVIOUS
  <2> QED
    BY <2>1, PathBytes
<1> DEFINE n == Len(list)
           v == OctetsOf(list, width)
           d == <<type, n>> \o v
           p == [k \in DOMAIN list |-> AsOctets(list[k], width)]
<1>1. n \in Nat /\ DOMAIN list = 1..n
  BY LenProperties
<1>2. /\ d \in Seq(Nat) /\ Len(d) = 2 + width * n /\ d[1] = type /\ d[2] = n
      /\ \A k \in 1..Len(v) : d[2 + k] = v[k]
  BY <1>0
<1>3. v \in Seq(Octet) /\ Len(v) = width * n
  BY PathWritten
<1>4. v = FlattenSeq(p)
  BY DEF OctetsOf
<1>5. ASSUME NEW k \in 1..n
      PROVE  /\ AsOctets(list[k], width) \in Seq(Nat)
             /\ Len(AsOctets(list[k], width)) = width
  <2>1. list[k] \in AsNumber
    BY ElementOfSeq
  <2>2. AsOctets(list[k], width) \in Seq(Octet) /\ Len(AsOctets(list[k], width)) = width
    BY <2>1, AsWritten
  <2> QED
    BY <2>2, OctetsAreNumbers
<1> HIDE DEF n, v, d
<1>6. p \in [1..n -> Seq(Nat)] /\ \A k \in 1..n : p[k] = AsOctets(list[k], width)
  BY <1>1, <1>5
<1> HIDE DEF p
<1>7. p \in Seq(Seq(Nat)) /\ Len(p) = n
  BY <1>1, <1>6, SizedSeq
<1>8. width \in Nat /\ \A k \in 1..Len(p) : Len(p[k]) = width
  BY <1>5, <1>6, <1>7
<1>9. \A k \in 0..n : Before(p, k) = width * k
  BY <1>7, <1>8, EvenPieces
<1>10. ASSUME NEW k \in 1..n
       PROVE  SubSeq(d, 3 + width * (k - 1), 2 + width * k) = p[k]
  <2> DEFINE i == 2 + width * (k - 1)
             u == width * (k - 1)
             w == width * k
             all == width * n
  <2>1. u \in Nat /\ w = u + width /\ w <= all
    <3>1. CASE width = 2
      BY <1>1, <3>1
    <3>2. CASE width = 4
      BY <1>1, <3>2
    <3> QED
      BY <3>1, <3>2
  <2>2. k - 1 \in 0..n /\ k \in 1..Len(p)
    BY <1>1, <1>7
  <2>3. \A x \in 1..Len(p[k]) : FlattenSeq(p)[Before(p, k - 1) + x] = p[k][x]
    <3>1. p \in Seq(Seq(Nat))
      BY <1>7
    <3>2. \A y \in 1..Len(p) : \A x \in 1..Len(p[y]) :
            FlattenSeq(p)[Before(p, y - 1) + x] = p[y][x]
      BY <3>1, PiecesLaid
    <3> QED
      BY <2>2, <3>2
  <2>4. Before(p, k - 1) = u /\ Len(p[k]) = width /\ p[k] \in Seq(Nat)
    <3>1. Before(p, k - 1) = u
      BY <1>9, <2>2
    <3>2. p[k] \in Seq(Nat)
      BY <1>6
    <3>3. Len(p[k]) = width
      BY <1>8, <2>2
    <3> QED
      BY <3>1, <3>2, <3>3
  <2>5. Len(d) = 2 + all /\ Len(v) = all
    BY <1>2, <1>3
  <2> HIDE DEF u, w, all
  <2>6. \A x \in 1..width : v[u + x] = p[k][x]
    BY <1>4, <2>3, <2>4
  <2>7. all \in Nat
    BY <1>3, <2>5, LenProperties
  <2>8. ASSUME NEW x \in 1..width PROVE d[2 + u + x] = p[k][x]
    <3>1. u + x \in 1..Len(v) /\ 2 + (u + x) = 2 + u + x
      BY <2>1, <2>5, <2>7
    <3>2. d[2 + (u + x)] = v[u + x]
      BY <1>2, <3>1
    <3> QED
      BY <2>6, <3>1, <3>2
  <2>9. 2 + u \in Nat /\ 2 + u + width <= Len(d)
    BY <2>1, <2>5, <2>7
  <2>10. SubSeq(d, 2 + u + 1, 2 + u + width) = p[k]
    BY <1>2, <2>4, <2>8, <2>9, PartIs
  <2>11. 3 + u = 2 + u + 1 /\ 2 + w = 2 + u + width
    BY <2>1
  <2> QED
    BY <2>10, <2>11 DEF u, w
<1>11. AsPathFits(d, width)
  <2> DEFINE all == width * n
  <2>1. all \in Nat
    BY <1>1, <1>8
  <2>2. Len(d) = 2 + all /\ d[1] \in {1, 2} /\ width * d[2] = all
    BY <1>2
  <2> HIDE DEF all
  <2>3. Len(d) >= 2 /\ 2 + all <= Len(d)
    BY <2>1, <2>2
  <2> QED
    BY <2>2, <2>3 DEF AsPathFits
<1>12. AsPathData(d, width) = [segment_type |-> type, as_list |-> p]
  <2>1. AsPathData(d, width) =
          [segment_type |-> d[1],
           as_list |-> [k \in 1..d[2] |->
                          SubSeq(d, 3 + width * (k - 1), 2 + width * k)]]
    BY DEF AsPathData
  <2>2. [k \in 1..n |-> SubSeq(d, 3 + width * (k - 1), 2 + width * k)]
          = [k \in 1..n |-> p[k]]
    BY <1>10
  <2>3. p = [k \in 1..n |-> p[k]]
    BY <1>6
  <2> QED
    BY <1>2, <2>1, <2>2, <2>3
<1> QED
  BY <1>11, <1>12 DEF d, n, v, p

\* An attribute of a known type is read as it means.
LEMMA FrontIs ==
  ASSUME NEW d \in Seq(Nat), NEW v \in Seq(Nat),
         Len(v) <= Len(d), \A k \in 1..Len(v) : d[k] = v[k]
  PROVE  SubSeq(d, 1, Len(v)) = v
<1> DEFINE zero == 0
           n == Len(v)
<1>1. n \in Nat
  BY LenProperties
<1>2. /\ zero \in Nat /\ zero + n = n /\ zero + 1 = 1
      /\ \A k \in 1..n : zero + k = k
  BY <1>1
<1> HIDE DEF zero
<1>3. zero + Len(v) <= Len(d) /\ \A k \in 1..Len(v) : d[zero + k] = v[k]
  BY <1>2 DEF n
<1>4. SubSeq(d, zero + 1, zero + Len(v)) = v
  BY <1>2, <1>3, PartIs
<1> QED
  BY <1>2, <1>4 DEF n

LEMMA JoinedParts ==
  ASSUME NEW s \in Seq(Nat), NEW t \in Seq(Nat)
  PROVE  /\ SubSeq(s \o t, 1, Len(s)) = s
         /\ SubSeq(s \o t, Len(s) + 1, Len(s) + Len(t)) = t
<1> DEFINE d == s \o t
           m == Len(s)
           n == Len(t)
<1>1. /\ d \in Seq(Nat) /\ Len(d) = m + n /\ m \in Nat /\ n \in Nat
      /\ \A k \in 1..m : d[k] = s[k]
      /\ \A k \in 1..n : d[m + k] = t[k]
  BY Joined
<1> HIDE DEF d
<1>2. SubSeq(d, 1, Len(s)) = s
  <2>1. Len(s) <= Len(d)
    BY <1>1
  <2> QED
    BY <1>1, <2>1, FrontIs
<1>3. SubSeq(d, Len(s) + 1, Len(s) + Len(t)) = t
  <2>1. Len(s) \in Nat /\ Len(s) + Len(t) <= Len(d)
    BY <1>1
  <2> QED
    BY <1>1, <2>1, PartIs
<1> QED
  BY <1>2, <1>3 DEF d

LEMMA ValueRead ==
  ASSUME NEW a \in PeerAttribute, NEW width \in {2, 4}, NEW mine \in {2, 4},
         a.code \in 1..7, a.code # 5, StandardData(a, width) # <<>>,
         a.code \in {2, 7} => mine = width
  PROVE  /\ ~PAdataPanics(a.code, StandardData(a, width), mine)
         /\ mine = width =>
              PAdata(a.code, StandardData(a, width), mine) = ValueOf(a, width)
<1> DEFINE d == StandardData(a, width)
<1>0. d \in Seq(Nat)
  BY DataBytes
<1>1. CASE a.code = 1
  <2>1. d = a.data /\ a.data[1] \in 0..2
    BY <1>1, DataBytes
  <2>2. ~(d[1] > 2)
    <3> HIDE DEF d
    <3> QED
      BY <2>1
  <2>3. ValueOf(a, width) = a.data[1]
    <3>1. a.code # 2 /\ a.code # 7 /\ ~(a.code \notin {1, 2, 7})
      BY <1>1
    <3> QED
      BY <1>1, <3>1, Zenon DEF ValueOf
  <2> HIDE DEF d
  <2> QED
    BY <1>1, <2>1, <2>2, <2>3, Panics, Values DEF d
<1>2. CASE a.code = 2
  <2> DEFINE list == a.data.as_list
             type == a.data.segment_type
             octets == [k \in DOMAIN list |-> AsOctets(list[k], width)]
  <2>1. /\ type \in {1, 2} /\ list \in Seq(AsNumber)
        /\ a.data = [segment_type |-> type, as_list |-> list]
    BY <1>2, AttributeKinds
  <2>2. d = <<type, Len(list)>> \o OctetsOf(list, width) /\ mine = width
    BY <1>2, PathData
  <2>3. ValueOf(a, width) = [segment_type |-> type, as_list |-> octets]
    <3>1. a.code # 1 /\ a.code # 7 /\ ~(a.code \notin {1, 2, 7})
      BY <1>2
    <3>2. ValueOf(a, width) =
            [a.data EXCEPT !.as_list = [k \in DOMAIN @ |-> AsOctets(@[k], width)]]
      BY <1>2, <3>1, Zenon DEF ValueOf
    <3> HIDE DEF list, type
    <3>3. a.data.as_list = list
      BY DEF list
    <3>4. [a.data EXCEPT !.as_list = [k \in DOMAIN @ |-> AsOctets(@[k], width)]]
            = [a.data EXCEPT !.as_list = octets]
      BY <3>3
    <3> HIDE DEF octets
    <3>5. [a.data EXCEPT !.as_list = octets] =
            [segment_type |-> type, as_list |-> octets]
      BY <2>1
    <3> QED
      BY <3>2, <3>4, <3>5
  <2> HIDE DEF d, list, type
  <2>4. /\ AsPathFits(d, width)
        /\ AsPathData(d, width) = [segment_type |-> type, as_list |-> octets]
    BY <2>1, <2>2, PathRead
  <2> QED
    BY <1>2, <2>2, <2>3, <2>4, Panics, Values DEF d
<1>3. CASE a.code \in {3, 4}
  <2>1. d = a.data /\ Len(d) = 4
    BY <1>3, DataBytes
  <2>2. ValueOf(a, width) = a.data
    <3>1. a.code # 1 /\ a.code # 2 /\ a.code # 7 /\ a.code \notin {1, 2, 7}
      BY <1>3
    <3> QED
      BY <3>1, Zenon DEF ValueOf
  <2> HIDE DEF d
  <2>3. SubSeq(d, 1, 4) = d
    <3>1. Len(d) <= Len(d) /\ \A k \in 1..Len(d) : d[k] = d[k]
      BY <2>1
    <3>2. SubSeq(d, 1, Len(d)) = d
      BY <1>0, <3>1, FrontIs
    <3> QED
      BY <2>1, <3>2
  <2>4. ~(Len(d) < 4)
    BY <2>1
  <2> QED
    BY <1>3, <2>1, <2>2, <2>3, <2>4, Panics, Values DEF d
<1>4. CASE a.code = 7
  <2> DEFINE as == AsOctets(a.data[1], width)
             id == a.data[2]
  <2>1. /\ d = as \o id /\ mine = width /\ Len(d) = width + 4
        /\ as \in Seq(Nat) /\ Len(as) = width /\ id \in Seq(Nat) /\ Len(id) = 4
    BY <1>4, AggregatorData, DataBytes
  <2>2. ValueOf(a, width) = <<as, id>>
    <3>1. a.code # 1 /\ a.code # 2 /\ ~(a.code \notin {1, 2, 7})
      BY <1>4
    <3> QED
      BY <1>4, <3>1, Zenon DEF ValueOf
  <2> HIDE DEF d, as, id
  <2>3. /\ SubSeq(d, 1, Len(as)) = as
        /\ SubSeq(d, Len(as) + 1, Len(as) + Len(id)) = id
    <3>1. as \in Seq(Nat) /\ id \in Seq(Nat) /\ d = as \o id
      BY <2>1
    <3> QED
      BY <3>1, JoinedParts
  <2>4. SubSeq(d, 1, width) = as
    BY <2>1, <2>3
  <2>5. SubSeq(d, width + 1, width + 4) = id
    BY <2>1, <2>3
  <2>6. ~(Len(d) < mine + 4)
    BY <2>1
  <2>7. PAdata(7, d, mine) = <<as, id>>
    <3>1. PAdata(7, d, width) =
            <<SubSeq(d, 1, width), SubSeq(d, width + 1, width + 4)>>
      BY Values
    <3> QED
      BY <2>1, <2>4, <2>5, <3>1
  <2> QED
    BY <1>4, <2>1, <2>2, <2>6, <2>7, Panics DEF d
<1>5. a.code # 6
  BY DataBytes
<1> QED
  BY <1>1, <1>2, <1>3, <1>4, <1>5

\* Pieces that are not empty: some are left as long as the end is not reached.
LEMMA PiecesLeft ==
  ASSUME NEW seqs \in Seq(Seq(Nat)), \A k \in 1..Len(seqs) : Len(seqs[k]) > 0
  PROVE  /\ Len(FlattenSeq(seqs)) \in Nat /\ Before(seqs, 0) = 0
         /\ \A k \in 0..Len(seqs) :
              /\ Before(seqs, k) \in Nat
              /\ Before(seqs, k) < Len(FlattenSeq(seqs)) <=> k # Len(seqs)
              /\ k = Len(seqs) => Before(seqs, k) = Len(FlattenSeq(seqs))
         /\ Len(FlattenSeq(seqs)) = 0 <=> Len(seqs) = 0
<1> DEFINE n == Len(seqs)
           size == Len(FlattenSeq(seqs))
<1>1. n \in Nat
  BY LenProperties
<1>2. /\ Before(seqs, 0) = 0 /\ Before(seqs, n) = size
      /\ \A k \in 0..n : Before(seqs, k) \in Nat
      /\ \A k, j \in 0..n : k <= j => Before(seqs, k) <= Before(seqs, j)
      /\ \A k \in 1..n : Before(seqs, k) = Before(seqs, k - 1) + Len(seqs[k])
  BY FlattenLayout
<1>3. \A k \in 1..n : Len(seqs[k]) \in Nat /\ Len(seqs[k]) > 0
  <2>1. \A k \in 1..n : seqs[k] \in Seq(Nat)
    BY ElementOfSeq
  <2> QED
    BY <2>1, LenProperties
<1> HIDE DEF n, size
<1>4. n \in 0..n /\ 0 \in 0..n
  BY <1>1
<1>5. ASSUME NEW k \in 0..n, k # n PROVE Before(seqs, k) < size
  <2>1. k + 1 \in 0..n /\ k + 1 \in 1..n /\ (k + 1) - 1 = k /\ k + 1 <= n
    BY <1>1, <1>5
  <2>2. Before(seqs, k + 1) = Before(seqs, (k + 1) - 1) + Len(seqs[k + 1])
    BY <1>2, <2>1
  <2>3. Before(seqs, k + 1) <= Before(seqs, n)
    BY <1>2, <1>4, <2>1
  <2>4. /\ Before(seqs, k) \in Nat /\ Before(seqs, k + 1) \in Nat
        /\ Len(seqs[k + 1]) \in Nat /\ Len(seqs[k + 1]) > 0
        /\ Before(seqs, k + 1) = Before(seqs, k) + Len(seqs[k + 1])
        /\ Before(seqs, k + 1) <= size /\ size \in Nat
    BY <1>2, <1>3, <1>4, <2>1, <2>2, <2>3
  <2> QED
    BY <2>4
<1>6. size \in Nat
  BY <1>2, <1>4
<1>7. \A k \in 0..n : k = n => Before(seqs, k) = size /\ ~(Before(seqs, k) < size)
  BY <1>2, <1>6
<1>8. size = 0 <=> n = 0
  <2>1. n # 0 => 0 < size
    BY <1>2, <1>4, <1>5
  <2>2. n = 0 => size = 0
    BY <1>2
  <2> QED
    BY <2>1, <2>2
<1> QED
  BY <1>2, <1>5, <1>6, <1>7, <1>8 DEF n, size

LEMMA PrefixesLeft ==
  ASSUME NEW list \in Seq(PeerPrefix)
  PROVE  Len(FlattenSeq(PrefixPieces(list))) = 0 <=> list = <<>>
<1> DEFINE p == PrefixPieces(list)
           n == Len(list)
<1>1. /\ p \in Seq(Seq(Nat)) /\ Len(p) = n /\ n \in Nat
      /\ \A k \in 1..n : list[k] \in PeerPrefix /\ p[k] = StandardPrefix(list[k])
  BY PrefixesWritten
<1> HIDE DEF p
<1>2. \A k \in 1..Len(p) : Len(p[k]) > 0
  <2> SUFFICES ASSUME NEW k \in 1..n PROVE Len(p[k]) > 0
    BY <1>1
  <2>1. Len(StandardPrefix(list[k])) = 1 + StandardOctets(list[k].len)
        /\ StandardOctets(list[k].len) \in 0..4
    BY <1>1, PrefixBytes, PrefixParts
  <2> QED
    BY <1>1, <2>1
<1>3. Len(FlattenSeq(p)) = 0 <=> Len(p) = 0
  BY <1>1, <1>2, PiecesLeft
<1>4. n = 0 <=> list = <<>>
  BY EmptySeq
<1> QED
  BY <1>1, <1>3, <1>4 DEF p

LEMMA AttributesLeft ==
  ASSUME NEW m \in PeerUpdate, NEW width \in {2, 4}
  PROVE  LET p == AttributePieces(m.attributes, width)
             n == Len(m.attributes)
             size == Len(AttributesBytes(m, width))
         IN  /\ n \in Nat /\ size \in Nat /\ Before(p, 0) = 0
             /\ \A k \in 0..n : /\ Before(p, k) \in Nat
                                /\ Before(p, k) < size <=> k # n
                                /\ k = n => Before(p, k) = size
             /\ size = 0 <=> n = 0
             /\ n = 0 <=> m.attributes = <<>>
<1> DEFINE list == m.attributes
           p == AttributePieces(list, width)
           n == Len(list)
<1>0. list \in Seq(PeerAttribute)
  BY UpdateParts
<1> HIDE DEF list
<1>1. /\ p \in Seq(Seq(Nat)) /\ Len(p) = n /\ n \in Nat
      /\ \A k \in 1..n : list[k] \in PeerAttribute /\ p[k] = StandardAttribute(list[k], width)
  BY <1>0, AttributesWritten
<1> HIDE DEF p
<1>2. \A k \in 1..Len(p) : Len(p[k]) > 0
  <2> SUFFICES ASSUME NEW k \in 1..n PROVE Len(p[k]) > 0
    BY <1>1
  <2> DEFINE l == Len(StandardData(list[k], width))
  <2>1. Len(StandardAttribute(list[k], width)) = 3 + l /\ l \in Nat
    BY <1>1, AttributeBytes
  <2> HIDE DEF l
  <2> QED
    BY <1>1, <2>1
<1>3. /\ Len(FlattenSeq(p)) \in Nat /\ Before(p, 0) = 0
      /\ \A k \in 0..Len(p) : /\ Before(p, k) \in Nat
                              /\ Before(p, k) < Len(FlattenSeq(p)) <=> k # Len(p)
                              /\ k = Len(p) => Before(p, k) = Len(FlattenSeq(p))
      /\ Len(FlattenSeq(p)) = 0 <=> Len(p) = 0
  BY <1>1, <1>2, PiecesLeft
<1>4. n = 0 <=> list = <<>>
  BY <1>0, EmptySeq
<1>5. AttributesBytes(m, width) = FlattenSeq(p)
  BY DEF AttributesBytes, p, list
<1> QED
  BY <1>1, <1>3, <1>4, <1>5 DEF p, list

\* Where an attribute begins, the loop sees it.
LEMMA AttributeSeen ==
  ASSUME NEW m \in PeerUpdate, NEW width \in {2, 4}, tsbuf \in Seq(Nat),
         UpdateAt(tsbuf, m, width),
         NEW k \in Nat, k < Len(m.attributes),
         current_idx = 23 + Len(WithdrawnBytes(m))
                          + Before(AttributePieces(m.attributes, width), k)
  PROVE  LET p == AttributePieces(m.attributes, width)
             a == m.attributes[k + 1]
         IN  /\ a \in PeerAttribute /\ k + 1 \in 1..Len(m.attributes)
             /\ TypeCode = a.code /\ DataLen \in Nat
             /\ Data = StandardData(a, width)
             /\ Before(p, k + 1) = Before(p, k) + 3 + DataLen
             /\ AttributeFits <=>
                  a.code \in 1..7 /\ (k + 1 # Len(m.attributes) \/ m.nlri # <<>>)
<1> DEFINE list == m.attributes
           p == AttributePieces(list, width)
           n == Len(list)
           w == Len(WithdrawnBytes(m))
           size == Len(AttributesBytes(m, width))
           rest == Len(NlriBytes(m))
           a == list[k + 1]
           d == StandardData(a, width)
           l == Len(d)
           s == p[k + 1]
           u == Before(p, k)
           v == Before(p, k + 1)
           top == Len(tsbuf)
<1>1. /\ p \in Seq(Seq(Nat)) /\ Len(p) = n /\ n \in Nat
      /\ \A j \in 1..n : list[j] \in PeerAttribute /\ p[j] = StandardAttribute(list[j], width)
  BY UpdateParts, AttributesWritten
<1>2. k + 1 \in 1..n /\ k + 1 \in 1..Len(p) /\ (k + 1) - 1 = k
      /\ k \in 0..n /\ k + 1 \in 0..n /\ k # n
  BY <1>1
<1>3. a \in PeerAttribute /\ s = StandardAttribute(a, width)
  BY <1>1, <1>2
<1>4. /\ s \in Seq(Nat) /\ l \in Nat /\ Len(s) = 3 + l /\ s[2] = a.code /\ s[3] = l
      /\ \A j \in 1..l : s[3 + j] = d[j]
  <2> DEFINE t == StandardAttribute(a, width)
  <2>1. /\ t \in Seq(Nat) /\ l \in Nat /\ Len(t) = 3 + l /\ t[2] = a.code
        /\ t[3] = l /\ \A j \in 1..l : t[3 + j] = d[j]
    <3> HIDE DEF a
    <3> QED
      BY <1>3, AttributeBytes
  <2>2. s = t
    BY <1>3
  <2> HIDE DEF s, t, d, l, a
  <2> QED
    BY <2>1, <2>2
<1>5. /\ message_len = 23 + w + size + rest
      /\ Lays(tsbuf, 23 + w, FlattenSeq(p))
      /\ 23 + w + size + rest <= top
  BY DEF UpdateAt, message_len, AttributesBytes
<1>6. /\ w \in Nat /\ rest \in Nat
      /\ size \in Nat /\ u \in Nat /\ v \in Nat
      /\ v < size <=> k + 1 # n
      /\ k + 1 = n => v = size
  <2>1. w \in Nat /\ rest \in Nat
    BY UpdateLayout
  <2>2. n \in Nat /\ size \in Nat /\ \A j \in 0..n :
          /\ Before(p, j) \in Nat
          /\ Before(p, j) < size <=> j # n
          /\ j = n => Before(p, j) = size
    BY AttributesLeft
  <2> QED
    BY <1>2, <2>1, <2>2
<1>7. rest # 0 <=> m.nlri # <<>>
  BY UpdateParts, PrefixesLeft DEF NlriBytes
<1>8. d \in Seq(Nat)
  BY <1>3, DataBytes
<1>9. Lays(tsbuf, 23 + w + u, s) /\ v = u + Len(s)
  <2> HIDE DEF p, w
  <2>1. 23 + w \in Nat
    BY <1>6
  <2>2. /\ Lays(tsbuf, 23 + w + Before(p, (k + 1) - 1), p[k + 1])
        /\ Before(p, k + 1) = Before(p, (k + 1) - 1) + Len(p[k + 1])
    BY <1>1, <1>2, <1>5, <2>1, LaysPiece
  <2> QED
    BY <1>2, <2>2
<1>10. current_idx = 23 + w + u
  OBVIOUS
<1>11. top \in Nat
  BY LenProperties
<1>12. v <= size
  BY <1>6
<1> HIDE DEF list, p, n, w, size, rest, a, d, l, s, u, v, top
<1>13. /\ current_idx \in Nat /\ current_idx + 3 + l <= top
       /\ \A j \in 1..Len(s) : tsbuf[current_idx + j] = s[j]
  <2>1. current_idx + Len(s) <= Len(tsbuf)
        /\ \A j \in 1..Len(s) : tsbuf[current_idx + j] = s[j]
    BY <1>9, <1>10 DEF Lays
  <2>2. current_idx \in Nat /\ Len(s) = 3 + l /\ l \in Nat
    BY <1>4, <1>6, <1>10
  <2>3. current_idx + (3 + l) <= top
    BY <2>1, <2>2 DEF top
  <2>4. current_idx + 3 + l <= top
    BY <1>11, <2>2, <2>3
  <2> QED
    BY <2>1, <2>2, <2>4
<1>14. TypeCode = a.code /\ DataLen = l
  <2>1. 2 \in 1..Len(s) /\ 3 \in 1..Len(s)
    BY <1>4
  <2>2. tsbuf[current_idx + 2] = s[2] /\ tsbuf[current_idx + 3] = s[3]
    BY <1>13, <2>1
  <2>3. current_idx + 1 + 1 = current_idx + 2 /\ current_idx + 2 + 1 = current_idx + 3
    BY <1>13
  <2> QED
    BY <1>4, <2>2, <2>3 DEF TypeCode, DataLen, At
<1>15. Data = d
  <2> DEFINE i == current_idx + 3
  <2>1. i \in Nat /\ i + l <= top /\ i + 1 = current_idx + 4
    BY <1>13
  <2>2. ASSUME NEW j \in 1..l PROVE tsbuf[i + j] = d[j]
    <3>1. 3 + j \in 1..Len(s) /\ current_idx + (3 + j) = i + j
      BY <1>4, <1>13
    <3>2. tsbuf[current_idx + (3 + j)] = s[3 + j]
      BY <1>13, <3>1
    <3> QED
      BY <1>4, <3>1, <3>2
  <2>3. Has(tsbuf, i + l)
    BY <2>1 DEF Has, top
  <2>4. Data = SubSeq(tsbuf, i + 1, i + l)
    BY <1>14, <2>1, <2>3 DEF Data
  <2> HIDE DEF i
  <2>5. i + Len(d) <= Len(tsbuf) /\ \A j \in 1..Len(d) : tsbuf[i + j] = d[j]
    BY <2>1, <2>2 DEF l, top
  <2>6. SubSeq(tsbuf, i + 1, i + Len(d)) = d
    BY <1>8, <2>1, <2>5, PartIs
  <2> QED
    BY <2>4, <2>6 DEF l
<1>16. v = u + 3 + DataLen
  BY <1>4, <1>6, <1>9, <1>14
<1>17. AttributeFits <=> a.code \in 1..7 /\ (k + 1 # n \/ m.nlri # <<>>)
  <2>1. Has(tsbuf, current_idx + 3)
    BY <1>4, <1>11, <1>13 DEF Has, top
  <2>2. current_idx + 3 + DataLen = 23 + w + v
    <3>1. /\ DataLen \in Nat /\ u \in Nat /\ w \in Nat
          /\ v = u + 3 + DataLen /\ current_idx = 23 + w + u
      BY <1>4, <1>6, <1>10, <1>14, <1>16
    <3> DEFINE len == DataLen
    <3>2. len \in Nat /\ v = u + 3 + len /\ u \in Nat /\ w \in Nat
      BY <3>1
    <3> HIDE DEF len
    <3>3. 23 + w + u + 3 + len = 23 + w + v
      BY <3>2
    <3> QED
      BY <3>1, <3>3 DEF len
  <2>3. current_idx + 3 + DataLen < message_len <=> v < size + rest
    BY <1>5, <1>6, <2>2
  <2>4. v < size + rest <=> (k + 1 # n \/ rest # 0)
    BY <1>6, <1>12
  <2> QED
    BY <1>7, <1>14, <2>1, <2>3, <2>4 DEF AttributeFits
<1> QED
  BY <1>2, <1>3, <1>4, <1>14, <1>15, <1>16, <1>17 DEF a, d, l, n, list, p, u, v

\* What is made of the attributes grows with each of them.
LEMMA MeaningsGrow ==
  ASSUME NEW list \in Seq(PeerAttribute), NEW width \in {2, 4}
  PROVE  LET F(k) == FlattenSeq(SubSeq(Meanings(list, width), 1, k)) IN
         /\ F(0) = <<>>
         /\ F(Len(list)) = Meaning(list, width)
         /\ \A k \in Nat : k < Len(list) =>
              F(k + 1) = IF StandardData(list[k + 1], width) = <<>> THEN F(k)
                         ELSE Append(F(k), RecordOf(list[k + 1], width))
<1> DEFINE q == Meanings(list, width)
           n == Len(list)
           F(k) == FlattenSeq(SubSeq(q, 1, k))
           empty(k) == StandardData(list[k], width) = <<>>
           r(k) == RecordOf(list[k], width)
           Records == {r(k) : k \in 1..n}
<1>1. n \in Nat /\ DOMAIN list = 1..n
  BY LenProperties
<1>2. q = [k \in 1..n |-> IF empty(k) THEN <<>> ELSE <<r(k)>>]
  BY <1>1 DEF Meanings
<1>3. Meaning(list, width) = FlattenSeq(q)
  BY MeaningIs
<1> HIDE DEF q, n, empty, r
<1>4. \A k \in 1..n : r(k) \in Records
  OBVIOUS
<1> HIDE DEF Records
<1>5. q \in [1..n -> Seq(Records)]
      /\ \A k \in 1..n : q[k] = IF empty(k) THEN <<>> ELSE <<r(k)>>
  <2>1. ASSUME NEW k \in 1..n
        PROVE  (IF empty(k) THEN <<>> ELSE <<r(k)>>) \in Seq(Records)
    <3>1. <<>> \in Seq(Records) /\ <<r(k)>> \in Seq(Records)
      BY <1>4
    <3> QED
      BY <3>1
  <2> QED
    BY <1>2, <2>1
<1>6. q \in Seq(Seq(Records)) /\ Len(q) = n
  BY <1>1, <1>5, SizedSeq
<1>7. F(0) = <<>>
  <2>1. SubSeq(q, 1, 0) = <<>>
    BY <1>6
  <2> QED
    BY <2>1, FlattenEmpty
<1>8. F(n) = FlattenSeq(q)
  <2> DEFINE S == Seq(Records)
             part == SubSeq(q, 1, n)
  <2>1. part = q
    <3>1. q \in Seq(S) /\ Len(q) = n
      BY <1>6
    <3> HIDE DEF S
    <3> QED
      BY <3>1
  <2> HIDE DEF part
  <2> QED
    BY <2>1 DEF part
<1>9. ASSUME NEW k \in Nat, k < n
      PROVE  F(k + 1) = IF empty(k + 1) THEN F(k) ELSE Append(F(k), r(k + 1))
  <2>1. k + 1 \in 1..n /\ k + 1 \in 1..Len(q) /\ (k + 1) - 1 = k
    BY <1>1, <1>6, <1>9
  <2>2. /\ F((k + 1) - 1) \in Seq(Records)
        /\ F(k + 1) = F((k + 1) - 1) \o q[k + 1]
    BY <1>6, <2>1, FlattenFirst
  <2> DEFINE f == F(k)
             x == r(k + 1)
  <2>3. f \in Seq(Records) /\ F(k + 1) = f \o q[k + 1]
    BY <2>1, <2>2
  <2>4. q[k + 1] = IF empty(k + 1) THEN <<>> ELSE <<x>>
    BY <1>5, <2>1
  <2>5. x \in Records
    BY <1>4, <2>1
  <2> HIDE DEF F, f, x
  <2>6. f \o <<>> = f /\ f \o <<x>> = Append(f, x)
    BY <2>3, <2>5
  <2>7. F(k + 1) = IF empty(k + 1) THEN f ELSE Append(f, x)
    BY <2>3, <2>4, <2>6
  <2> QED
    BY <2>7 DEF f, x
<1> QED
  BY <1>3, <1>7, <1>8, <1>9 DEF q, n, empty, r

-----------------------------------------------------------------------------
(* The decoder.  m is the Update it reads, width that of its AS numbers,   *)
(* mine the one the decoder expects.                                       *)

AttributesTaken(m, width, mine, k, attributes) ==
  /\ \A j \in 1..k : m.attributes[j].code \in 1..7
  /\ k # 0 /\ k = Len(m.attributes) => m.nlri # <<>>
  /\ mine = width =>
       attributes = FlattenSeq(SubSeq(Meanings(m.attributes, width), 1, k))

\* What HasAttribute, Refusable and PanicsOnly say of m.
CodeIn(m, codes) == \E k \in DOMAIN m.attributes : m.attributes[k].code \in codes
CanRefuse(m) ==
  \/ CodeIn(m, Nat \ 1..7)
  \/ m.nlri = <<>> /\ ~(Len(WithdrawnBytes(m)) >= 5 /\ m.attributes = <<>>)
CanPanic(m, width, mine) ==
  \/ CodeIn(m, {5})
  \/ Len(m.withdrawn) > 1 /\ ~HostRoutes(m.withdrawn)
  \/ m.nlri # <<>> /\ m.nlri[1].len = 0
  \/ CodeIn(m, {2, 7}) /\ mine # width
FirstNlri(m) ==
  IF m.nlri = <<>> THEN <<>> ELSE NewNlri(m.nlri[1].len, m.nlri[1].prefix)

Decoding(m, width, mine) ==
  /\ pc = "lengths" => /\ current_idx = 0 /\ pa_idx = 0
                       /\ withdrawn_routes = <<>> /\ path_attributes = <<>>
                       /\ nlri = <<>>
  /\ pc = "withdrawn" =>
       /\ \E i \in 0..Turns(m) : /\ current_idx = 21 + 5 * i
                                 /\ WithdrawnRead(m, i, withdrawn_routes)
       /\ pa_idx = 0 /\ path_attributes = <<>>
  /\ pc = "attributes" =>
       /\ WithdrawnRead(m, Turns(m), withdrawn_routes)
       /\ \E k \in 0..Len(m.attributes) :
            /\ pa_idx = Before(AttributePieces(m.attributes, width), k)
            /\ current_idx = 23 + Len(WithdrawnBytes(m))
                               + Before(AttributePieces(m.attributes, width), k)
            /\ AttributesTaken(m, width, mine, k, path_attributes)
  /\ pc = "ok" => /\ WithdrawnRead(m, Turns(m), withdrawn_routes)
                  /\ nlri = FirstNlri(m)
                  /\ mine = width => path_attributes = Meaning(m.attributes, width)
                  /\ ~CanRefuse(m)
  /\ pc = "error" => CanRefuse(m)
  /\ pc = "panic" => CanPanic(m, width, mine)

\* The numbers of the Update, in the terms of the decoder.
LEMMA DecoderNumbers ==
  ASSUME NEW m \in PeerUpdate, NEW width \in {2, 4}, tsbuf \in Seq(Nat),
         UpdateAt(tsbuf, m, width)
  PROVE  LET w == Len(WithdrawnBytes(m))
             a == Len(AttributesBytes(m, width))
             n == Len(NlriBytes(m))
         IN  /\ w \in Nat /\ a \in Nat /\ n \in Nat
             /\ message_len = 23 + w + a + n /\ message_len <= MaxMessageLen
             /\ message_len >= 23
             /\ withdrawn_route_len = w /\ total_path_attribute_len = a
             /\ 23 + w + a + n <= Len(tsbuf) /\ Len(tsbuf) \in Nat
             /\ Turns(m) \in Nat /\ WithdrawnEnd = 21 + 5 * Turns(m)
<1> DEFINE w == Len(WithdrawnBytes(m))
           a == Len(AttributesBytes(m, width))
           n == Len(NlriBytes(m))
<1>1. w \in Nat /\ a \in Nat /\ n \in Nat /\ 23 + w + a + n <= 4096
  BY UpdateLayout
<1>2. /\ message_len = 23 + w + a + n
      /\ withdrawn_route_len = w
      /\ U16At(tsbuf, 21 + w) = a
      /\ 23 + w + a + n <= Len(tsbuf)
  BY DEF UpdateAt, message_len, withdrawn_route_len
<1>3. total_path_attribute_len = a
  BY <1>2 DEF total_path_attribute_len
<1>4. Turns(m) = w \div 5
  BY DEF Turns
<1>5. WithdrawnEnd = 21 + 5 * Turns(m)
  BY <1>2, <1>4 DEF WithdrawnEnd, base_idx, route_and_len_size
<1>6. Len(tsbuf) \in Nat
  BY LenProperties
<1> HIDE DEF w, a, n
<1>7. Turns(m) \in Nat /\ 23 + w + a + n >= 23
  BY <1>1, <1>4
<1> QED
  BY <1>1, <1>2, <1>3, <1>5, <1>6, <1>7 DEF w, a, n, MaxMessageLen

DecodingAt(m, width, mine) ==
  tsbuf \in Seq(Nat) /\ UpdateAt(tsbuf, m, width) /\ Decoding(m, width, mine)

LEMMA DecodeLengths ==
  ASSUME NEW m \in PeerUpdate, NEW width \in {2, 4}, NEW mine \in {2, 4},
         DecodingAt(m, width, mine), ExtractLengths
  PROVE  Decoding(m, width, mine)'
<1>1. tsbuf \in Seq(Nat) /\ UpdateAt(tsbuf, m, width) /\ Decoding(m, width, mine)
  BY DEF DecodingAt
<1>2. Has(tsbuf, base_idx) /\ message_len >= 23
  <2> DEFINE w == Len(WithdrawnBytes(m))
             a == Len(AttributesBytes(m, width))
             n == Len(NlriBytes(m))
  <2>1. /\ w \in Nat /\ a \in Nat /\ n \in Nat /\ message_len >= 23
        /\ 23 + w + a + n <= Len(tsbuf) /\ Len(tsbuf) \in Nat
    BY <1>1, DecoderNumbers
  <2> HIDE DEF w, a, n
  <2>2. 21 <= Len(tsbuf)
    BY <2>1
  <2> QED
    BY <2>1, <2>2 DEF Has, base_idx
<1>3. /\ pc = "lengths" /\ pc' = "withdrawn" /\ current_idx' = 21
      /\ pa_idx' = pa_idx /\ withdrawn_routes' = withdrawn_routes
      /\ path_attributes' = path_attributes
  BY <1>2 DEF ExtractLengths, extracted, base_idx
<1>4. pa_idx = 0 /\ withdrawn_routes = <<>> /\ path_attributes = <<>>
  BY <1>1, <1>3 DEF Decoding
<1>5. WithdrawnRead(m, 0, <<>>)
  <2>1. <<>> \in Seq(Prefix) /\ Len(<<>>) = 0 /\ 1..0 = {}
    OBVIOUS
  <2> QED
    BY <2>1 DEF WithdrawnRead
<1>6. 0 \in 0..Turns(m) /\ 21 + 5 * 0 = 21
  <2>1. Turns(m) \in Nat
    BY <1>1, DecoderNumbers
  <2> QED
    BY <2>1
<1>7. \E i \in 0..Turns(m) :
        current_idx' = 21 + 5 * i /\ WithdrawnRead(m, i, withdrawn_routes')
  BY <1>3, <1>4, <1>5, <1>6
<1> QED
  BY <1>3, <1>4, <1>7 DEF Decoding

LEMMA DecodeWithdrawn ==
  ASSUME NEW m \in PeerUpdate, NEW width \in {2, 4}, NEW mine \in {2, 4},
         DecodingAt(m, width, mine), ExtractWithdrawnRoute
  PROVE  Decoding(m, width, mine)'
<1>1. tsbuf \in Seq(Nat) /\ UpdateAt(tsbuf, m, width) /\ Decoding(m, width, mine)
  BY DEF DecodingAt
<1>2. /\ pc = "withdrawn" /\ current_idx < WithdrawnEnd
      /\ \/ ~Has(tsbuf, current_idx + 1) /\ Return("error")
         \/ /\ Has(tsbuf, current_idx + 1) /\ ~PrefixFits(tsbuf, current_idx)
            /\ Return("panic")
         \/ /\ Has(tsbuf, current_idx + 1) /\ PrefixFits(tsbuf, current_idx)
            /\ withdrawn_routes' = withdrawn_routes \o PrefixAt(tsbuf, current_idx)
            /\ current_idx' = current_idx + 5
            /\ UNCHANGED <<tsbuf, pc, pa_idx, path_attributes, nlri>>
  BY DEF ExtractWithdrawnRoute, WithdrawnRoute, route_and_len_size
<1>3. PICK i \in 0..Turns(m) :
        current_idx = 21 + 5 * i /\ WithdrawnRead(m, i, withdrawn_routes)
  BY <1>1, <1>2 DEF Decoding
<1>4. pa_idx = 0 /\ path_attributes = <<>>
  BY <1>1, <1>2 DEF Decoding
<1>5. Turns(m) \in Nat /\ WithdrawnEnd = 21 + 5 * Turns(m)
  BY <1>1, DecoderNumbers
<1>6. i \in Nat /\ i < Turns(m) /\ i + 1 \in 0..Turns(m)
      /\ current_idx + 5 = 21 + 5 * (i + 1)
  BY <1>2, <1>3, <1>5
<1>7. /\ Has(tsbuf, current_idx + 1)
      /\ ~PrefixFits(tsbuf, current_idx) =>
           Len(m.withdrawn) > 1 /\ ~HostRoutes(m.withdrawn)
      /\ PrefixFits(tsbuf, current_idx) =>
           WithdrawnRead(m, i + 1, withdrawn_routes \o PrefixAt(tsbuf, current_idx))
  <2>1. Lays(tsbuf, 21, WithdrawnBytes(m))
    BY <1>1 DEF UpdateAt
  <2>2. WithdrawnRead(m, i, withdrawn_routes)
    BY <1>3
  <2>3. /\ Has(tsbuf, 21 + 5 * i + 1)
        /\ ~PrefixFits(tsbuf, 21 + 5 * i) =>
             Len(m.withdrawn) > 1 /\ ~HostRoutes(m.withdrawn)
        /\ PrefixFits(tsbuf, 21 + 5 * i) =>
             WithdrawnRead(m, i + 1,
                           withdrawn_routes \o PrefixAt(tsbuf, 21 + 5 * i))
    BY <1>1, <1>6, <2>1, <2>2, OneTurn
  <2> QED
    BY <1>3, <2>3
<1>8. CASE ~PrefixFits(tsbuf, current_idx)
  <2>1. pc' = "panic"
    BY <1>2, <1>7, <1>8 DEF Return
  <2>2. CanPanic(m, width, mine)
    BY <1>7, <1>8 DEF CanPanic
  <2> QED
    BY <2>1, <2>2 DEF Decoding
<1>9. CASE PrefixFits(tsbuf, current_idx)
  <2>1. /\ withdrawn_routes' = withdrawn_routes \o PrefixAt(tsbuf, current_idx)
        /\ current_idx' = current_idx + 5
        /\ pc' = pc /\ pa_idx' = pa_idx /\ path_attributes' = path_attributes
    BY <1>2, <1>7, <1>9
  <2>2. \E j \in 0..Turns(m) :
          current_idx' = 21 + 5 * j /\ WithdrawnRead(m, j, withdrawn_routes')
    BY <1>6, <1>7, <1>9, <2>1
  <2> QED
    BY <1>2, <1>4, <2>1, <2>2 DEF Decoding
<1> QED
  BY <1>8, <1>9

LEMMA DecodeAttributesLen ==
  ASSUME NEW m \in PeerUpdate, NEW width \in {2, 4}, NEW mine \in {2, 4},
         DecodingAt(m, width, mine), ExtractAttributesLen
  PROVE  Decoding(m, width, mine)'
<1>1. tsbuf \in Seq(Nat) /\ UpdateAt(tsbuf, m, width) /\ Decoding(m, width, mine)
  BY DEF DecodingAt
<1> DEFINE w == Len(WithdrawnBytes(m))
           a == Len(AttributesBytes(m, width))
           n == Len(NlriBytes(m))
           list == m.attributes
           p == AttributePieces(list, width)
<1>2. /\ w \in Nat /\ a \in Nat /\ n \in Nat /\ withdrawn_route_len = w
      /\ 23 + w + a + n <= Len(tsbuf) /\ Len(tsbuf) \in Nat
      /\ Turns(m) \in Nat /\ WithdrawnEnd = 21 + 5 * Turns(m)
  BY <1>1, DecoderNumbers
<1>3. Len(list) \in Nat /\ Before(p, 0) = 0
  BY AttributesLeft
<1>4. list \in Seq(PeerAttribute)
  BY UpdateParts
<1>4a. FlattenSeq(SubSeq(Meanings(list, width), 1, 0)) = <<>>
  BY <1>4, MeaningsGrow
<1> HIDE DEF w, a, n, list, p
<1>5. base_idx + withdrawn_route_len + 2 = 23 + w
  BY <1>2 DEF base_idx
<1>6. Has(tsbuf, 23 + w)
  BY <1>2 DEF Has
<1>7. /\ pc = "withdrawn" /\ current_idx >= WithdrawnEnd
      /\ pc' = "attributes" /\ current_idx' = 23 + w /\ pa_idx' = pa_idx
      /\ withdrawn_routes' = withdrawn_routes /\ path_attributes' = path_attributes
  BY <1>5, <1>6 DEF ExtractAttributesLen, extracted
<1>8. pa_idx = 0 /\ path_attributes = <<>>
  BY <1>1, <1>7 DEF Decoding
<1>9. PICK i \in 0..Turns(m) :
        current_idx = 21 + 5 * i /\ WithdrawnRead(m, i, withdrawn_routes)
  BY <1>1, <1>7 DEF Decoding
<1>10. i = Turns(m)
  BY <1>2, <1>7, <1>9
<1>11. WithdrawnRead(m, Turns(m), withdrawn_routes')
  BY <1>7, <1>9, <1>10
<1>12. AttributesTaken(m, width, mine, 0, path_attributes')
  <2>1. 1..0 = {}
    OBVIOUS
  <2> QED
    BY <1>4a, <1>7, <1>8, <2>1 DEF AttributesTaken, list
<1>13. 0 \in 0..Len(list) /\ pa_idx' = Before(p, 0) /\ current_idx' = 23 + w + Before(p, 0)
  BY <1>2, <1>3, <1>7, <1>8
<1>14. \E k \in 0..Len(list) : /\ pa_idx' = Before(p, k)
                               /\ current_idx' = 23 + w + Before(p, k)
                               /\ AttributesTaken(m, width, mine, k, path_attributes')
  BY <1>12, <1>13
<1> QED
  BY <1>7, <1>11, <1>14 DEF Decoding, list, p, w

LEMMA DecodeAttribute ==
  ASSUME NEW m \in PeerUpdate, NEW width \in {2, 4}, NEW mine \in {2, 4},
         DecodingAt(m, width, mine), ExtractAttribute(mine)
  PROVE  Decoding(m, width, mine)'
<1>1. tsbuf \in Seq(Nat) /\ UpdateAt(tsbuf, m, width) /\ Decoding(m, width, mine)
  BY DEF DecodingAt
<1> DEFINE w == Len(WithdrawnBytes(m))
           list == m.attributes
           p == AttributePieces(list, width)
           F(k) == FlattenSeq(SubSeq(Meanings(list, width), 1, k))
           step == /\ AttributeFits
                   /\ Data # <<>> => ~PAdataPanics(TypeCode, Data, mine)
                   /\ pa_idx' = pa_idx + 3 + DataLen
                   /\ current_idx' = current_idx + 3 + DataLen
                   /\ path_attributes' =
                        IF Data = <<>> THEN path_attributes
                        ELSE Append(path_attributes, [code |-> TypeCode,
                                      data |-> PAdata(TypeCode, Data, mine)])
                   /\ pc' = pc /\ withdrawn_routes' = withdrawn_routes
<1>2. /\ pc = "attributes" /\ pa_idx < total_path_attribute_len
      /\ \/ ~AttributeFits /\ pc' = "error"
         \/ /\ AttributeFits /\ Data # <<>> /\ PAdataPanics(TypeCode, Data, mine)
            /\ pc' = "panic"
         \/ step
  BY DEF ExtractAttribute, Return
<1>3. PICK k \in 0..Len(list) :
        /\ pa_idx = Before(p, k) /\ current_idx = 23 + w + Before(p, k)
        /\ AttributesTaken(m, width, mine, k, path_attributes)
  BY <1>1, <1>2 DEF Decoding
<1>4. WithdrawnRead(m, Turns(m), withdrawn_routes)
  BY <1>1, <1>2 DEF Decoding
<1>5. /\ Len(list) \in Nat /\ Before(p, k) \in Nat
      /\ Before(p, k) < Len(AttributesBytes(m, width)) <=> k # Len(list)
  BY AttributesLeft
<1>6. w \in Nat /\ total_path_attribute_len = Len(AttributesBytes(m, width))
  BY <1>1, DecoderNumbers
<1>7. k \in Nat /\ k < Len(list) /\ k + 1 \in 0..Len(list) /\ k + 1 # 0
  <2>1. k # Len(list)
    BY <1>2, <1>3, <1>5, <1>6
  <2> QED
    BY <1>5, <2>1
<1> DEFINE a == list[k + 1]
<1>8. /\ a \in PeerAttribute /\ k + 1 \in 1..Len(list)
      /\ TypeCode = a.code /\ DataLen \in Nat
      /\ Data = StandardData(a, width)
      /\ Before(p, k + 1) = Before(p, k) + 3 + DataLen
      /\ AttributeFits <=>
           a.code \in 1..7 /\ (k + 1 # Len(list) \/ m.nlri # <<>>)
  BY <1>1, <1>3, <1>7, AttributeSeen
<1>9. list \in Seq(PeerAttribute) /\ DOMAIN list = 1..Len(list)
  BY UpdateParts, LenProperties
<1>10. F(k + 1) = IF StandardData(a, width) = <<>> THEN F(k)
                  ELSE Append(F(k), RecordOf(a, width))
  BY <1>7, <1>9, MeaningsGrow
<1>11. AttributesTaken(m, width, mine, k, path_attributes)
  BY <1>3
<1>12. /\ \A j \in 1..k : list[j].code \in 1..7
       /\ mine = width => path_attributes = F(k)
  BY <1>11 DEF AttributesTaken
<1>13. \A codes : a.code \in codes => CodeIn(m, codes)
  BY <1>8, <1>9 DEF CodeIn
<1>14. CASE ~AttributeFits /\ pc' = "error"
  <2>1. CASE a.code \notin 1..7
    <3>1. a.code \in Nat
      BY <1>8, AttributeKinds, OctetValue
    <3>2. CodeIn(m, Nat \ 1..7)
      BY <1>13, <2>1, <3>1
    <3>3. CanRefuse(m)
      BY <3>2 DEF CanRefuse
    <3> QED
      BY <1>14, <3>3 DEF Decoding
  <2>2. CASE m.nlri = <<>>
    <3>1. list # <<>>
      BY <1>7, <1>9, EmptySeq
    <3>2. CanRefuse(m)
      BY <2>2, <3>1 DEF CanRefuse
    <3> QED
      BY <1>14, <3>2 DEF Decoding
  <2> QED
    BY <1>8, <1>14, <2>1, <2>2
<1>15. CASE /\ AttributeFits /\ Data # <<>> /\ PAdataPanics(TypeCode, Data, mine)
            /\ pc' = "panic"
  <2>1. a.code = 5 \/ (a.code \in {2, 7} /\ mine # width)
    <3>1. a.code \in 1..7 /\ StandardData(a, width) # <<>>
          /\ PAdataPanics(a.code, StandardData(a, width), mine)
      BY <1>8, <1>15
    <3> HIDE DEF a
    <3> QED
      BY <1>8, <3>1, ValueRead
  <2>2. CodeIn(m, {5}) \/ (CodeIn(m, {2, 7}) /\ mine # width)
    BY <1>13, <2>1
  <2>3. CanPanic(m, width, mine)
    BY <2>2 DEF CanPanic
  <2> QED
    BY <1>15, <2>3 DEF Decoding
<1>16. CASE step
  <2>1. a.code \in 1..7 /\ (k + 1 # Len(list) \/ m.nlri # <<>>)
    BY <1>8, <1>16
  <2>2. \A j \in 1..(k + 1) : list[j].code \in 1..7
    <3>1. \A j \in 1..(k + 1) : j \in 1..k \/ j = k + 1
      BY <1>7
    <3> QED
      BY <1>12, <2>1, <3>1
  <2>3. mine = width => path_attributes' = F(k + 1)
    <3> SUFFICES ASSUME mine = width PROVE path_attributes' = F(k + 1)
      OBVIOUS
    <3>1. path_attributes = F(k)
      BY <1>12
    <3>2. CASE StandardData(a, width) = <<>>
      <4>1. path_attributes' = path_attributes
        BY <1>8, <1>16, <3>2
      <4> QED
        BY <1>10, <3>1, <3>2, <4>1
    <3>3. CASE StandardData(a, width) # <<>>
      <4>1. ~PAdataPanics(a.code, StandardData(a, width), mine)
        BY <1>8, <1>16, <3>3
      <4>2. a.code # 5
        <5>1. a.code = 5 => PAdataPanics(a.code, StandardData(a, width), mine)
          <6>1. a.code = 5 => a.code # 1 /\ a.code # 2 /\ a.code \notin {3, 4}
                                /\ a.code # 6 /\ a.code # 7
            OBVIOUS
          <6> QED
            BY <6>1, Zenon DEF PAdataPanics
        <5> QED
          BY <4>1, <5>1
      <4>3. PAdata(a.code, StandardData(a, width), mine) = ValueOf(a, width)
        <5> HIDE DEF a
        <5> QED
          BY <1>8, <2>1, <3>3, <4>2, ValueRead
      <4>4. path_attributes' =
              Append(path_attributes,
                     [code |-> a.code,
                      data |-> PAdata(a.code, StandardData(a, width), mine)])
        BY <1>8, <1>16, <3>3
      <4>5. path_attributes' = Append(F(k), RecordOf(a, width))
        BY <3>1, <4>3, <4>4 DEF RecordOf
      <4> QED
        BY <1>10, <3>3, <4>5
    <3> QED
      BY <3>2, <3>3
  <2>4. AttributesTaken(m, width, mine, k + 1, path_attributes')
    BY <2>1, <2>2, <2>3 DEF AttributesTaken
  <2>5. pa_idx' = Before(p, k + 1) /\ current_idx' = 23 + w + Before(p, k + 1)
    <3> DEFINE u == Before(p, k)
               v == Before(p, k + 1)
    <3>1. /\ pa_idx' = u + 3 + DataLen /\ current_idx' = 23 + w + u + 3 + DataLen
          /\ v = u + 3 + DataLen /\ u \in Nat /\ w \in Nat /\ DataLen \in Nat
      BY <1>3, <1>5, <1>6, <1>8, <1>16
    <3> HIDE DEF u, v, w
    <3>2. pa_idx' = v /\ current_idx' = 23 + w + v
      BY <3>1
    <3> QED
      BY <3>2 DEF v
  <2>6. \E j \in 0..Len(list) : /\ pa_idx' = Before(p, j)
                                /\ current_idx' = 23 + w + Before(p, j)
                                /\ AttributesTaken(m, width, mine, j, path_attributes')
    BY <1>7, <2>4, <2>5
  <2>7. pc' = "attributes" /\ withdrawn_routes' = withdrawn_routes
    BY <1>2, <1>16
  <2> HIDE DEF step
  <2> QED
    BY <1>4, <2>6, <2>7 DEF Decoding
<1> QED
  BY <1>2, <1>14, <1>15, <1>16

\* All attributes are read.
LEMMA AttributesDone ==
  ASSUME NEW m \in PeerUpdate, NEW width \in {2, 4}, NEW mine \in {2, 4},
         DecodingAt(m, width, mine), AttributesRead
  PROVE  /\ WithdrawnRead(m, Turns(m), withdrawn_routes)
         /\ current_idx =
              23 + Len(WithdrawnBytes(m)) + Len(AttributesBytes(m, width))
         /\ mine = width => path_attributes = Meaning(m.attributes, width)
         /\ ~CodeIn(m, Nat \ 1..7)
<1> DEFINE w == Len(WithdrawnBytes(m))
           a == Len(AttributesBytes(m, width))
           list == m.attributes
           p == AttributePieces(list, width)
<1>1. tsbuf \in Seq(Nat) /\ UpdateAt(tsbuf, m, width) /\ Decoding(m, width, mine)
  BY DEF DecodingAt
<1>2. pc = "attributes" /\ pa_idx >= total_path_attribute_len
  BY DEF AttributesRead
<1>3. PICK k \in 0..Len(list) :
        /\ pa_idx = Before(p, k) /\ current_idx = 23 + w + Before(p, k)
        /\ AttributesTaken(m, width, mine, k, path_attributes)
  BY <1>1, <1>2 DEF Decoding
<1>4. WithdrawnRead(m, Turns(m), withdrawn_routes)
  BY <1>1, <1>2 DEF Decoding
<1>5. /\ Len(list) \in Nat /\ Before(p, k) \in Nat
      /\ Before(p, k) < a <=> k # Len(list)
      /\ k = Len(list) => Before(p, k) = a
  BY AttributesLeft
<1>6. a \in Nat /\ total_path_attribute_len = a
  BY <1>1, DecoderNumbers
<1> HIDE DEF w, a, p
<1>7. k = Len(list) /\ Before(p, k) = a
  BY <1>2, <1>3, <1>5, <1>6
<1>8. current_idx = 23 + w + a
  BY <1>3, <1>7
<1>9. list \in Seq(PeerAttribute) /\ DOMAIN list = 1..Len(list)
  BY UpdateParts, LenProperties
<1>10. FlattenSeq(SubSeq(Meanings(list, width), 1, Len(list))) = Meaning(list, width)
  BY <1>9, MeaningsGrow
<1>11. AttributesTaken(m, width, mine, Len(list), path_attributes)
  BY <1>3, <1>7
<1>12. /\ \A j \in 1..Len(list) : list[j].code \in 1..7
       /\ mine = width => path_attributes =
            FlattenSeq(SubSeq(Meanings(list, width), 1, Len(list)))
  BY <1>11 DEF AttributesTaken
<1>13. ~CodeIn(m, Nat \ 1..7)
  BY <1>9, <1>12 DEF CodeIn
<1> QED
  BY <1>4, <1>8, <1>10, <1>12, <1>13 DEF w, a

LEMMA DecodeFinish ==
  ASSUME NEW m \in PeerUpdate, NEW width \in {2, 4}, NEW mine \in {2, 4},
         DecodingAt(m, width, mine), FinishWithdrawal
  PROVE  Decoding(m, width, mine)'
<1> DEFINE w == Len(WithdrawnBytes(m))
           a == Len(AttributesBytes(m, width))
<1>1. tsbuf \in Seq(Nat) /\ UpdateAt(tsbuf, m, width)
  BY DEF DecodingAt
<1>2. AttributesRead /\ OnlyWithdraws /\ Extracted(<<>>)
  BY DEF FinishWithdrawal
<1>3. /\ WithdrawnRead(m, Turns(m), withdrawn_routes)
      /\ mine = width => path_attributes = Meaning(m.attributes, width)
      /\ ~CodeIn(m, Nat \ 1..7)
  BY <1>2, AttributesDone
<1>4. /\ withdrawn_route_len = w /\ total_path_attribute_len = a
      /\ message_len <= MaxMessageLen
  BY <1>1, DecoderNumbers
<1>5. /\ a = 0 <=> Len(m.attributes) = 0
      /\ Len(m.attributes) = 0 <=> m.attributes = <<>>
  BY AttributesLeft
<1> HIDE DEF w, a
<1>6. w >= 5 /\ m.attributes = <<>>
  BY <1>2, <1>4, <1>5 DEF OnlyWithdraws, route_and_len_size
<1>7. m.nlri = <<>>
  BY <1>6, UpdateParts
<1>8. /\ pc' = "ok" /\ nlri' = <<>> /\ withdrawn_routes' = withdrawn_routes
      /\ path_attributes' = path_attributes
  BY <1>2, <1>4 DEF Extracted
<1>9. ~CanRefuse(m)
  BY <1>3, <1>6 DEF CanRefuse, w
<1>10. nlri' = FirstNlri(m)
  BY <1>7, <1>8 DEF FirstNlri
<1> QED
  BY <1>3, <1>8, <1>9, <1>10 DEF Decoding

LEMMA DecodeNlri ==
  ASSUME NEW m \in PeerUpdate, NEW width \in {2, 4}, NEW mine \in {2, 4},
         DecodingAt(m, width, mine), ExtractNlri
  PROVE  Decoding(m, width, mine)'
<1> DEFINE w == Len(WithdrawnBytes(m))
           a == Len(AttributesBytes(m, width))
           n == Len(NlriBytes(m))
           list == m.nlri
           p == PrefixPieces(list)
           first == list[1]
           Ends == pc' = "error"
           Panicked == ~PrefixFits(tsbuf, current_idx) /\ pc' = "panic"
           Taken == PrefixFits(tsbuf, current_idx)
                      /\ Extracted(PrefixAt(tsbuf, current_idx))
<1>1. tsbuf \in Seq(Nat) /\ UpdateAt(tsbuf, m, width)
  BY DEF DecodingAt
<1>2. /\ AttributesRead /\ ~OnlyWithdraws
      /\ \/ (current_idx = message_len \/ ~Has(tsbuf, current_idx + 1)) /\ Ends
         \/ current_idx # message_len /\ (Panicked \/ Taken)
  BY DEF ExtractNlri, Return
<1>3. /\ WithdrawnRead(m, Turns(m), withdrawn_routes)
      /\ current_idx = 23 + w + a
      /\ mine = width => path_attributes = Meaning(m.attributes, width)
      /\ ~CodeIn(m, Nat \ 1..7)
  BY <1>2, AttributesDone
<1>4. /\ w \in Nat /\ a \in Nat /\ n \in Nat
      /\ message_len = 23 + w + a + n /\ message_len <= MaxMessageLen
      /\ withdrawn_route_len = w /\ total_path_attribute_len = a
  BY <1>1, DecoderNumbers
<1>5. /\ a = 0 <=> Len(m.attributes) = 0
      /\ Len(m.attributes) = 0 <=> m.attributes = <<>>
  BY AttributesLeft
<1>6. list \in Seq(PeerPrefix)
  BY UpdateParts
<1>7. n = 0 <=> list = <<>>
  BY <1>6, PrefixesLeft DEF NlriBytes
<1> HIDE DEF list
<1>8. current_idx = message_len <=> list = <<>>
  <2> HIDE DEF w, a, n
  <2> QED
    BY <1>3, <1>4, <1>7
<1>9. ASSUME list # <<>>
      PROVE  /\ first \in PeerPrefix /\ Has(tsbuf, current_idx + 1)
             /\ first.len = 0 => PrefixAt(tsbuf, current_idx) = <<>>
             /\ first.len # 0 => /\ PrefixFits(tsbuf, current_idx)
                                 /\ PrefixAt(tsbuf, current_idx) = <<first>>
  <2>1. /\ p \in Seq(Seq(Nat)) /\ Len(p) = Len(list) /\ Len(list) \in Nat
        /\ \A k \in 1..Len(list) :
             list[k] \in PeerPrefix /\ p[k] = StandardPrefix(list[k])
    BY <1>6, PrefixesWritten
  <2>2. Len(list) # 0
    BY <1>6, <1>9, EmptySeq
  <2> DEFINE i == 23 + w + a
  <2>3. Lays(tsbuf, i, FlattenSeq(p))
    BY <1>1 DEF UpdateAt, NlriBytes, list
  <2>4. i \in Nat
    BY <1>4
  <2>5. 1 \in 1..Len(p) /\ 1 \in 1..Len(list) /\ 1 - 1 = 0
    BY <2>1, <2>2
  <2> HIDE DEF i, p
  <2>6. Lays(tsbuf, i + Before(p, 1 - 1), p[1])
    BY <1>1, <2>1, <2>3, <2>4, <2>5, LaysPiece
  <2>7. Before(p, 0) = 0
    BY <2>1, FlattenLayout
  <2>8. i + Before(p, 1 - 1) = i
    BY <2>4, <2>5, <2>7
  <2>9. Lays(tsbuf, i, StandardPrefix(first)) /\ first \in PeerPrefix
    BY <2>1, <2>5, <2>6, <2>8
  <2> HIDE DEF first
  <2>10. /\ Has(tsbuf, i + 1)
         /\ first.len = 0 => PrefixAt(tsbuf, i) = <<>>
         /\ first.len # 0 => PrefixFits(tsbuf, i) /\ PrefixAt(tsbuf, i) = <<first>>
    BY <1>1, <2>4, <2>9, PrefixRead
  <2>11. current_idx = i
    BY <1>3 DEF i
  <2> QED
    BY <2>9, <2>10, <2>11
<1>10. CASE (current_idx = message_len \/ ~Has(tsbuf, current_idx + 1)) /\ Ends
  <2>1. list = <<>>
    BY <1>8, <1>9, <1>10
  <2>2. ~(w >= 5 /\ m.attributes = <<>>)
    BY <1>2, <1>4, <1>5 DEF OnlyWithdraws, route_and_len_size
  <2>3. CanRefuse(m)
    BY <2>1, <2>2 DEF CanRefuse, list
  <2> QED
    BY <1>10, <2>3 DEF Decoding
<1>11. CASE current_idx # message_len /\ Panicked
  <2>1. list # <<>> /\ first.len = 0
    BY <1>8, <1>9, <1>11
  <2>2. CanPanic(m, width, mine)
    BY <2>1 DEF CanPanic, list
  <2> QED
    BY <1>11, <2>2 DEF Decoding
<1>12. CASE current_idx # message_len /\ Taken
  <2>1. list # <<>>
    BY <1>8, <1>12
  <2>2. /\ pc' = "ok" /\ nlri' = PrefixAt(tsbuf, current_idx)
        /\ withdrawn_routes' = withdrawn_routes /\ path_attributes' = path_attributes
    BY <1>4, <1>12 DEF Extracted
  <2>3. ~CanRefuse(m)
    BY <1>3, <2>1 DEF CanRefuse, list
  <2>4. nlri' = FirstNlri(m)
    <3>1. FirstNlri(m) = NewNlri(first.len, first.prefix)
      BY <2>1 DEF FirstNlri, list
    <3>2. first \in PeerPrefix
      BY <1>9, <2>1
    <3> HIDE DEF first
    <3>3. first.len \in 0..32 /\ first = [len |-> first.len, prefix |-> first.prefix]
      BY <3>2, PrefixParts
    <3>4. CASE first.len = 0
      <4>1. first.len \notin 1..32
        BY <3>4
      <4> QED
        BY <1>9, <2>1, <2>2, <3>1, <3>4, <4>1 DEF NewNlri, first
    <3>5. CASE first.len # 0
      <4>1. first.len \in 1..32
        BY <3>3, <3>5
      <4>2. NewNlri(first.len, first.prefix) = <<first>>
        BY <3>3, <4>1 DEF NewNlri
      <4> QED
        BY <1>9, <2>1, <2>2, <3>1, <3>5, <4>2 DEF first
    <3> QED
      BY <3>4, <3>5
  <2> QED
    BY <1>3, <2>2, <2>3, <2>4 DEF Decoding
<1> QED
  BY <1>2, <1>10, <1>11, <1>12

\* A step of the decoder keeps what it knows of the Update.
LEMMA DecoderStep ==
  ASSUME NEW m \in PeerUpdate, NEW width \in {2, 4}, NEW mine \in {2, 4},
         DecodingAt(m, width, mine), ExtractStep(mine)
  PROVE  Decoding(m, width, mine)' /\ tsbuf' = tsbuf
<1>1. Decoding(m, width, mine)'
  BY DecodeLengths, DecodeWithdrawn, DecodeAttributesLen, DecodeAttribute,
     DecodeFinish, DecodeNlri DEF ExtractStep
<1>2. tsbuf' = tsbuf
  BY DEF ExtractStep, ExtractLengths, ExtractWithdrawnRoute, WithdrawnRoute,
     ExtractAttributesLen, ExtractAttribute, FinishWithdrawal, ExtractNlri, Extracted,
     Return
<1> QED
  BY <1>1, <1>2

-----------------------------------------------------------------------------
(* The read in progress.  m is its first message, type that of the one     *)
(* processed.                                                              *)

Reading(m, type, width, mine) ==
  /\ pc \in {"next", "lengths", "withdrawn", "attributes"} \cup Results
  /\ tsbuf \in Seq(Nat) /\ SaysFirst(tsbuf, m, width)
  /\ type = "Update" /\ m.type = "Update" => Decoding(m, width, mine)
  /\ type = "Update" /\ m.type # "Update" => pc \in {"next", "lengths", "error"}
  /\ type = "Notification" => /\ pc \in {"next", "ok", "error"}
                              /\ pc = "ok" => ~NotificationError(tsbuf)
                              /\ pc = "error" => NotificationError(tsbuf)
  /\ type = "KeepAlive" => pc \in {"next", "ok"}

ReadInv ==
  /\ pc = "idle" => position = 0 /\ sent = <<>>
  /\ pc # "idle" => /\ session = "up"
                    /\ sent \in Seq(PeerMessage) \ {<<>>}
                    /\ position \in 1..Len(sent)
                    /\ Reading(First, sent[position].type, PeerWidth, OurWidth)
  /\ current_idx \in Nat /\ pa_idx \in Nat

SessionTyped ==
  /\ config \in Configs
  /\ Len(negotiated) <= 1
  /\ session \in {"down", "up", "stranded"}
  /\ sessions \in 0..MaxSessions
  /\ event_loop \in {"runs", "dead"}

LEMMA DecoderEnds ==
  ASSUME NEW mine, ExtractStep(mine)
  PROVE  /\ Extracting /\ tsbuf' = tsbuf
         /\ \/ pc' \in {"withdrawn", "attributes"}
            \/ pc' \in Results /\ current_idx' = current_idx /\ pa_idx' = pa_idx
<1> USE DEF Extracting, Results, extracted, Return
<1>1. CASE ExtractLengths
  BY <1>1 DEF ExtractLengths
<1>2. CASE ExtractWithdrawnRoute
  BY <1>2 DEF ExtractWithdrawnRoute, WithdrawnRoute
<1>3. CASE ExtractAttributesLen
  BY <1>3 DEF ExtractAttributesLen
<1>4. CASE ExtractAttribute(mine)
  BY <1>4 DEF ExtractAttribute
<1>5. CASE FinishWithdrawal
  BY <1>5 DEF FinishWithdrawal, AttributesRead, Extracted
<1>6. CASE ExtractNlri
  BY <1>6 DEF ExtractNlri, AttributesRead, Extracted
<1> QED
  BY <1>1, <1>2, <1>3, <1>4, <1>5, <1>6 DEF ExtractStep

\* Where the decoder is in an Update is a number.
LEMMA DecoderIndexes ==
  ASSUME NEW m \in PeerUpdate, NEW width \in {2, 4}, NEW mine \in {2, 4},
         Decoding(m, width, mine)', pc' \in {"withdrawn", "attributes"}
  PROVE  current_idx' \in Nat /\ pa_idx' \in Nat
<1>1. CASE pc' = "withdrawn"
  <2>1. pa_idx' = 0 /\ \E i \in 0..Turns(m) : current_idx' = 21 + 5 * i
    BY <1>1 DEF Decoding
  <2> QED
    BY <2>1
<1>2. CASE pc' = "attributes"
  <2> DEFINE p == AttributePieces(m.attributes, width)
             w == Len(WithdrawnBytes(m))
  <2>1. PICK k \in 0..Len(m.attributes) :
          pa_idx' = Before(p, k) /\ current_idx' = 23 + w + Before(p, k)
    BY <1>2 DEF Decoding
  <2>2. Before(p, k) \in Nat
    BY AttributesLeft
  <2>3. w \in Nat
    BY UpdateLayout
  <2> HIDE DEF p, w
  <2> QED
    BY <2>1, <2>2, <2>3
<1> QED
  BY <1>1, <1>2

\* What is too short for an Update is refused at once.
LEMMA OtherRefused ==
  ASSUME U16At(tsbuf, 16) < 23, U16At(tsbuf, 16) \in Nat, NEW mine, pc = "lengths",
         ExtractStep(mine)
  PROVE  pc' = "error"
<1>1. ExtractLengths
  BY DEF ExtractStep, ExtractWithdrawnRoute, WithdrawnRoute, ExtractAttributesLen,
         ExtractAttribute, FinishWithdrawal, ExtractNlri, AttributesRead
<1>2. ~(message_len >= 23)
  BY DEF message_len
<1> QED
  BY <1>1, <1>2 DEF ExtractLengths, Return

LEMMA ReadingKept ==
  ASSUME NEW m, NEW type, NEW width, NEW mine, Reading(m, type, width, mine),
         decoderVars' = decoderVars
  PROVE  Reading(m, type, width, mine)'
<1>1. /\ tsbuf' = tsbuf /\ pc' = pc /\ current_idx' = current_idx
      /\ pa_idx' = pa_idx /\ withdrawn_routes' = withdrawn_routes
      /\ path_attributes' = path_attributes /\ nlri' = nlri
  BY DEF decoderVars
<1>2. Decoding(m, width, mine)' <=> Decoding(m, width, mine)
  BY <1>1 DEF Decoding
<1> QED
  BY <1>1, <1>2 DEF Reading

\* A message is taken.
LEMMA ReadingTaken ==
  ASSUME NEW m \in PeerMessage, NEW type, NEW width, NEW mine,
         Reading(m, type, width, mine), tsbuf' = tsbuf,
         \/ type = "Update" /\ StartExtract
         \/ type = "Notification"
              /\ pc' = IF NotificationError(tsbuf) THEN "error" ELSE "ok"
         \/ type = "KeepAlive" /\ pc' = "ok"
  PROVE  Reading(m, type, width, mine)'
<1>1. tsbuf' \in Seq(Nat) /\ SaysFirst(tsbuf', m, width)
  BY DEF Reading
<1>2. CASE type = "Update" /\ StartExtract
  <2>1. /\ pc' = "lengths" /\ current_idx' = 0 /\ pa_idx' = 0
        /\ withdrawn_routes' = <<>> /\ path_attributes' = <<>> /\ nlri' = <<>>
    BY <1>2 DEF StartExtract
  <2>2. Decoding(m, width, mine)'
    BY <2>1 DEF Decoding
  <2>3. type # "Notification" /\ type # "KeepAlive"
    BY <1>2
  <2> QED
    BY <1>1, <2>1, <2>2, <2>3 DEF Reading
<1>3. CASE type = "Notification"
             /\ pc' = IF NotificationError(tsbuf) THEN "error" ELSE "ok"
  <2>1. type # "Update" /\ type # "KeepAlive"
    BY <1>3
  <2>2. NotificationError(tsbuf)' <=> NotificationError(tsbuf)
    BY DEF NotificationError
  <2> QED
    BY <1>1, <1>3, <2>1, <2>2 DEF Reading, Results
<1>4. CASE type = "KeepAlive" /\ pc' = "ok"
  <2>1. type # "Update" /\ type # "Notification"
    BY <1>4
  <2> QED
    BY <1>1, <1>4, <2>1 DEF Reading, Results
<1> QED
  BY <1>2, <1>3, <1>4

\* An Update is extracted.
LEMMA ReadingExtract ==
  ASSUME NEW m \in PeerMessage, NEW type \in {"Update", "Notification", "KeepAlive"},
         NEW width \in {2, 4}, NEW mine \in {2, 4},
         Reading(m, type, width, mine), ExtractStep(mine),
         current_idx \in Nat, pa_idx \in Nat
  PROVE  Reading(m, type, width, mine)' /\ current_idx' \in Nat /\ pa_idx' \in Nat
<1>1. /\ Extracting /\ tsbuf' = tsbuf
      /\ \/ pc' \in {"withdrawn", "attributes"}
         \/ pc' \in Results /\ current_idx' = current_idx /\ pa_idx' = pa_idx
  BY DecoderEnds
<1>2. type = "Update"
  BY <1>1 DEF Reading, Extracting
<1>3. tsbuf \in Seq(Nat) /\ SaysFirst(tsbuf, m, width)
  BY DEF Reading
<1>4. tsbuf' \in Seq(Nat) /\ SaysFirst(tsbuf', m, width)
  BY <1>1, <1>3
<1>5. CASE m.type = "Update"
  <2>1. m \in PeerUpdate /\ UpdateAt(tsbuf, m, width)
    BY <1>3, <1>5 DEF SaysFirst
  <2>2. Decoding(m, width, mine)
    BY <1>2, <1>5 DEF Reading
  <2>3. Decoding(m, width, mine)'
    BY <1>3, <2>1, <2>2, DecoderStep DEF DecodingAt
  <2>4. current_idx' \in Nat /\ pa_idx' \in Nat
    <3>1. CASE pc' \in {"withdrawn", "attributes"}
      BY <2>1, <2>3, <3>1, DecoderIndexes
    <3> QED
      BY <1>1, <3>1
  <2>5. pc' \in {"next", "lengths", "withdrawn", "attributes"} \cup Results
    BY <1>1
  <2> QED
    BY <1>2, <1>4, <1>5, <2>3, <2>4, <2>5 DEF Reading
<1>6. CASE m.type # "Update"
  <2>1. U16At(tsbuf, 16) \in Nat /\ U16At(tsbuf, 16) < 23
    BY <1>3, <1>6, MessageKinds DEF SaysFirst
  <2>2. pc = "lengths"
    BY <1>1, <1>2, <1>6 DEF Reading, Extracting
  <2>3. pc' = "error"
    BY <2>1, <2>2, OtherRefused
  <2> QED
    BY <1>1, <1>2, <1>4, <1>6, <2>3 DEF Reading, Results
<1> QED
  BY <1>5, <1>6

LEMMA Widths == PeerWidth \in {2, 4} /\ OurWidth \in {2, 4}
BY DEF PeerWidth, OurWidth, AsWidth

LEMMA ReadInvInit == MessagesInit => ReadInv
BY DEF MessagesInit, ReadInv

LEMMA ReadInvNext == ReadInv /\ [MessagesNext]_messagesVars => ReadInv'
<1> SUFFICES ASSUME ReadInv, [MessagesNext]_messagesVars PROVE ReadInv'
  OBVIOUS
<1> USE DEF sessionVars, readVars
<1>1. ASSUME readVars' = readVars,
             \/ negotiated' = negotiated /\ opening' = opening /\ session' = session
             \/ pc = "idle"
      PROVE  ReadInv'
  <2>1. /\ decoderVars' = decoderVars /\ sent' = sent /\ position' = position
        /\ pc' = pc /\ current_idx' = current_idx /\ pa_idx' = pa_idx
    BY <1>1 DEF decoderVars
  <2>2. CASE pc = "idle"
    BY <2>1, <2>2 DEF ReadInv
  <2>3. CASE pc # "idle"
    <3>1. negotiated' = negotiated /\ opening' = opening /\ session' = session
      BY <1>1, <2>3
    <3> DEFINE m == First
               type == sent[position].type
               width == PeerWidth
               mine == OurWidth
    <3>2. m' = m /\ type' = type /\ width' = width /\ mine' = mine
      BY <2>1, <3>1 DEF First, PeerWidth, OurWidth
    <3>3. PICK m0, type0, width0, mine0 :
            m0 = m /\ type0 = type /\ width0 = width /\ mine0 = mine
      OBVIOUS
    <3>4. Reading(m, type, width, mine)
      BY <2>3 DEF ReadInv
    <3> HIDE DEF m, type, width, mine
    <3>5. Reading(m0, type0, width0, mine0)'
      BY <2>1, <3>3, <3>4, ReadingKept
    <3>6. Reading(m, type, width, mine)'
      BY <3>2, <3>3, <3>5 DEF Reading, Decoding
    <3> QED
      BY <2>1, <2>3, <3>1, <3>6 DEF ReadInv, m, type, width, mine
  <2> QED
    BY <2>2, <2>3
<1>2. CASE UNCHANGED messagesVars
  BY <1>1, <1>2 DEF messagesVars
<1>3. ASSUME NEW from \in {"Active", "Connect"}, OpenNotSent(from) PROVE ReadInv'
  <2>1. session = "down" /\ readVars' = readVars
    BY <1>3 DEF OpenNotSent
  <2>2. pc = "idle"
    BY <2>1 DEF ReadInv
  <2> QED
    BY <1>1, <2>1, <2>2
<1>4. ASSUME NEW from \in {"Active", "Connect"}, NEW peer \in PeerOpens,
             NEW trailing \in BOOLEAN, ExchangeOpens(from, peer, trailing)
      PROVE  ReadInv'
  <2>1. session = "down" /\ readVars' = readVars
    BY <1>4 DEF ExchangeOpens
  <2>2. pc = "idle"
    BY <2>1 DEF ReadInv
  <2> QED
    BY <1>1, <2>1, <2>2
<1>5. CASE SessionDown
  BY <1>1, <1>5 DEF SessionDown, MayEnd
<1>6. ASSUME NEW route \in Routes, SendUpdate(route) \/ SendUpdatePanics(route)
      PROVE  ReadInv'
  <2>1. readVars' = readVars /\ pc = "idle"
    BY <1>6 DEF SendUpdate, SendUpdatePanics, Sendable
  <2> QED
    BY <1>1, <2>1
\* A read comes in.
<1>7. ASSUME NEW messages \in Reads, PeerSends(messages) PROVE ReadInv'
  <2> DEFINE buf == FlattenSeq([k \in DOMAIN messages |->
                                  StandardMessage(messages[k], PeerWidth)])
             width == PeerWidth
  <2>1. messages \in Seq(PeerMessage) /\ messages # <<>>
    BY MessagesConstants
  <2>2. PICK w \in {2, 4} : w = width
    BY Widths
  <2>3. buf \in Seq(Nat) /\ SaysFirst(buf, messages[1], w)
    <3>1. /\ FlattenSeq([k \in DOMAIN messages |-> StandardMessage(messages[k], w)])
               \in Seq(Nat)
          /\ SaysFirst(FlattenSeq([k \in DOMAIN messages |->
                                     StandardMessage(messages[k], w)]),
                       messages[1], w)
      BY <2>1, ReadBytes
    <3> QED
      BY <2>2, <3>1
  <2>4. /\ tsbuf' = buf /\ sent' = messages /\ position' = 1 /\ pc' = "next"
        /\ session' = session /\ session = "up" /\ opening' = opening
        /\ negotiated' = negotiated
        /\ current_idx' = current_idx /\ pa_idx' = pa_idx
    BY <1>7 DEF PeerSends, Each
  <2>5. PeerWidth' = w /\ First' = messages[1]
    BY <2>2, <2>4 DEF PeerWidth, First
  <2> HIDE DEF buf, width
  <2>6. ASSUME NEW type, NEW mine PROVE Reading(messages[1], type, w, mine)'
    <3>1. Decoding(messages[1], w, mine)'
      BY <2>4 DEF Decoding
    <3> QED
      BY <2>3, <2>4, <3>1 DEF Reading
  <2>7. Reading(First, sent[position].type, PeerWidth, OurWidth)'
    <3>1. PICK t, o : t = sent[position].type' /\ o = OurWidth'
      OBVIOUS
    <3>2. Reading(messages[1], t, w, o)'
      BY <2>6
    <3> QED
      BY <2>5, <3>1, <3>2 DEF Reading, Decoding
  <2>8. position' \in 1..Len(sent')
    <3>1. Len(messages) \in Nat /\ Len(messages) # 0
      BY <2>1, EmptySeq, LenProperties
    <3> QED
      BY <2>4, <3>1
  <2> QED
    BY <2>1, <2>4, <2>7, <2>8 DEF ReadInv
\* A message of the read is taken, or extracted.
<1>8. ASSUME pc # "idle", pc' # "idle",
             sessionVars' = sessionVars, sent' = sent, position' = position,
             \A m \in PeerMessage, type \in {"Update", "Notification", "KeepAlive"},
                width \in {2, 4}, mine \in {2, 4} :
               Reading(m, type, width, mine) /\ type = sent[position].type
                 /\ mine = OurWidth => Reading(m, type, width, mine)',
             current_idx' \in Nat, pa_idx' \in Nat
      PROVE  ReadInv'
  <2>1. /\ sent \in Seq(PeerMessage) /\ sent # <<>> /\ position \in 1..Len(sent)
        /\ Reading(First, sent[position].type, PeerWidth, OurWidth)
        /\ session = "up"
    BY <1>8 DEF ReadInv
  <2>2. First \in PeerMessage /\ sent[position] \in PeerMessage
    <3>1. Len(sent) \in Nat /\ Len(sent) # 0
      BY <2>1, EmptySeq, LenProperties
    <3>2. 1 \in 1..Len(sent)
      BY <3>1
    <3> QED
      BY <2>1, <3>2, ElementOfSeq DEF First
  <2>3. PICK m \in PeerMessage : m = First
    BY <2>2
  <2>4. PICK type \in {"Update", "Notification", "KeepAlive"} :
          type = sent[position].type
    BY <2>2, MessageKinds
  <2>5. PICK width \in {2, 4}, mine \in {2, 4} : width = PeerWidth /\ mine = OurWidth
    BY Widths
  <2>6. Reading(m, type, width, mine)'
    BY <1>8, <2>1, <2>3, <2>4, <2>5
  <2>7. First' = m /\ sent[position].type' = type /\ PeerWidth' = width
        /\ OurWidth' = mine
    BY <1>8, <2>3, <2>4, <2>5 DEF First, PeerWidth, OurWidth
  <2>8. Reading(First, sent[position].type, PeerWidth, OurWidth)'
    BY <2>6, <2>7 DEF Reading, Decoding
  <2> QED
    BY <1>8, <2>1, <2>8 DEF ReadInv
<1>9. CASE TakeUpdate \/ TakeNotification \/ TakeKeepAlive
  <2>1. /\ pc = "next" /\ pc' # "idle" /\ sessionVars' = sessionVars
        /\ sent' = sent /\ position' = position /\ tsbuf' = tsbuf
        /\ \/ sent[position].type = "Update" /\ StartExtract
           \/ sent[position].type = "Notification"
                /\ pc' = IF NotificationError(tsbuf) THEN "error" ELSE "ok"
           \/ sent[position].type = "KeepAlive" /\ pc' = "ok"
        /\ \/ current_idx' = current_idx /\ pa_idx' = pa_idx
           \/ current_idx' = 0 /\ pa_idx' = 0
    BY <1>9 DEF TakeUpdate, TakeNotification, TakeKeepAlive, MessageFound,
                StartExtract
  <2>2. current_idx' \in Nat /\ pa_idx' \in Nat
    BY <2>1 DEF ReadInv
  <2>3. ASSUME NEW m \in PeerMessage, NEW width, NEW mine, NEW type,
               Reading(m, type, width, mine), type = sent[position].type
        PROVE  Reading(m, type, width, mine)'
    BY <2>1, <2>3, ReadingTaken
  <2> QED
    BY <1>8, <2>1, <2>2, <2>3
<1>10. CASE Extract
  <2>1. /\ ExtractStep(OurWidth) /\ Extracting /\ sessionVars' = sessionVars
        /\ sent' = sent /\ position' = position
    BY <1>10 DEF Extract
  <2>2. pc # "idle" /\ pc' # "idle"
    BY <2>1, DecoderEnds DEF Extracting, Results
  <2>3. current_idx \in Nat /\ pa_idx \in Nat
    BY DEF ReadInv
  <2>4. ASSUME NEW m \in PeerMessage,
               NEW type \in {"Update", "Notification", "KeepAlive"},
               NEW width \in {2, 4}, NEW mine \in {2, 4},
               Reading(m, type, width, mine), mine = OurWidth
        PROVE  /\ Reading(m, type, width, mine)'
               /\ current_idx' \in Nat /\ pa_idx' \in Nat
    BY <2>1, <2>3, <2>4, ReadingExtract
  <2>5. current_idx' \in Nat /\ pa_idx' \in Nat
    <3>1. /\ sent \in Seq(PeerMessage) /\ sent # <<>> /\ position \in 1..Len(sent)
          /\ Reading(First, sent[position].type, PeerWidth, OurWidth)
      BY <2>2 DEF ReadInv
    <3>2. First \in PeerMessage /\ sent[position] \in PeerMessage
      <4>1. Len(sent) \in Nat /\ Len(sent) # 0
        BY <3>1, EmptySeq, LenProperties
      <4>2. 1 \in 1..Len(sent)
        BY <4>1
      <4> QED
        BY <3>1, <4>2, ElementOfSeq DEF First
    <3>3. sent[position].type \in {"Update", "Notification", "KeepAlive"}
      BY <3>2, MessageKinds
    <3> QED
      BY <2>4, <3>1, <3>2, <3>3, Widths
  <2> QED
    BY <1>8, <2>1, <2>2, <2>4, <2>5
<1>11. CASE NextMessage
  <2>1. /\ pc \in {"ok", "error"} /\ sessionVars' = sessionVars
        /\ current_idx' = 0 /\ pa_idx' = 0
    BY <1>11 DEF NextMessage
  <2>2. CASE position + 2 <= Len(sent)
    <3>1. position' = position + 2 /\ pc' = "next" /\ tsbuf' = tsbuf /\ sent' = sent
      BY <1>11, <2>2 DEF NextMessage
    <3>2. /\ sent \in Seq(PeerMessage) \ {<<>>} /\ position \in 1..Len(sent)
          /\ Reading(First, sent[position].type, PeerWidth, OurWidth)
          /\ session = "up"
      BY <2>1 DEF ReadInv
    <3>3. position' \in 1..Len(sent')
      <4>1. Len(sent) \in Nat
        BY <3>2, LenProperties
      <4> QED
        BY <2>2, <3>1, <3>2, <4>1
    <3>4. First' = First /\ PeerWidth' = PeerWidth /\ OurWidth' = OurWidth
      BY <2>1, <3>1 DEF First, PeerWidth, OurWidth
    <3>5. tsbuf \in Seq(Nat) /\ SaysFirst(tsbuf, First, PeerWidth)
      BY <3>2 DEF Reading
    <3>6. SaysFirst(tsbuf', First', PeerWidth')
      BY <3>1, <3>4, <3>5
    <3>7. Reading(First, sent[position].type, PeerWidth, OurWidth)'
      BY <3>1, <3>5, <3>6 DEF Reading, Decoding
    <3> QED
      BY <2>1, <3>1, <3>2, <3>3, <3>7 DEF ReadInv
  <2>3. CASE ~(position + 2 <= Len(sent))
    BY <1>11, <2>1, <2>3 DEF NextMessage, ReadInv
  <2> QED
    BY <2>2, <2>3
<1> QED
  BY <1>2, <1>3, <1>4, <1>5, <1>6, <1>7, <1>9, <1>10, <1>11 DEF MessagesNext

LEMMA SessionTypedNext == SessionTyped /\ [MessagesNext]_messagesVars => SessionTyped'
<1> SUFFICES ASSUME SessionTyped, [MessagesNext]_messagesVars PROVE SessionTyped'
  OBVIOUS
<1>1. event_loop' \in {"runs", "dead"}
  <2>1. event_loop' = event_loop \/ event_loop' = "dead"
    <3>1. CASE \E from \in {"Active", "Connect"} :
                 \/ OpenNotSent(from)
                 \/ \E peer \in PeerOpens, trailing \in BOOLEAN :
                      ExchangeOpens(from, peer, trailing)
      BY <3>1 DEF OpenNotSent, ExchangeOpens
    <3>2. CASE SessionDown \/ \E messages \in Reads : PeerSends(messages)
      BY <3>2 DEF SessionDown, PeerSends
    <3>3. CASE TakeUpdate \/ TakeNotification \/ TakeKeepAlive \/ Extract
                 \/ NextMessage
      BY <3>3 DEF TakeUpdate, TakeNotification, TakeKeepAlive, Extract, NextMessage
    <3>4. CASE \E route \in Routes : SendUpdate(route) \/ SendUpdatePanics(route)
      BY <3>4 DEF SendUpdate, SendUpdatePanics
    <3>5. CASE UNCHANGED messagesVars
      BY <3>5 DEF messagesVars
    <3> QED
      BY <3>1, <3>2, <3>3, <3>4, <3>5 DEF MessagesNext
  <2> QED
    BY <2>1 DEF SessionTyped
<1>2. CASE sessionVars' = sessionVars
  BY <1>1, <1>2 DEF SessionTyped, sessionVars
<1>3. ASSUME NEW from \in {"Active", "Connect"}, OpenNotSent(from)
      PROVE  SessionTyped'
  BY <1>1, <1>3 DEF OpenNotSent, SessionTyped
<1>4. ASSUME NEW from \in {"Active", "Connect"}, NEW peer \in PeerOpens,
             NEW trailing \in BOOLEAN, ExchangeOpens(from, peer, trailing)
      PROVE  SessionTyped'
  <2>1. /\ sessions < MaxSessions /\ sessions' = sessions + 1 /\ config' = config
        /\ session' = "down" \/ session' = "up"
        /\ \/ negotiated' = negotiated
           \/ \E parameters : negotiated' = NegotiatedWith(parameters)
    BY <1>4 DEF ExchangeOpens
  <2>2. Len(negotiated') <= 1
    <3>1. ASSUME NEW parameters PROVE Len(NegotiatedWith(parameters)) <= 1
      <4>1. \A c : Len(<<c>>) <= 1
        OBVIOUS
      <4> QED
        BY <4>1 DEF NegotiatedWith, SessionTyped
    <3> QED
      BY <2>1, <3>1 DEF SessionTyped
  <2>3. sessions' \in 0..MaxSessions
    BY <2>1, MessagesConstants DEF SessionTyped
  <2> QED
    BY <1>1, <2>1, <2>2, <2>3 DEF SessionTyped
<1>5. CASE SessionDown
  BY <1>1, <1>5 DEF SessionDown, SessionTyped
<1> QED
  BY <1>2, <1>3, <1>4, <1>5, SessionSteps

\* What ReadInv says of an Update that is processed.
LEMMA ProcessedUpdate ==
  ASSUME ReadInv, Processed
  PROVE  /\ pc # "idle" /\ First \in PeerMessage
         /\ First.type = "Update" => First \in PeerUpdate
                                       /\ Decoding(First, PeerWidth, OurWidth)
         /\ First.type # "Update" => pc \in {"next", "lengths", "error"}
<1>1. pc # "idle"
  BY DEF ReadInv, Processed
<1>2. /\ sent \in Seq(PeerMessage) \ {<<>>}
      /\ Reading(First, sent[position].type, PeerWidth, OurWidth)
  BY <1>1 DEF ReadInv
<1>3. First \in PeerMessage
  <2>1. Len(sent) \in Nat /\ Len(sent) # 0
    BY <1>2, EmptySeq, LenProperties
  <2>2. 1 \in 1..Len(sent)
    BY <2>1
  <2> QED
    BY <1>2, <2>2, ElementOfSeq DEF First
<1>4. sent[position].type = "Update"
  BY DEF Processed
<1> QED
  BY <1>1, <1>2, <1>3, <1>4, MessageKinds DEF Reading

\* The Update it was sent in is the first message of the read.
LEMMA ReadInvAccepted == ReadInv => AcceptedWasSent
<1> SUFFICES ASSUME ReadInv, Processed, pc = "ok"
             PROVE  \E k \in 1..position :
                      /\ sent[k].type = "Update"
                      /\ Range(nlri) \subseteq Range(sent[k].nlri)
                      /\ OurWidth = PeerWidth =>
                           path_attributes = Meaning(sent[k].attributes, PeerWidth)
  BY DEF AcceptedWasSent
<1>1. /\ First \in PeerMessage /\ First.type = "Update" /\ First \in PeerUpdate
      /\ Decoding(First, PeerWidth, OurWidth)
  BY ProcessedUpdate
<1>2. /\ nlri = FirstNlri(First)
      /\ OurWidth = PeerWidth =>
           path_attributes = Meaning(First.attributes, PeerWidth)
  BY <1>1 DEF Decoding
<1>3. 1 \in 1..position
  <2>1. sent \in Seq(PeerMessage) /\ position \in 1..Len(sent)
    BY ProcessedUpdate DEF ReadInv
  <2>2. Len(sent) \in Nat
    BY <2>1, LenProperties
  <2> QED
    BY <2>1, <2>2
<1>4. PICK m \in PeerUpdate : m = First
  BY <1>1
<1>5. Range(FirstNlri(m)) \subseteq Range(m.nlri)
  <2>1. CASE m.nlri = <<>>
    BY <2>1 DEF FirstNlri, Range
  <2>2. CASE m.nlri # <<>>
    <3> DEFINE n == m.nlri[1]
    <3>1. m.nlri \in Seq(PeerPrefix) /\ 1 \in DOMAIN m.nlri
      <4>1. m.nlri \in Seq(PeerPrefix)
        BY UpdateParts
      <4>2. Len(m.nlri) \in Nat /\ Len(m.nlri) # 0 /\ DOMAIN m.nlri = 1..Len(m.nlri)
        BY <2>2, <4>1, EmptySeq, LenProperties
      <4> QED
        BY <4>1, <4>2
    <3>2. n \in PeerPrefix
      BY <3>1, ElementOfSeq
    <3>3. n = [len |-> n.len, prefix |-> n.prefix]
      BY <3>2, Zenon DEF PeerPrefix
    <3>4. n \in Range(m.nlri)
      BY <3>1 DEF Range
    <3> HIDE DEF n
    <3>5. FirstNlri(m) = <<>> \/ FirstNlri(m) = <<n>>
      BY <2>2, <3>3 DEF FirstNlri, NewNlri, n
    <3> QED
      BY <3>4, <3>5 DEF Range
  <2> QED
    BY <2>1, <2>2
<1>6. Range(nlri) \subseteq Range(First.nlri)
  BY <1>2, <1>4, <1>5
<1> QED
  BY <1>1, <1>2, <1>3, <1>6 DEF First

LEMMA ReadInvWithdrawn == ReadInv => WithdrawnByFives
<1> SUFFICES ASSUME ReadInv, Processed, pc = "ok"
             PROVE  LET list == First.withdrawn IN
                    /\ HostRoutes(list) => withdrawn_routes = list
                    /\ WithdrawnOctets >= 5 /\ list[1].len > 0 =>
                         withdrawn_routes[1] = list[1]
                    /\ WithdrawnOctets < 5 => withdrawn_routes = <<>>
  BY DEF WithdrawnByFives
<1>1. First \in PeerUpdate /\ Decoding(First, PeerWidth, OurWidth)
  BY ProcessedUpdate
<1>2. WithdrawnRead(First, Turns(First), withdrawn_routes)
  BY <1>1 DEF Decoding
<1>3. PICK m \in PeerUpdate : m = First
  BY <1>1
<1>3a. PICK routes : routes = withdrawn_routes
  OBVIOUS
<1>4. WithdrawnRead(m, Turns(m), routes)
  BY <1>2, <1>3, <1>3a
<1>5. LET octets == Len(Each(StandardPrefix, m.withdrawn)) IN
      /\ HostRoutes(m.withdrawn) => routes = m.withdrawn
      /\ octets >= 5 /\ m.withdrawn[1].len > 0 => routes[1] = m.withdrawn[1]
      /\ octets < 5 => routes = <<>>
  BY <1>4, TurnsDone
<1>6. Len(Each(StandardPrefix, m.withdrawn)) = WithdrawnOctets
  BY <1>3 DEF WithdrawnOctets, Each
<1> QED
  BY <1>3, <1>3a, <1>5, <1>6

\* HasAttribute, of the Update m.
LEMMA AttributeIn ==
  ASSUME NEW codes
  PROVE  HasAttribute(codes) <=> CodeIn(First, codes)
BY DEF HasAttribute, CodeIn

LEMMA ReadInvPanics == ReadInv => PanicsOnly
<1> SUFFICES ASSUME ReadInv, pc = "panic"
             PROVE  /\ First.type = "Update"
                    /\ \/ HasAttribute({5})
                       \/ Len(First.withdrawn) > 1 /\ ~HostRoutes(First.withdrawn)
                       \/ First.nlri # <<>> /\ First.nlri[1].len = 0
                       \/ HasAttribute({2, 7}) /\ OurWidth # PeerWidth
  BY DEF PanicsOnly
<1>1. /\ sent \in Seq(PeerMessage) \ {<<>>} /\ position \in 1..Len(sent)
      /\ Reading(First, sent[position].type, PeerWidth, OurWidth)
  BY DEF ReadInv
<1>2. sent[position] \in PeerMessage /\ position # 0
  <2>1. sent \in Seq(PeerMessage)
    BY <1>1
  <2> QED
    BY <1>1, <2>1, ElementOfSeq
<1>3. Processed
  BY <1>1, <1>2, MessageKinds DEF Reading, Processed
<1>4. First.type = "Update" /\ Decoding(First, PeerWidth, OurWidth)
  BY <1>3, ProcessedUpdate
<1>5. CanPanic(First, PeerWidth, OurWidth)
  BY <1>4 DEF Decoding
<1> QED
  BY <1>4, <1>5, AttributeIn DEF CanPanic

LEMMA ReadInvRefused == ReadInv => RefusedOnly
<1> SUFFICES ASSUME ReadInv, pc = "error", ~ReadAsAnother
             PROVE  Processed /\ Refusable
  BY DEF RefusedOnly
<1> DEFINE type == sent[position].type
<1>1. /\ sent \in Seq(PeerMessage) /\ position \in 1..Len(sent)
      /\ Reading(First, type, PeerWidth, OurWidth)
  BY DEF ReadInv
<1>2. sent[position] \in PeerMessage /\ position # 0
  <2>1. sent \in Seq(PeerMessage)
    BY <1>1
  <2> QED
    BY <1>1, <2>1, ElementOfSeq
<1>3. First.type = type
  BY DEF ReadAsAnother
<1>4. type = "Update"
  <2>1. type # "KeepAlive"
    BY <1>1 DEF Reading
  <2>2. type # "Notification"
    <3> SUFFICES ASSUME type = "Notification" PROVE FALSE
      OBVIOUS
    <3>1. NotificationError(tsbuf)
      BY <1>1 DEF Reading
    <3>2. SaysFirst(tsbuf, First, PeerWidth)
      BY <1>1 DEF Reading
    <3>3. ~NotificationError(tsbuf)
      BY <1>3, <3>2 DEF SaysFirst, NotificationError
    <3> QED
      BY <3>1, <3>3
  <2> QED
    BY <1>2, <2>1, <2>2, MessageKinds
<1>5. Processed
  BY <1>2, <1>4 DEF Processed
<1>6. CanRefuse(First)
  BY <1>1, <1>3, <1>4 DEF Reading, Decoding
<1>7. WithdrawnOctets = Len(WithdrawnBytes(First))
  BY DEF WithdrawnOctets, WithdrawnBytes, PrefixPieces, Each
<1> QED
  BY <1>5, <1>6, <1>7, AttributeIn DEF Refusable, CanRefuse

LEMMA ReadInvHolds == MessagesSpec => []ReadInv
BY ReadInvInit, ReadInvNext, PTL DEF MessagesSpec

\* A message is processed only while there is a read, at a place in it, and a read is
\* processed only in a session that is up; the indexes of the decoder are numbers
\* whatever the bytes say (process_neighbor_message, extract_update_message).
THEOREM MessagesTyped == MessagesSpec => []MessagesTypeOK
<1>1. MessagesInit => SessionTyped
  BY MessagesConstants DEF MessagesInit, SessionTyped
<1>2. ReadInv /\ SessionTyped => MessagesTypeOK
  <2> SUFFICES ASSUME ReadInv, SessionTyped PROVE MessagesTypeOK
    OBVIOUS
  <2>1. CASE pc = "idle"
    <3>1. position = 0 /\ sent = <<>> /\ Len(sent) = 0
      BY <2>1 DEF ReadInv
    <3>2. position \in 0..Len(sent)
      BY <3>1
    <3> QED
      BY <2>1, <3>1, <3>2 DEF ReadInv, SessionTyped, MessagesTypeOK
  <2>2. CASE pc # "idle"
    <3>1. /\ session = "up" /\ sent \in Seq(PeerMessage) /\ position \in 1..Len(sent)
          /\ pc \in {"next", "lengths", "withdrawn", "attributes"} \cup Results
      BY <2>2 DEF ReadInv, Reading
    <3>2. Len(sent) \in Nat
      BY <3>1, LenProperties
    <3>3. position \in 0..Len(sent) /\ position # 0
      BY <3>1, <3>2
    <3> QED
      BY <2>2, <3>1, <3>3 DEF ReadInv, SessionTyped, MessagesTypeOK
  <2> QED
    BY <2>1, <2>2
<1> QED
  BY <1>1, <1>2, SessionTypedNext, ReadInvHolds, PTL DEF MessagesSpec

\* The NLRI of an Update that is accepted is one the peer sent in it, and its attributes
\* mean what the peer wrote when both sides use AS numbers of one width
\* (extract_update_message): for every read of a conforming peer.
THEOREM AcceptedAreSent == MessagesSpec => []AcceptedWasSent
BY ReadInvAccepted, ReadInvHolds, PTL

\* Withdrawn routes are read five octets at a time (extract_withdrawn_routes): host
\* routes are all found, of others that are accepted the first, and less than five
\* octets are not seen.
THEOREM ReadByFives == MessagesSpec => []WithdrawnByFives
BY ReadInvWithdrawn, ReadInvHolds, PTL

\* Nothing a conforming peer writes ends the neighbor loop but LOCAL_PREF, withdrawn
\* routes that are not all host routes, a default route and AS numbers of a width that
\* was not agreed on (PathAttribute::new, extract_nlri_from_update_message).
THEOREM PanicsKnown == MessagesSpec => []PanicsOnly
BY ReadInvPanics, ReadInvHolds, PTL

\* Of a conforming peer's messages no others are refused than those read as another,
\* and Updates with an attribute above 7 or without NLRI that do not only withdraw
\* (extract_update_message, extract_notification_message).
THEOREM RefusalsKnown == MessagesSpec => []RefusedOnly
BY ReadInvRefused, ReadInvHolds, PTL
=============================================================================
