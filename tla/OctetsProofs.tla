----------------------------- MODULE OctetsProofs ------------------------------
(***************************************************************************)
(* Theorems about Octets, for every mask length: which prefixes are read   *)
(* and written as the standard says.  And what joining sequences of octets *)
(* makes (FlattenSeq), for any number of them: the messages of a read, the *)
(* parts of a message.                                                     *)
(***************************************************************************)
EXTENDS Octets, SequencesExt, SequenceTheorems, WellFoundedInduction, TLAPS

-----------------------------------------------------------------------------
(* Sequences joined.  The induction is on sets of numbers, by the least    *)
(* number that is not in the set.                                          *)

\* A set of numbers has a least one.
LEMMA LeastNat ==
  ASSUME NEW T, T \subseteq Nat, T # {}
  PROVE  \E x \in T : \A y \in T : x <= y
<1>1. PICK x \in T : \A y \in T : ~ (<<y, x>> \in OpToRel(<, Nat))
  BY NatLessThanWellFounded, WFMin
<1>2. \A y \in T : ~ (y < x)
  BY <1>1 DEF OpToRel
<1> QED
  BY <1>2

\* Induction, on a set of numbers.
LEMMA InductionOnNat ==
  ASSUME NEW T, 0 \in T, \A n \in Nat : n \in T => n + 1 \in T
  PROVE  \A n \in Nat : n \in T
<1> SUFFICES ASSUME Nat \ T # {} PROVE FALSE
  OBVIOUS
<1>1. PICK x \in Nat \ T : \A y \in Nat \ T : x <= y
  BY LeastNat
<1>2. x # 0 /\ x - 1 \in Nat
  OBVIOUS
<1>3. x - 1 \in T
  BY <1>1, <1>2
<1> QED
  BY <1>2, <1>3

\* The function FlattenSeq is computed with exists.
Flattens(f, seqs, n) ==
  f = [i \in 1..n |-> IF i = 1 THEN seqs[i] ELSE f[i - 1] \o seqs[i]]

LEMMA FlattensAt ==
  ASSUME NEW f, NEW seqs, NEW n \in Nat, Flattens(f, seqs, n)
  PROVE  /\ n > 0 => f[1] = seqs[1]
         /\ \A m \in Nat : m > 0 /\ m < n => f[m + 1] = f[m] \o seqs[m + 1]
<1>1. ASSUME NEW i \in 1..n
      PROVE  f[i] = IF i = 1 THEN seqs[i] ELSE f[i - 1] \o seqs[i]
  <2> DEFINE Value(j) == IF j = 1 THEN seqs[j] ELSE f[j - 1] \o seqs[j]
  <2>1. f = [j \in 1..n |-> Value(j)]
    BY DEF Flattens
  <2> HIDE DEF Value
  <2>2. f[i] = Value(i)
    BY <2>1
  <2> QED
    BY <2>2 DEF Value
<1>2. ASSUME NEW m \in Nat, m > 0, m < n
      PROVE  f[m + 1] = f[m] \o seqs[m + 1]
  <2>1. m + 1 \in 1..n /\ m + 1 # 1 /\ (m + 1) - 1 = m
    BY <1>2
  <2> QED
    BY <1>1, <2>1
<1>3. ASSUME n > 0 PROVE f[1] = seqs[1]
  <2>1. 1 \in 1..n
    BY <1>3
  <2> QED
    BY <1>1, <2>1
<1> QED
  BY <1>2, <1>3

LEMMA FlattensExists ==
  ASSUME NEW seqs, NEW n \in Nat
  PROVE  \E f : Flattens(f, seqs, n)
<1> DEFINE Good == {m \in Nat : \E f : Flattens(f, seqs, m)}
<1>1. 0 \in Good
  <2>1. Flattens([i \in 1..0 |-> seqs[i]], seqs, 0)
    BY DEF Flattens
  <2> QED
    BY <2>1
<1>2. ASSUME NEW m \in Nat, m \in Good PROVE m + 1 \in Good
  <2>1. PICK f : Flattens(f, seqs, m)
    BY <1>2
  <2> DEFINE g == [i \in 1..(m + 1) |->
                     IF i = 1 THEN seqs[1]
                     ELSE IF i = m + 1 THEN f[m] \o seqs[m + 1] ELSE f[i]]
  <2>2. \A i \in 1..m : g[i] = f[i]
    BY <2>1 DEF Flattens
  <2>3. ASSUME NEW i \in 1..(m + 1)
        PROVE  g[i] = IF i = 1 THEN seqs[i] ELSE g[i - 1] \o seqs[i]
    <3>1. CASE i = 1
      BY <3>1
    <3>2. CASE i # 1 /\ i = m + 1
      <4>1. i - 1 = m /\ m \in 1..m
        BY <3>2
      <4> QED
        BY <2>2, <3>2, <4>1
    <3>3. CASE i # 1 /\ i # m + 1
      <4>1. i \in 1..m /\ i - 1 \in 1..m
        BY <3>3
      <4>2. g[i] = f[i] /\ g[i - 1] = f[i - 1]
        BY <2>2, <4>1
      <4>3. f[i] = f[i - 1] \o seqs[i]
        BY <2>1, <3>3, <4>1 DEF Flattens
      <4> QED
        BY <3>3, <4>2, <4>3
    <3> QED
      BY <3>1, <3>2, <3>3
  <2> HIDE DEF g
  <2>4. g = [i \in 1..(m + 1) |-> g[i]]
    BY DEF g
  <2>5. Flattens(g, seqs, m + 1)
    BY <2>3, <2>4 DEF Flattens
  <2> QED
    BY <2>5
<1> HIDE DEF Good
<1>3. n \in Good
  BY <1>1, <1>2, InductionOnNat
<1> QED
  BY <1>3 DEF Good

LEMMA FlattenDef ==
  ASSUME NEW seqs, Len(seqs) \in Nat \ {0}
  PROVE  \E f : Flattens(f, seqs, Len(seqs)) /\ FlattenSeq(seqs) = f[Len(seqs)]
<1> DEFINE fl == CHOOSE f : Flattens(f, seqs, Len(seqs))
<1>1. Flattens(fl, seqs, Len(seqs))
  BY FlattensExists, Zenon
<1>2. FlattenSeq(seqs) = fl[Len(seqs)]
  BY DEF FlattenSeq, Flattens
<1> HIDE DEF fl
<1> QED
  BY <1>1, <1>2

LEMMA FlattenEmpty == FlattenSeq(<<>>) = <<>>
BY DEF FlattenSeq

\* One sequence more is one sequence behind.
LEMMA FlattenAppend ==
  ASSUME NEW S, NEW seqs \in Seq(Seq(S)), NEW s \in Seq(S)
  PROVE  FlattenSeq(Append(seqs, s)) = FlattenSeq(seqs) \o s
<1> DEFINE n == Len(seqs)
           more == Append(seqs, s)
<1>1. /\ Len(more) = n + 1 /\ n \in Nat /\ more[n + 1] = s
      /\ \A i \in 1..n : more[i] = seqs[i]
  OBVIOUS
<1> HIDE DEF n, more
<1>2. PICK g : Flattens(g, more, n + 1) /\ FlattenSeq(more) = g[n + 1]
  <2>1. Len(more) \in Nat \ {0}
    BY <1>1
  <2> QED
    BY <1>1, <2>1, FlattenDef
<1>3. CASE n = 0
  <2>1. g[1] = more[1]
    <3>1. n + 1 \in Nat /\ n + 1 > 0
      BY <1>1
    <3> QED
      BY <1>2, <3>1, FlattensAt
  <2>2. seqs = <<>> /\ FlattenSeq(seqs) = <<>>
    BY <1>3, FlattenEmpty DEF n
  <2> QED
    <3>1. n + 1 = 1 /\ more[1] = s /\ s = <<>> \o s
      BY <1>1, <1>3
    <3>2. FlattenSeq(more) = s
      BY <1>2, <2>1, <3>1
    <3> QED
      BY <2>2, <3>1, <3>2 DEF more
<1>4. CASE n # 0
  <2>1. PICK f : Flattens(f, seqs, n) /\ FlattenSeq(seqs) = f[n]
    BY <1>1, <1>4, FlattenDef DEF n
  <2> DEFINE Same == {m \in Nat : m \in 1..n => g[m] = f[m]}
  <2>2. 0 \in Same
    OBVIOUS
  <2>3. ASSUME NEW m \in Nat, m \in Same PROVE m + 1 \in Same
    <3>1. SUFFICES ASSUME m + 1 \in 1..n PROVE g[m + 1] = f[m + 1]
      OBVIOUS
    <3>2. more[m + 1] = seqs[m + 1]
      BY <1>1, <3>1
    <3>3. CASE m = 0
      <4>1. n > 0 /\ n + 1 > 0 /\ n \in Nat /\ n + 1 \in Nat
        BY <1>1, <3>1
      <4>2. g[1] = more[1]
        BY <1>2, <4>1, FlattensAt
      <4>3. f[1] = seqs[1]
        BY <2>1, <4>1, FlattensAt
      <4> QED
        BY <3>2, <3>3, <4>2, <4>3
    <3>4. CASE m # 0
      <4>1. g[m] = f[m]
        BY <1>1, <2>3, <3>1, <3>4 DEF Same
      <4>2. m > 0 /\ m < n /\ m < n + 1 /\ n \in Nat /\ n + 1 \in Nat
        BY <1>1, <3>1, <3>4
      <4>3. g[m + 1] = g[m] \o more[m + 1]
        BY <1>2, <4>2, FlattensAt
      <4>4. f[m + 1] = f[m] \o seqs[m + 1]
        BY <2>1, <4>2, FlattensAt
      <4> QED
        BY <3>2, <4>1, <4>3, <4>4
    <3> QED
      BY <3>3, <3>4
  <2> HIDE DEF Same
  <2>4. n \in Same
    BY <1>1, <2>2, <2>3, InductionOnNat
  <2>5. g[n] = f[n]
    BY <1>1, <1>4, <2>4 DEF Same
  <2>6. g[n + 1] = g[n] \o more[n + 1]
    <3>1. n + 1 \in Nat /\ n > 0 /\ n < n + 1
      BY <1>1, <1>4
    <3> QED
      BY <1>1, <1>2, <3>1, FlattensAt
  <2> QED
    BY <1>1, <1>2, <2>1, <2>5, <2>6 DEF more
<1> QED
  BY <1>3, <1>4

\* The sequences joined are a sequence, in which each stands behind those before
\* it, in its whole length.
LEMMA FlattenType ==
  ASSUME NEW S, NEW seqs \in Seq(Seq(S))
  PROVE  FlattenSeq(seqs) \in Seq(S)
<1> DEFINE Good == {n \in Nat : \A q \in Seq(Seq(S)) :
                      Len(q) = n => FlattenSeq(q) \in Seq(S)}
<1>1. 0 \in Good
  <2>1. \A q \in Seq(Seq(S)) : Len(q) = 0 => q = <<>>
    OBVIOUS
  <2> QED
    BY <2>1, FlattenEmpty
<1>2. ASSUME NEW n \in Nat, n \in Good PROVE n + 1 \in Good
  <2>1. SUFFICES ASSUME NEW q \in Seq(Seq(S)), Len(q) = n + 1
                 PROVE  FlattenSeq(q) \in Seq(S)
    OBVIOUS
  <2>2. PICK p \in Seq(Seq(S)), s \in Seq(S) : q = Append(p, s) /\ Len(p) = n
    <3>1. /\ SubSeq(q, 1, n) \in Seq(Seq(S)) /\ Len(SubSeq(q, 1, n)) = n
          /\ q[n + 1] \in Seq(S)
          /\ q = Append(SubSeq(q, 1, n), q[n + 1])
      BY <2>1
    <3> QED
      BY <3>1
  <2>3. FlattenSeq(p) \in Seq(S)
    BY <1>2, <2>2
  <2>4. FlattenSeq(q) = FlattenSeq(p) \o s
    BY <2>2, FlattenAppend
  <2> QED
    BY <2>3, <2>4
<1> HIDE DEF Good
<1>3. Len(seqs) \in Good
  BY <1>1, <1>2, InductionOnNat
<1> QED
  BY <1>3 DEF Good

\* How many elements the first k sequences have.
Before(seqs, k) == Len(FlattenSeq(SubSeq(seqs, 1, k)))

LEMMA FlattenFirst ==
  ASSUME NEW S, NEW seqs \in Seq(Seq(S)), NEW k \in 1..Len(seqs)
  PROVE  /\ FlattenSeq(SubSeq(seqs, 1, k)) \in Seq(S)
         /\ FlattenSeq(SubSeq(seqs, 1, k - 1)) \in Seq(S)
         /\ seqs[k] \in Seq(S)
         /\ FlattenSeq(SubSeq(seqs, 1, k)) =
              FlattenSeq(SubSeq(seqs, 1, k - 1)) \o seqs[k]
<1> DEFINE p == SubSeq(seqs, 1, k - 1)
<1>1. p \in Seq(Seq(S)) /\ seqs[k] \in Seq(S)
  OBVIOUS
<1>2. SubSeq(seqs, 1, k) = Append(p, seqs[k])
  OBVIOUS
<1>3. SubSeq(seqs, 1, k) \in Seq(Seq(S))
  OBVIOUS
<1> HIDE DEF p
<1>4. FlattenSeq(p) \in Seq(S) /\ FlattenSeq(SubSeq(seqs, 1, k)) \in Seq(S)
  BY <1>1, <1>3, FlattenType
<1>5. FlattenSeq(Append(p, seqs[k])) = FlattenSeq(p) \o seqs[k]
  BY <1>1, FlattenAppend
<1> QED
  BY <1>1, <1>2, <1>4, <1>5 DEF p

\* Each sequence stands in the whole behind those before it.
LEMMA FlattenLayout ==
  ASSUME NEW S, NEW seqs \in Seq(Seq(S))
  PROVE  /\ FlattenSeq(seqs) \in Seq(S)
         /\ Before(seqs, 0) = 0
         /\ Before(seqs, Len(seqs)) = Len(FlattenSeq(seqs))
         /\ \A k \in 0..Len(seqs) : Before(seqs, k) \in Nat
         /\ \A k, j \in 0..Len(seqs) :
              k <= j => Before(seqs, k) <= Before(seqs, j)
         /\ \A k \in 1..Len(seqs) :
              /\ Before(seqs, k) = Before(seqs, k - 1) + Len(seqs[k])
              /\ \A x \in 1..Len(seqs[k]) :
                   FlattenSeq(seqs)[Before(seqs, k - 1) + x] = seqs[k][x]
<1> DEFINE F(k) == FlattenSeq(SubSeq(seqs, 1, k))
           n == Len(seqs)
<1>1. n \in Nat /\ SubSeq(seqs, 1, n) = seqs
  OBVIOUS
<1>2. F(0) = <<>>
  <2>1. SubSeq(seqs, 1, 0) = <<>>
    OBVIOUS
  <2> QED
    BY <2>1, FlattenEmpty
<1>3. \A k \in 1..n : /\ F(k) \in Seq(S) /\ F(k - 1) \in Seq(S)
                      /\ seqs[k] \in Seq(S) /\ F(k) = F(k - 1) \o seqs[k]
  BY FlattenFirst
<1>4. F(n) = FlattenSeq(seqs) /\ F(n) \in Seq(S)
  BY <1>1, FlattenType
<1>5. \A k \in 0..n : Before(seqs, k) = Len(F(k))
  BY DEF Before
<1> HIDE DEF F, n
<1>6. \A k \in 0..n : F(k) \in Seq(S)
  <2> SUFFICES ASSUME NEW k \in 0..n PROVE F(k) \in Seq(S)
    OBVIOUS
  <2>1. CASE k = 0
    <3>1. <<>> \in Seq(S)
      OBVIOUS
    <3> QED
      BY <1>2, <2>1, <3>1
  <2>2. CASE k # 0
    <3>1. k \in 1..n
      BY <1>1, <2>2
    <3> QED
      BY <1>3, <3>1
  <2> QED
    BY <2>1, <2>2
<1>7. ASSUME NEW k \in 1..n PROVE Len(F(k)) = Len(F(k - 1)) + Len(seqs[k])
  <2>1. /\ F(k - 1) \in Seq(S) /\ seqs[k] \in Seq(S)
        /\ F(k) = F(k - 1) \o seqs[k]
    BY <1>3
  <2>2. Len(F(k - 1) \o seqs[k]) = Len(F(k - 1)) + Len(seqs[k])
    BY <2>1
  <2> QED
    BY <2>1, <2>2
\* The first k are found in each longer part as they are.
<1> DEFINE Kept(k, j) == /\ Len(F(k)) <= Len(F(j))
                         /\ \A x \in 1..Len(F(k)) : F(j)[x] = F(k)[x]
<1>8. \A k \in 0..n : \A j \in k..n : Kept(k, j)
  <2> SUFFICES ASSUME NEW k \in 0..n PROVE \A j \in k..n : Kept(k, j)
    OBVIOUS
  <2> DEFINE Good == {m \in Nat : k + m \in k..n => Kept(k, k + m)}
  <2>1. 0 \in Good
    <3>1. k + 0 = k /\ Len(F(k)) \in Nat
      BY <1>6
    <3>2. Kept(k, k)
      BY <3>1
    <3> HIDE DEF Kept
    <3> QED
      BY <3>1, <3>2
  <2>2. ASSUME NEW m \in Nat, m \in Good PROVE m + 1 \in Good
    <3> DEFINE j == k + m
    <3> SUFFICES ASSUME k + (m + 1) \in k..n PROVE Kept(k, k + (m + 1))
      OBVIOUS
    <3>1. /\ j \in k..n /\ j \in 0..n /\ j + 1 \in 1..n
          /\ k + (m + 1) = j + 1 /\ (j + 1) - 1 = j
      BY <1>1
    <3>2. Kept(k, j)
      <4> HIDE DEF Kept
      <4> QED
        BY <2>2, <3>1
    <3> HIDE DEF j
    <3>3. /\ F(k) \in Seq(S) /\ F(j) \in Seq(S) /\ seqs[j + 1] \in Seq(S)
          /\ F(j + 1) = F(j) \o seqs[j + 1]
      BY <1>3, <1>6, <3>1
    <3>4. /\ Len(F(j + 1)) >= Len(F(j))
          /\ \A x \in 1..Len(F(j)) : F(j + 1)[x] = F(j)[x]
      BY <3>3
    <3>5. Len(F(k)) \in Nat /\ Len(F(j)) \in Nat /\ Len(F(j + 1)) \in Nat
      BY <1>6, <3>1, <3>3
    <3>6. Kept(k, j + 1)
      BY <3>2, <3>4, <3>5
    <3> QED
      BY <3>1, <3>6
  <2> HIDE DEF Kept
  <2>3. SUFFICES ASSUME NEW j \in k..n PROVE Kept(k, j)
    OBVIOUS
  <2>4. j - k \in Nat /\ k + (j - k) = j
    BY <1>1
  <2> HIDE DEF Good
  <2>5. j - k \in Good
    BY <2>1, <2>2, <2>4, InductionOnNat
  <2> QED
    BY <2>4, <2>5 DEF Good
<1>9. ASSUME NEW k \in 1..n, NEW x \in 1..Len(seqs[k])
      PROVE  F(n)[Len(F(k - 1)) + x] = seqs[k][x]
  <2>1. /\ F(k) = F(k - 1) \o seqs[k] /\ F(k - 1) \in Seq(S)
        /\ F(k) \in Seq(S) /\ seqs[k] \in Seq(S)
    BY <1>3
  <2>2. /\ Len(F(k - 1)) + x \in 1..Len(F(k))
        /\ F(k)[Len(F(k - 1)) + x] = seqs[k][x]
    BY <2>1
  <2>3. Kept(k, n)
    <3> HIDE DEF Kept
    <3>1. k \in 0..n /\ n \in k..n
      BY <1>1
    <3> QED
      BY <1>8, <3>1
  <2> QED
    BY <2>2, <2>3
<1>10. \A k, j \in 0..n : k <= j => Len(F(k)) <= Len(F(j))
  <2> SUFFICES ASSUME NEW k \in 0..n, NEW j \in 0..n, k <= j
               PROVE  Len(F(k)) <= Len(F(j))
    OBVIOUS
  <2>1. j \in k..n
    BY <1>1
  <2>2. Kept(k, j)
    <3> HIDE DEF Kept
    <3> QED
      BY <1>8, <2>1
  <2> QED
    BY <2>2
<1>11. \A k \in 0..n : Before(seqs, k) \in Nat
  BY <1>5, <1>6
<1>12. \A k \in 1..n : k \in 0..n /\ k - 1 \in 0..n
  BY <1>1
<1>13. 0 \in 0..n /\ n \in 0..n
  BY <1>1
<1>14. Before(seqs, 0) = 0 /\ Before(seqs, n) = Len(FlattenSeq(seqs))
  BY <1>2, <1>4, <1>5, <1>13
<1>15. \A k, j \in 0..n : k <= j => Before(seqs, k) <= Before(seqs, j)
  BY <1>5, <1>10
<1>16. \A k \in 1..n : Before(seqs, k) = Before(seqs, k - 1) + Len(seqs[k])
  BY <1>5, <1>7, <1>12
<1>17. \A k \in 1..n : \A x \in 1..Len(seqs[k]) :
         FlattenSeq(seqs)[Before(seqs, k - 1) + x] = seqs[k][x]
  BY <1>4, <1>5, <1>9, <1>12
<1> QED
  BY <1>4, <1>11, <1>14, <1>15, <1>16, <1>17 DEF n

-----------------------------------------------------------------------------
(* Prefixes.                                                               *)

\* The octets of a prefix by the standard, as ranges of mask lengths.
LEMMA StandardRanges ==
  ASSUME NEW len \in 0..32
  PROVE  /\ len = 0 => StandardOctets(len) = 0
         /\ len \in 1..8 => StandardOctets(len) = 1
         /\ len \in 9..16 => StandardOctets(len) = 2
         /\ len \in 17..24 => StandardOctets(len) = 3
         /\ len \in 25..32 => StandardOctets(len) = 4
         /\ len # 0 => StandardOctets(len) \in 1..4
BY DEF StandardOctets

\* The decoder (get_route_len_bytes) takes the octets of the standard for every mask
\* but that of the default route, which has none and for which it takes one.
THEOREM ReadAsStandard ==
  \A len \in 0..32 : RouteLenBytes(len) = StandardOctets(len) <=> len # 0
<1> SUFFICES ASSUME NEW len \in 0..32
             PROVE  RouteLenBytes(len) = StandardOctets(len) <=> len # 0
  OBVIOUS
<1>1. /\ len \in 0..8 => RouteLenBytes(len) = 1
      /\ len \in 9..16 => RouteLenBytes(len) = 2
      /\ len \in 17..24 => RouteLenBytes(len) = 3
      /\ len \in 25..32 => RouteLenBytes(len) = 4
  BY DEF RouteLenBytes
<1> QED
  BY <1>1, StandardRanges

\* The encoder (UpdateMessage::convert_to_bytes) writes the octets of the standard
\* for eleven masks of the 33: the others lose an octet, or gain one.
THEOREM WrittenAsStandard ==
  \A len \in 0..32 : SentOctets(len) = StandardOctets(len)
                       <=> len \in 1..8 \cup {16, 24, 32}
<1> SUFFICES ASSUME NEW len \in 0..32
             PROVE  SentOctets(len) = StandardOctets(len)
                      <=> len \in 1..8 \cup {16, 24, 32}
  OBVIOUS
<1>1. /\ len \in 0..15 => SentOctets(len) = 1
      /\ len \in 16..23 => SentOctets(len) = 2
      /\ len \in 24..31 => SentOctets(len) = 3
      /\ len = 32 => SentOctets(len) = 4
  BY DEF SentOctets
<1> QED
  BY <1>1, StandardRanges

\* A prefix of the standard, anywhere in a read, is read back as it was written,
\* whatever stands before it and behind it.
THEOREM PrefixIsReadBack ==
  ASSUME NEW len \in 1..32, NEW prefix \in [1..4 -> Nat],
         \A k \in 1..4 : k > StandardOctets(len) => prefix[k] = 0,
         NEW buf \in Seq(Nat), NEW i \in Nat,
         Has(buf, i + 1 + StandardOctets(len)),
         At(buf, i) = len,
         \A k \in 1..StandardOctets(len) : At(buf, i + k) = prefix[k]
  PROVE  /\ PrefixFits(buf, i)
         /\ PrefixAt(buf, i) = <<[len |-> len, prefix |-> prefix]>>
<1>1. RouteLenBytes(len) = StandardOctets(len) /\ StandardOctets(len) \in 1..4
  <2>1. len \in 0..32 /\ len # 0
    OBVIOUS
  <2>2. RouteLenBytes(len) = StandardOctets(len)
    BY <2>1, ReadAsStandard
  <2>3. StandardOctets(len) \in 1..4
    BY <2>1, StandardRanges
  <2> QED
    BY <2>2, <2>3
<1>2. PrefixFits(buf, i)
  BY <1>1 DEF PrefixFits
<1>3. prefix = [k \in 1..4 |-> IF k <= RouteLenBytes(len) THEN At(buf, i + k)
                               ELSE 0]
  BY <1>1
<1>4. PrefixAt(buf, i) = NewNlri(len, prefix)
  BY <1>3 DEF PrefixAt
<1> QED
  BY <1>2, <1>4 DEF NewNlri
================================================================================
