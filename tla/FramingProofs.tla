----------------------------- MODULE FramingProofs -----------------------------
(***************************************************************************)
(* Theorems about Framing, for every length of marker and any number of    *)
(* messages of any size in a read: which of them the loop finds.           *)
(*                                                                         *)
(* The number m of messages found says where the loop is: at message       *)
(* 2m + 1 with nothing to skip, skipping message 2m - 1 and the first byte *)
(* of the next, or in message 2m, looking for a marker it cannot find.     *)
(***************************************************************************)
EXTENDS Framing, OctetsProofs

Pieces(sizes) == [k \in DOMAIN sizes |-> Message(sizes[k])]

\* Where message k begins.
Start(k) == Before(Pieces(sent), k - 1) + 1

\* The first m messages at odd positions.
FirstOdd(m) == [k \in 1..m |-> Message(sent[2 * k - 1])]

-----------------------------------------------------------------------------
(* Messages.                                                               *)

LEMMA Widths ==
  /\ MarkerLen \in Nat /\ MarkerLen > 1 /\ MaxBody \in Nat
  /\ HeaderLen \in Nat /\ HeaderLen = MarkerLen + 3
BY FramingConstants DEF HeaderLen

LEMMA MessageShape ==
  ASSUME NEW n \in 0..MaxBody
  PROVE  /\ Message(n) \in Seq(Nat) /\ Len(Message(n)) = HeaderLen + n
         /\ \A k \in 1..MarkerLen : Message(n)[k] = Mark
         /\ Message(n)[MarkerLen + 1] # Mark
         /\ \A k \in (MarkerLen + 3)..(HeaderLen + n) : Message(n)[k] # Mark
         /\ 256 * Message(n)[MarkerLen + 1] + Message(n)[MarkerLen + 2]
              = HeaderLen + n
<1> USE FramingConstants DEF HeaderLen
<1> DEFINE len == HeaderLen + n
<1>1. /\ len \in Nat /\ len < 255 * 256
      /\ len \div 256 \in 0..254 /\ len % 256 \in Nat
      /\ 256 * (len \div 256) + (len % 256) = len
  OBVIOUS
<1> HIDE DEF len
<1>2. Message(n) = [k \in 1..len |->
         CASE k <= MarkerLen -> Mark
           [] k = MarkerLen + 1 -> len \div 256
           [] k = MarkerLen + 2 -> len % 256
           [] OTHER -> Other]
  BY DEF Message, len
<1>3. /\ \A k \in 1..MarkerLen : k \in 1..len /\ k <= MarkerLen
      /\ MarkerLen + 1 \in 1..len /\ MarkerLen + 2 \in 1..len
      /\ \A k \in (MarkerLen + 3)..len : k \in 1..len /\ k > MarkerLen + 2
  BY <1>1 DEF len
<1>4. /\ Message(n) \in Seq(Nat) /\ Len(Message(n)) = len
  <2>1. ASSUME NEW k \in 1..len PROVE Message(n)[k] \in Nat
    <3>1. Message(n)[k] \in {Mark, len \div 256, len % 256, Other}
      BY <1>2
    <3>2. len \div 256 \in Nat
      BY <1>1
    <3> QED
      BY <1>1, <3>1, <3>2 DEF Mark, Other
  <2>2. DOMAIN Message(n) = 1..len /\ Message(n) = [k \in 1..len |-> Message(n)[k]]
    BY <1>2
  <2>3. Message(n) \in [1..len -> Nat]
    BY <2>1, <2>2
  <2>4. Message(n) \in Seq(Nat)
    BY <1>1, <2>3, SeqDef
  <2>5. Len(Message(n)) \in Nat /\ DOMAIN Message(n) = 1..Len(Message(n))
    BY <2>4, LenProperties
  <2> QED
    BY <1>1, <2>2, <2>4, <2>5
<1>5. \A k \in 1..MarkerLen : Message(n)[k] = Mark
  BY <1>2, <1>3
<1>6. Message(n)[MarkerLen + 1] = len \div 256
  BY <1>2, <1>3
<1>7. Message(n)[MarkerLen + 2] = len % 256
  BY <1>2, <1>3
<1>8. \A k \in (MarkerLen + 3)..len : Message(n)[k] = Other
  BY <1>2, <1>3
<1> QED
  BY <1>1, <1>4, <1>5, <1>6, <1>7, <1>8 DEF len, Mark, Other

-----------------------------------------------------------------------------
(* The read.                                                               *)

\* The buffer holds the messages, of which the last may be cut, but is not lost.
ReadOK ==
  /\ sent \in Seq(0..MaxBody) /\ Len(sent) > 0
  /\ tsbuf \in Seq(Nat)
  /\ Start(Len(sent)) <= Len(tsbuf) /\ Len(tsbuf) <= Len(Bytes(sent))
  /\ \A k \in 1..Len(tsbuf) : tsbuf[k] = Bytes(sent)[k]

LEMMA PiecesType ==
  ASSUME sent \in Seq(0..MaxBody)
  PROVE  /\ Pieces(sent) \in Seq(Seq(Nat)) /\ Len(Pieces(sent)) = Len(sent)
         /\ \A k \in 1..Len(sent) :
              /\ Pieces(sent)[k] = Message(sent[k])
              /\ Len(Pieces(sent)[k]) = HeaderLen + sent[k]
         /\ Bytes(sent) = FlattenSeq(Pieces(sent))
<1>1. ASSUME NEW k \in 1..Len(sent)
      PROVE  /\ Message(sent[k]) \in Seq(Nat)
             /\ Len(Message(sent[k])) = HeaderLen + sent[k]
  <2>1. sent[k] \in 0..MaxBody
    BY ElementOfSeq
  <2> QED
    BY <2>1, MessageShape
<1>2. /\ Pieces(sent) = [k \in 1..Len(sent) |-> Message(sent[k])]
      /\ Len(sent) \in Nat
  BY DEF Pieces
<1>3. Pieces(sent) \in Seq(Seq(Nat)) /\ Len(Pieces(sent)) = Len(sent)
  BY <1>1, <1>2
<1> QED
  BY <1>1, <1>2, <1>3 DEF Bytes, Pieces

\* Where the messages begin, and what is there.
LEMMA Starts ==
  ASSUME sent \in Seq(0..MaxBody), Len(sent) > 0
  PROVE  /\ Start(1) = 1 /\ Start(Len(sent) + 1) = Len(Bytes(sent)) + 1
         /\ \A k \in 1..(Len(sent) + 1) : Start(k) \in Nat \ {0}
         /\ \A k, j \in 1..(Len(sent) + 1) : k <= j => Start(k) <= Start(j)
         /\ \A k \in 1..Len(sent) :
              /\ sent[k] \in 0..MaxBody
              /\ Start(k + 1) = Start(k) + HeaderLen + sent[k]
              /\ \A x \in 1..(HeaderLen + sent[k]) :
                   Bytes(sent)[Start(k) + x - 1] = Message(sent[k])[x]
<1> DEFINE n == Len(sent)
           p == Pieces(sent)
<1>1. n \in Nat \ {0} /\ (\A k \in 1..n : sent[k] \in 0..MaxBody)
  <2>1. n \in Nat /\ n > 0
    BY LenProperties
  <2>2. ASSUME NEW k \in 1..n PROVE sent[k] \in 0..MaxBody
    BY ElementOfSeq
  <2> QED
    BY <2>1, <2>2
<1>2. /\ p \in Seq(Seq(Nat)) /\ Len(p) = n /\ Bytes(sent) = FlattenSeq(p)
      /\ \A k \in 1..n : p[k] = Message(sent[k])
                         /\ Len(p[k]) = HeaderLen + sent[k]
  BY PiecesType
<1>3. \A k : Start(k) = Before(p, k - 1) + 1
  BY DEF Start
<1> HIDE DEF n, p
<1>4. /\ Before(p, 0) = 0 /\ Before(p, n) = Len(Bytes(sent))
      /\ \A k \in 0..n : Before(p, k) \in Nat
      /\ \A k, j \in 0..n : k <= j => Before(p, k) <= Before(p, j)
      /\ \A k \in 1..n : /\ Before(p, k) = Before(p, k - 1) + Len(p[k])
                         /\ \A x \in 1..Len(p[k]) :
                              Bytes(sent)[Before(p, k - 1) + x] = p[k][x]
  <2>1. p \in Seq(Seq(Nat))
    BY <1>2
  <2>2. /\ Before(p, 0) = 0 /\ Before(p, Len(p)) = Len(FlattenSeq(p))
        /\ \A k \in 0..Len(p) : Before(p, k) \in Nat
        /\ \A k, j \in 0..Len(p) : k <= j => Before(p, k) <= Before(p, j)
    BY <2>1, FlattenLayout
  <2>3. \A k \in 1..Len(p) : /\ Before(p, k) = Before(p, k - 1) + Len(p[k])
                             /\ \A x \in 1..Len(p[k]) :
                                  FlattenSeq(p)[Before(p, k - 1) + x] = p[k][x]
    BY <2>1, FlattenLayout
  <2>4. Len(p) = n /\ FlattenSeq(p) = Bytes(sent)
    BY <1>2
  <2>5. /\ Before(p, 0) = 0 /\ Before(p, n) = Len(Bytes(sent))
        /\ \A k \in 0..n : Before(p, k) \in Nat
        /\ \A k, j \in 0..n : k <= j => Before(p, k) <= Before(p, j)
    BY <2>2, <2>4
  <2>6. \A k \in 1..n : /\ Before(p, k) = Before(p, k - 1) + Len(p[k])
                        /\ \A x \in 1..Len(p[k]) :
                             Bytes(sent)[Before(p, k - 1) + x] = p[k][x]
    BY <2>3, <2>4
  <2> QED
    BY <2>5, <2>6
<1>5. \A k \in 1..(n + 1) : k - 1 \in 0..n
  BY <1>1
<1>6. Start(1) = 1 /\ Start(n + 1) = Len(Bytes(sent)) + 1
  <2>1. 1 - 1 = 0 /\ (n + 1) - 1 = n
    BY <1>1
  <2> QED
    BY <1>3, <1>4, <2>1
<1>7. \A k \in 1..(n + 1) : Start(k) \in Nat \ {0}
  BY <1>3, <1>4, <1>5
<1>8. ASSUME NEW k \in 1..(n + 1), NEW j \in 1..(n + 1), k <= j
      PROVE  Start(k) <= Start(j)
  <2>1. k - 1 <= j - 1
    BY <1>1, <1>8
  <2>2. /\ Before(p, k - 1) <= Before(p, j - 1)
        /\ Before(p, k - 1) \in Nat /\ Before(p, j - 1) \in Nat
    BY <1>4, <1>5, <2>1
  <2> QED
    BY <1>3, <2>2
<1>9. ASSUME NEW k \in 1..n
      PROVE  /\ Start(k + 1) = Start(k) + HeaderLen + sent[k]
             /\ \A x \in 1..(HeaderLen + sent[k]) :
                  Bytes(sent)[Start(k) + x - 1] = Message(sent[k])[x]
  <2>1. (k + 1) - 1 = k /\ k - 1 \in 0..n
    BY <1>1
  <2>2. Before(p, k - 1) \in Nat
    BY <1>4, <2>1
  <2>3. sent[k] \in Nat
    <3>1. sent[k] \in 0..MaxBody
      BY <1>1
    <3> QED
      BY <3>1, Widths
  <2>4. Start(k + 1) = Before(p, k) + 1 /\ Start(k) = Before(p, k - 1) + 1
    BY <1>3, <2>1
  <2>5. Before(p, k) = Before(p, k - 1) + (HeaderLen + sent[k])
    BY <1>2, <1>4
  <2>6. Start(k + 1) = Start(k) + HeaderLen + sent[k]
    <3>1. Before(p, k) \in Nat
      <4>1. k \in 0..n
        BY <1>1
      <4> QED
        BY <1>4, <4>1
    <3> DEFINE u == Before(p, k - 1)
               v == Before(p, k)
               b == sent[k]
    <3>2. u \in Nat /\ v \in Nat /\ b \in Nat /\ v = u + (HeaderLen + b)
      BY <2>2, <2>3, <2>5, <3>1
    <3>3. Start(k + 1) = v + 1 /\ Start(k) = u + 1
      BY <2>4
    <3> HIDE DEF u, v, b
    <3>4. v + 1 = u + 1 + HeaderLen + b
      BY <3>2, Widths
    <3>5. Start(k + 1) = Start(k) + HeaderLen + b
      BY <3>3, <3>4
    <3> QED
      BY <3>5 DEF b
  <2>7. ASSUME NEW x \in 1..(HeaderLen + sent[k])
        PROVE  Bytes(sent)[Start(k) + x - 1] = Message(sent[k])[x]
    <3>1. x \in Nat
      BY <2>3, Widths
    <3>2. Start(k) + x - 1 = Before(p, k - 1) + x
      BY <2>2, <2>4, <3>1
    <3>3. Bytes(sent)[Before(p, k - 1) + x] = p[k][x]
      BY <1>2, <1>4
    <3> QED
      BY <1>2, <3>2, <3>3
  <2> QED
    BY <2>6, <2>7
<1> QED
  BY <1>1, <1>6, <1>7, <1>8, <1>9 DEF n

\* So they do in the buffer, as far as it goes.
LEMMA Layout ==
  ASSUME ReadOK
  PROVE  /\ Len(sent) \in Nat \ {0} /\ Len(tsbuf) \in Nat
         /\ Start(1) = 1 /\ Start(Len(sent) + 1) = Len(Bytes(sent)) + 1
         /\ \A k \in 1..(Len(sent) + 1) : Start(k) \in Nat \ {0}
         /\ \A k, j \in 1..(Len(sent) + 1) : k <= j => Start(k) <= Start(j)
         /\ \A k \in 1..Len(sent) :
              /\ sent[k] \in 0..MaxBody
              /\ Start(k + 1) = Start(k) + HeaderLen + sent[k]
              /\ \A x \in 1..(HeaderLen + sent[k]) :
                   Start(k) + x - 1 <= Len(tsbuf) =>
                     tsbuf[Start(k) + x - 1] = Message(sent[k])[x]
<1> USE Widths
<1>1. /\ Len(sent) \in Nat \ {0} /\ Len(tsbuf) \in Nat
      /\ sent \in Seq(0..MaxBody) /\ Len(sent) > 0
  BY DEF ReadOK
<1>2. ASSUME NEW k \in 1..Len(sent), NEW x \in 1..(HeaderLen + sent[k]),
             Start(k) + x - 1 <= Len(tsbuf)
      PROVE  tsbuf[Start(k) + x - 1] = Message(sent[k])[x]
  <2>1. k \in 1..(Len(sent) + 1)
    BY <1>1
  <2>2. Start(k) \in Nat \ {0} /\ sent[k] \in 0..MaxBody
    BY <1>1, <2>1, Starts
  <2>3. Start(k) + x - 1 \in 1..Len(tsbuf)
    BY <1>1, <1>2, <2>2
  <2>4. Bytes(sent)[Start(k) + x - 1] = Message(sent[k])[x]
    BY <1>1, Starts
  <2> QED
    BY <2>3, <2>4 DEF ReadOK
<1> QED
  BY <1>1, <1>2, Starts

\* A message that is in the buffer to the end of its header has a marker where it
\* begins; behind its first byte it has none.
LEMMA MarkersAtStarts ==
  ASSUME ReadOK, NEW k \in 1..Len(sent)
  PROVE  /\ Start(k) + MarkerLen <= Len(tsbuf) => MarkerAt(Start(k))
         /\ \A j \in Nat : Start(k) < j /\ j < Start(k + 1) => ~MarkerAt(j)
<1> USE Widths
<1> DEFINE s == Start(k)
           b == sent[k]
<1>1. /\ s \in Nat \ {0} /\ Start(k + 1) = s + HeaderLen + b
      /\ b \in 0..MaxBody /\ Len(tsbuf) \in Nat
      /\ \A x \in 1..(HeaderLen + b) :
           s + x - 1 <= Len(tsbuf) => tsbuf[s + x - 1] = Message(b)[x]
  <2>1. k \in 1..(Len(sent) + 1)
    BY DEF ReadOK
  <2> QED
    BY <2>1, Layout DEF ReadOK
<1>2. /\ \A x \in 1..MarkerLen : Message(b)[x] = Mark
      /\ Message(b)[MarkerLen + 1] # Mark
      /\ \A x \in (MarkerLen + 3)..(HeaderLen + b) : Message(b)[x] # Mark
  <2> HIDE DEF s, b
  <2>1. b \in 0..MaxBody
    BY <1>1
  <2> QED
    BY <2>1, MessageShape
<1> HIDE DEF s, b
<1>3. ASSUME s + MarkerLen <= Len(tsbuf) PROVE MarkerAt(s)
  <2>1. ASSUME NEW j \in s..(s + MarkerLen - 1) PROVE tsbuf[j] = Mark
    <3>1. /\ j - s + 1 \in 1..MarkerLen /\ j - s + 1 \in 1..(HeaderLen + b)
          /\ s + (j - s + 1) - 1 = j /\ j <= Len(tsbuf)
      BY <1>1, <1>3
    <3>2. tsbuf[s + (j - s + 1) - 1] = Message(b)[j - s + 1]
      BY <1>1, <3>1
    <3> QED
      BY <1>2, <3>1, <3>2
  <2> QED
    BY <1>3, <2>1 DEF MarkerAt
<1>4. ASSUME NEW j \in Nat, s < j, j < Start(k + 1), MarkerAt(j) PROVE FALSE
  <2>1. /\ j + MarkerLen <= Len(tsbuf)
        /\ \A y \in j..(j + MarkerLen - 1) : tsbuf[y] = Mark
    BY <1>4 DEF MarkerAt
  <2> DEFINE x == j - s + 1
  <2>2. x \in 2..(HeaderLen + b) /\ j = s + x - 1
    BY <1>1, <1>4
  <2>3. \A z \in x..(x + MarkerLen - 1) :
          z \in 1..(HeaderLen + b) => Message(b)[z] = Mark
    <3>1. ASSUME NEW z \in x..(x + MarkerLen - 1), z \in 1..(HeaderLen + b)
          PROVE  Message(b)[z] = Mark
      <4>1. s + z - 1 \in j..(j + MarkerLen - 1) /\ s + z - 1 <= Len(tsbuf)
        BY <1>1, <2>1, <2>2
      <4> QED
        BY <1>1, <2>1, <3>1, <4>1
    <3> QED
      BY <3>1
  <2> HIDE DEF x
  <2>4. CASE x <= MarkerLen + 1
    <3>1. /\ MarkerLen + 1 \in x..(x + MarkerLen - 1)
          /\ MarkerLen + 1 \in 1..(HeaderLen + b)
      BY <1>1, <2>2, <2>4
    <3> QED
      BY <1>2, <2>3, <3>1
  <2>5. CASE x = MarkerLen + 2
    <3>1. /\ MarkerLen + 3 \in x..(x + MarkerLen - 1)
          /\ MarkerLen + 3 \in 1..(HeaderLen + b)
          /\ MarkerLen + 3 \in (MarkerLen + 3)..(HeaderLen + b)
      BY <1>1, <2>2, <2>5
    <3> QED
      BY <1>2, <2>3, <3>1
  <2>6. CASE x >= MarkerLen + 3
    <3>1. /\ x \in x..(x + MarkerLen - 1) /\ x \in 1..(HeaderLen + b)
          /\ x \in (MarkerLen + 3)..(HeaderLen + b)
      BY <1>1, <2>2, <2>6
    <3> QED
      BY <1>2, <2>3, <3>1
  <2> QED
    BY <2>2, <2>4, <2>5, <2>6
<1> QED
  BY <1>3, <1>4 DEF s

-----------------------------------------------------------------------------
(* The loop.                                                               *)

Taken == Len(messages)

\* At the first byte of a message, where its marker is found.
AtStart ==
  /\ 2 * Taken <= Len(sent)
  /\ i = Start(2 * Taken + 1) /\ bytes_to_skip = 0

\* Skipping the message taken last, and a byte of the one behind it.
Skipping ==
  /\ Taken > 0 /\ 2 * Taken <= Len(sent)
  /\ Start(2 * Taken - 1) < i /\ i <= Start(2 * Taken)
  /\ bytes_to_skip = Start(2 * Taken) + 1 - i

\* In a message whose first byte was skipped.
InLost ==
  /\ Taken > 0 /\ 2 * Taken <= Len(sent)
  /\ Start(2 * Taken) < i /\ i < Start(2 * Taken + 1) /\ bytes_to_skip = 0

\* In a last message that was cut before its marker ended.
InCut ==
  /\ Len(sent) = 2 * Taken + 1
  /\ Start(Len(sent)) < i /\ i <= Len(tsbuf) + 1 /\ bytes_to_skip = 0
  /\ Len(tsbuf) < Start(Len(sent)) + MarkerLen

\* What the loop has found of a read: of whole messages the first, the third and so
\* on; a message that the read cut costs the whole read when it is at an odd
\* position.
Odd(sizes) == [k \in 1..((Len(sizes) + 1) \div 2) |-> Message(sizes[2 * k - 1])]

FindsEverySecond ==
  /\ result = "ok" /\ Whole => messages = Odd(sent)
  /\ result \notin {"running", "ok"} => ~Whole /\ Len(sent) % 2 = 1

LoopOK ==
  /\ i \in Nat \ {0}
  /\ Taken \in Nat /\ messages = FirstOdd(Taken)
  /\ AtStart \/ Skipping \/ InLost \/ InCut

FramingInv ==
  /\ ReadOK
  /\ result = "running" => LoopOK
  /\ FindsEverySecond

LEMMA NothingTaken == FirstOdd(0) = <<>>
BY DEF FirstOdd

\* What the numbers of the loop are, and that messages before the last are whole.
LEMMA Bounds ==
  ASSUME ReadOK, LoopOK
  PROVE  /\ Taken \in Nat /\ i \in Nat \ {0}
         /\ HeaderLen \in Nat /\ HeaderLen > MarkerLen + 2
         /\ Len(sent) \in Nat \ {0} /\ Len(tsbuf) \in Nat
         /\ Len(Bytes(sent)) \in Nat
         /\ Start(1) = 1 /\ Start(Len(sent) + 1) = Len(Bytes(sent)) + 1
         /\ Len(tsbuf) <= Len(Bytes(sent))
         /\ \A k \in 1..(Len(sent) + 1) : Start(k) \in Nat \ {0}
         /\ \A k \in 1..Len(sent) :
              /\ Start(k) <= Len(tsbuf)
              /\ Start(k) + HeaderLen <= Start(k + 1)
              /\ Start(k + 1) <= Len(Bytes(sent)) + 1
              /\ k < Len(sent) => Start(k + 1) <= Len(tsbuf)
<1> USE Widths
<1> DEFINE n == Len(sent)
<1>1. /\ n \in Nat \ {0} /\ Len(tsbuf) \in Nat
      /\ Start(1) = 1 /\ Start(n + 1) = Len(Bytes(sent)) + 1
      /\ \A k \in 1..(n + 1) : Start(k) \in Nat \ {0}
      /\ \A k, j \in 1..(n + 1) : k <= j => Start(k) <= Start(j)
      /\ \A k \in 1..n : /\ sent[k] \in 0..MaxBody
                         /\ Start(k + 1) = Start(k) + HeaderLen + sent[k]
  BY Layout
<1>2. Start(n) <= Len(tsbuf) /\ Len(tsbuf) <= Len(Bytes(sent))
  BY DEF ReadOK
<1> HIDE DEF n
<1>3. n \in 1..(n + 1) /\ n + 1 \in 1..(n + 1)
  BY <1>1
<1>4. Len(Bytes(sent)) \in Nat
  <2>1. Start(n + 1) \in Nat \ {0}
    BY <1>1, <1>3
  <2>2. Bytes(sent) \in Seq(Nat)
    BY PiecesType, FlattenType DEF ReadOK
  <2> QED
    BY <2>2, LenProperties
<1>5. Taken \in Nat
  BY DEF LoopOK
<1>6. ASSUME NEW k \in 1..n
      PROVE  /\ Start(k) <= Len(tsbuf)
             /\ Start(k) + HeaderLen <= Start(k + 1)
             /\ Start(k + 1) <= Len(Bytes(sent)) + 1
             /\ k < n => Start(k + 1) <= Len(tsbuf)
  <2>1. /\ k \in 1..(n + 1) /\ k + 1 \in 1..(n + 1) /\ k <= n
        /\ k + 1 <= n + 1 /\ k < n => k + 1 <= n
    BY <1>1
  <2>2. /\ Start(k) \in Nat /\ Start(k + 1) \in Nat /\ Start(n) \in Nat
        /\ Start(n + 1) \in Nat
    BY <1>1, <1>3, <2>1
  <2>3. /\ Start(k) <= Start(n) /\ Start(k + 1) <= Start(n + 1)
        /\ k < n => Start(k + 1) <= Start(n)
    BY <1>1, <1>3, <2>1
  <2>4. Start(k) + HeaderLen <= Start(k + 1)
    <3>1. sent[k] \in 0..MaxBody
      BY <1>1
    <3>2. sent[k] \in Nat /\ sent[k] >= 0 /\ k \in Nat
      BY <1>1, <3>1
    <3>3. Start(k + 1) = Start(k) + HeaderLen + sent[k]
      BY <1>1
    <3> QED
      BY <2>2, <3>2, <3>3
  <2>5. Start(k) <= Len(tsbuf) /\ (k < n => Start(k + 1) <= Len(tsbuf))
    <3>1. k \in Nat /\ n \in Nat /\ Len(tsbuf) \in Nat
      BY <1>1
    <3> QED
      BY <1>2, <2>2, <2>3, <3>1
  <2>6. Start(k + 1) <= Len(Bytes(sent)) + 1
    BY <1>1, <2>3
  <2> QED
    BY <2>4, <2>5, <2>6
<1> QED
  BY <1>1, <1>2, <1>4, <1>5, <1>6 DEF n, LoopOK

\* Within the buffer the loop is at a message, not behind the last.
LEMMA ReadEnds ==
  ASSUME ReadOK, LoopOK, AtStart, i <= Len(tsbuf)
  PROVE  2 * Taken + 1 \in 1..Len(sent)
<1> SUFFICES ASSUME ~(2 * Taken + 1 <= Len(sent)) PROVE FALSE
  BY Bounds
<1>1. 2 * Taken + 1 = Len(sent) + 1
  BY Bounds DEF AtStart
<1>2. i = Len(Bytes(sent)) + 1
  BY <1>1, Bounds DEF AtStart
<1> QED
  BY <1>2, Bounds

LEMMA SameRead ==
  ASSUME ReadOK, UNCHANGED <<sent, tsbuf>>
  PROVE  /\ ReadOK' /\ (Whole' <=> Whole)
         /\ \A k : Start(k)' = Start(k)
         /\ \A m : FirstOdd(m)' = FirstOdd(m)
BY DEF ReadOK, Whole, Start, Pieces, FirstOdd

\* A byte skipped.
LEMMA SkipKeeps ==
  ASSUME FramingInv, Skip
  PROVE  FramingInv'
<1>1. ReadOK /\ LoopOK
  BY DEF FramingInv, Skip, Running
<1>2. /\ i' = i + 1 /\ bytes_to_skip' = bytes_to_skip - 1
      /\ messages' = messages /\ Taken' = Taken
      /\ result = "running" /\ result' = "running"
  BY DEF Skip, Running, Taken
<1>3. /\ ReadOK' /\ (\A k : Start(k)' = Start(k))
      /\ (\A m : FirstOdd(m)' = FirstOdd(m)) /\ Len(sent)' = Len(sent)
  BY <1>1, SameRead DEF Skip
<1>4. Skipping
  BY <1>1 DEF Skip, LoopOK, AtStart, InLost, InCut
<1>5. /\ 2 * Taken \in 1..Len(sent) /\ Taken \in Nat
      /\ i \in Nat \ {0}
  BY <1>1, <1>4, Bounds DEF Skipping
<1>6. /\ Start(2 * Taken) + HeaderLen <= Start(2 * Taken + 1)
      /\ HeaderLen \in Nat /\ HeaderLen > 2
  BY <1>1, <1>5, Bounds, FramingConstants
<1>7. /\ Start(2 * Taken) \in Nat /\ Start(2 * Taken + 1) \in Nat
      /\ Start(2 * Taken - 1) \in Nat
  <2>1. /\ 2 * Taken \in 1..(Len(sent) + 1)
        /\ 2 * Taken + 1 \in 1..(Len(sent) + 1)
        /\ 2 * Taken - 1 \in 1..(Len(sent) + 1)
    BY <1>1, <1>5, Bounds
  <2> QED
    BY <1>1, <2>1, Bounds
<1>8. Skipping' \/ InLost'
  <2>1. CASE i + 1 <= Start(2 * Taken)
    BY <1>2, <1>3, <1>4, <1>5, <1>7, <2>1 DEF Skipping
  <2>2. CASE i = Start(2 * Taken)
    <3>1. /\ Taken' > 0 /\ (2 * Taken <= Len(sent))' /\ i' = Start(2 * Taken) + 1
          /\ Start(2 * Taken)' = Start(2 * Taken)
          /\ Start(2 * Taken + 1)' = Start(2 * Taken + 1)
      BY <1>2, <1>3, <1>4, <2>2 DEF Skipping
    <3>2. bytes_to_skip = Start(2 * Taken) + 1 - i
      BY <1>4 DEF Skipping
    <3>3. bytes_to_skip' = 0
      BY <1>2, <1>7, <2>2, <3>2
    <3>4. Start(2 * Taken) + 1 < Start(2 * Taken + 1)
      BY <1>6, <1>7
    <3>5. Start(2 * Taken)' < i' /\ i' < Start(2 * Taken + 1)'
      BY <1>7, <3>1, <3>4
    <3> QED
      BY <3>1, <3>3, <3>5 DEF InLost
  <2> QED
    BY <1>4, <1>5, <1>7, <2>1, <2>2 DEF Skipping
<1>9. LoopOK'
  BY <1>1, <1>2, <1>3, <1>5, <1>8 DEF LoopOK
<1> QED
  BY <1>2, <1>3, <1>9 DEF FramingInv, FindsEverySecond

\* A byte without a marker: in a message that is not found, or cut.
LEMMA NoMarkerKeeps ==
  ASSUME FramingInv, NoMarker
  PROVE  FramingInv'
<1>1. ReadOK /\ LoopOK
  BY DEF FramingInv, NoMarker, Running
<1>2. /\ i' = i + 1 /\ bytes_to_skip' = bytes_to_skip /\ bytes_to_skip = 0
      /\ messages' = messages /\ Taken' = Taken
      /\ result = "running" /\ result' = "running"
      /\ i <= Len(tsbuf) /\ ~MarkerAt(i)
  BY DEF NoMarker, Running, Taken
<1>3. /\ ReadOK' /\ (\A k : Start(k)' = Start(k))
      /\ (\A m : FirstOdd(m)' = FirstOdd(m))
      /\ Len(sent)' = Len(sent) /\ Len(tsbuf)' = Len(tsbuf)
  BY <1>1, SameRead DEF NoMarker
<1>4. /\ Taken \in Nat /\ i \in Nat \ {0} /\ Len(sent) \in Nat \ {0}
      /\ Len(tsbuf) \in Nat /\ HeaderLen \in Nat /\ HeaderLen > MarkerLen + 2
      /\ MarkerLen \in Nat
      /\ \A k \in 1..(Len(sent) + 1) : Start(k) \in Nat \ {0}
  BY <1>1, Bounds, FramingConstants
<1>5. CASE AtStart
  <2>1. 2 * Taken + 1 \in 1..Len(sent)
    BY <1>1, <1>2, <1>4, <1>5, ReadEnds
  <2>2. ~(Start(2 * Taken + 1) + MarkerLen <= Len(tsbuf))
    BY <1>1, <1>2, <1>5, <2>1, MarkersAtStarts DEF AtStart
  <2>3. Start(2 * Taken + 1) \in Nat
    BY <1>4, <2>1
  <2>4. ~(2 * Taken + 1 < Len(sent))
    <3> SUFFICES ASSUME 2 * Taken + 1 < Len(sent) PROVE FALSE
      OBVIOUS
    <3>1. /\ Start(2 * Taken + 1 + 1) <= Len(tsbuf)
          /\ Start(2 * Taken + 1) + HeaderLen <= Start(2 * Taken + 1 + 1)
      BY <1>1, <2>1, Bounds
    <3>2. Start(2 * Taken + 1 + 1) \in Nat
      <4>1. 2 * Taken + 1 + 1 \in 1..(Len(sent) + 1)
        BY <1>4, <2>1
      <4> QED
        BY <1>4, <4>1
    <3> QED
      BY <1>4, <2>2, <2>3, <3>1, <3>2
  <2>5. Len(sent) = 2 * Taken + 1
    BY <1>4, <2>1, <2>4
  <2>6. InCut'
    BY <1>2, <1>3, <1>4, <1>5, <2>2, <2>3, <2>5 DEF AtStart, InCut
  <2> QED
    BY <1>1, <1>2, <1>3, <1>4, <2>6 DEF FramingInv, FindsEverySecond, LoopOK
<1>6. CASE InLost
  <2>1. 2 * Taken + 1 \in 1..(Len(sent) + 1) /\ 2 * Taken \in 1..(Len(sent) + 1)
    BY <1>4, <1>6 DEF InLost
  <2>2. Start(2 * Taken + 1) \in Nat /\ Start(2 * Taken) \in Nat
    BY <1>4, <2>1
  <2>3. InLost' \/ AtStart'
    BY <1>2, <1>3, <1>4, <1>6, <2>2 DEF InLost, AtStart
  <2> QED
    BY <1>1, <1>2, <1>3, <1>4, <2>3 DEF FramingInv, FindsEverySecond, LoopOK
<1>7. CASE InCut
  <2>1. Start(Len(sent)) \in Nat
    BY <1>4
  <2>2. InCut'
    BY <1>2, <1>3, <1>4, <1>7, <2>1 DEF InCut
  <2> QED
    BY <1>1, <1>2, <1>3, <1>4, <2>2 DEF FramingInv, FindsEverySecond, LoopOK
<1>8. ~Skipping
  <2>1. ASSUME Skipping PROVE FALSE
    <3>1. 2 * Taken \in 1..(Len(sent) + 1)
      BY <1>4, <2>1 DEF Skipping
    <3>2. Start(2 * Taken) \in Nat
      BY <1>4, <3>1
    <3> QED
      BY <1>2, <1>4, <2>1, <3>2 DEF Skipping
  <2> QED
    BY <2>1
<1> QED
  BY <1>1, <1>5, <1>6, <1>7, <1>8 DEF LoopOK

\* A marker is found only where a message at an odd position begins.
LEMMA AtMarkerFinds ==
  ASSUME ReadOK, LoopOK, AtMarker
  PROVE  /\ AtStart /\ 2 * Taken + 1 \in 1..Len(sent)
         /\ LengthRead => MessageLen = HeaderLen + sent[2 * Taken + 1]
<1>1. /\ i <= Len(tsbuf) /\ bytes_to_skip = 0 /\ MarkerAt(i)
  BY DEF AtMarker, Running
<1>2. /\ Taken \in Nat /\ i \in Nat \ {0} /\ Len(sent) \in Nat \ {0}
      /\ Len(tsbuf) \in Nat /\ Len(Bytes(sent)) \in Nat
      /\ Start(Len(sent) + 1) = Len(Bytes(sent)) + 1
      /\ Len(tsbuf) <= Len(Bytes(sent))
      /\ \A k \in 1..(Len(sent) + 1) : Start(k) \in Nat \ {0}
  BY Bounds
<1>3. ~Skipping
  <2>1. ASSUME Skipping PROVE FALSE
    <3>1. 2 * Taken \in 1..(Len(sent) + 1)
      BY <1>2, <2>1 DEF Skipping
    <3>2. Start(2 * Taken) \in Nat
      BY <1>2, <3>1
    <3> QED
      BY <1>1, <1>2, <2>1, <3>2 DEF Skipping
  <2> QED
    BY <2>1
<1>4. ~InLost
  <2>1. ASSUME InLost PROVE FALSE
    <3>1. 2 * Taken \in 1..Len(sent)
      BY <1>2, <2>1 DEF InLost
    <3>2. Start(2 * Taken) < i /\ i < Start(2 * Taken + 1)
      BY <2>1 DEF InLost
    <3> QED
      BY <1>1, <1>2, <3>1, <3>2, MarkersAtStarts
  <2> QED
    BY <2>1
<1>5. ~InCut
  <2>1. ASSUME InCut PROVE FALSE
    <3>1. Len(sent) \in 1..Len(sent)
      BY <1>2
    <3>2. Start(Len(sent)) < i
      BY <2>1 DEF InCut
    <3>3. i < Start(Len(sent) + 1)
      BY <1>1, <1>2
    <3> QED
      BY <1>1, <1>2, <3>1, <3>2, <3>3, MarkersAtStarts
  <2> QED
    BY <2>1
<1>6. AtStart
  BY <1>3, <1>4, <1>5 DEF LoopOK
<1>7. 2 * Taken + 1 \in 1..Len(sent)
  BY <1>1, <1>6, ReadEnds
<1>8. ASSUME LengthRead
      PROVE  MessageLen = HeaderLen + sent[2 * Taken + 1]
  <2> DEFINE k == 2 * Taken + 1
             b == sent[k]
  <2>1. i = Start(k) /\ k \in 1..Len(sent)
    BY <1>6, <1>7 DEF AtStart
  <2> HIDE DEF k
  <2>2. b \in 0..MaxBody /\ \A x \in 1..(HeaderLen + b) :
          i + x - 1 <= Len(tsbuf) => tsbuf[i + x - 1] = Message(b)[x]
    BY <2>1, Layout
  <2> HIDE DEF b
  <2>3. /\ MarkerLen + 1 \in 1..(HeaderLen + b)
        /\ MarkerLen + 2 \in 1..(HeaderLen + b)
    BY <2>2, Widths
  <2>4. /\ i + (MarkerLen + 1) - 1 = i + MarkerLen
        /\ i + (MarkerLen + 2) - 1 = i + MarkerLen + 1
        /\ i + MarkerLen <= Len(tsbuf) /\ i + MarkerLen + 1 <= Len(tsbuf)
    BY <1>2, <1>8, Widths DEF LengthRead
  <2>5. /\ tsbuf[i + MarkerLen] = Message(b)[MarkerLen + 1]
        /\ tsbuf[i + MarkerLen + 1] = Message(b)[MarkerLen + 2]
    BY <2>2, <2>3, <2>4
  <2>6. 256 * Message(b)[MarkerLen + 1] + Message(b)[MarkerLen + 2]
          = HeaderLen + b
    BY <2>2, MessageShape
  <2> QED
    BY <2>5, <2>6 DEF MessageLen, b, k
<1> QED
  BY <1>6, <1>7, <1>8

\* Any message but a last one that was cut is in the buffer to its end.
LEMMA WholeMessage ==
  ASSUME ReadOK, LoopOK, AtMarker, (2 * Taken + 1 < Len(sent)) \/ Whole
  PROVE  LengthRead /\ i + MessageLen - 1 <= Len(tsbuf)
<1> DEFINE k == 2 * Taken + 1
<1>1. i = Start(k) /\ k \in 1..Len(sent)
  BY AtMarkerFinds DEF AtStart
<1>2. LengthRead => MessageLen = HeaderLen + sent[k]
  BY AtMarkerFinds
<1>3. (k < Len(sent)) \/ Whole
  OBVIOUS
<1> HIDE DEF k
<1>4. /\ i \in Nat /\ Len(sent) \in Nat /\ Len(tsbuf) \in Nat
      /\ Start(Len(sent) + 1) = Len(Bytes(sent)) + 1
      /\ Start(k) + HeaderLen <= Start(k + 1)
      /\ k < Len(sent) => Start(k + 1) <= Len(tsbuf)
  BY <1>1, Bounds
<1>5. Start(k + 1) = Start(k) + HeaderLen + sent[k] /\ sent[k] \in 0..MaxBody
  BY <1>1, Layout
<1>6. Start(k + 1) \in Nat /\ sent[k] \in Nat
  BY <1>1, <1>4, <1>5, Widths
<1>7. Start(k + 1) <= Len(tsbuf) + 1
  <2>1. CASE k < Len(sent)
    BY <1>4, <1>6, <2>1
  <2>2. CASE Whole /\ k = Len(sent)
    BY <1>4, <2>2 DEF Whole
  <2> QED
    BY <1>1, <1>3, <1>4, <2>1, <2>2
<1>8. LengthRead
  BY <1>1, <1>4, <1>6, <1>7, Widths DEF LengthRead
<1>9. i + MessageLen - 1 = Start(k + 1) - 1
  <2>1. MessageLen = HeaderLen + sent[k]
    BY <1>2, <1>8
  <2>2. Start(k + 1) = i + HeaderLen + sent[k]
    BY <1>1, <1>5
  <2>3. i \in Nat /\ sent[k] \in Nat /\ HeaderLen \in Nat
    BY <1>4, <1>6, Widths
  <2>4. i + HeaderLen + sent[k] = i + MessageLen /\ MessageLen \in Nat
    BY <2>1, <2>3
  <2>5. i + MessageLen = Start(k + 1)
    BY <2>2, <2>4
  <2> DEFINE len == MessageLen
             next == Start(k + 1)
  <2>6. i + len = next /\ len \in Nat /\ next \in Nat
    BY <1>6, <2>4, <2>5
  <2> HIDE DEF len, next
  <2>7. i + len - 1 = next - 1
    BY <2>3, <2>6
  <2> QED
    BY <2>7 DEF len, next
<1> QED
  BY <1>4, <1>6, <1>7, <1>8, <1>9

\* A read is refused for its last message alone, cut and at an odd position.
LEMMA RejectKeeps ==
  ASSUME FramingInv, RejectRead
  PROVE  FramingInv'
<1>1. AtMarker /\ ReadOK /\ LoopOK
  BY DEF FramingInv, RejectRead, AtMarker, Running
<1>2. ~(LengthRead /\ i + MessageLen - 1 <= Len(tsbuf))
  <2>1. ASSUME LengthRead, i + MessageLen - 1 <= Len(tsbuf),
               i + MessageLen - 1 > Len(tsbuf)
        PROVE  FALSE
    <3>1. MessageLen \in Nat /\ i \in Nat /\ Len(tsbuf) \in Nat
      <4>1. 2 * Taken + 1 \in 1..Len(sent)
        BY <1>1, AtMarkerFinds
      <4>2. sent[2 * Taken + 1] \in 0..MaxBody
        BY <1>1, <4>1, Layout
      <4> QED
        BY <1>1, <2>1, <4>2, AtMarkerFinds, Bounds, Widths
    <3> QED
      BY <2>1, <3>1
  <2> QED
    BY <2>1 DEF RejectRead
<1>3. ~(2 * Taken + 1 < Len(sent)) /\ ~Whole
  BY <1>1, <1>2, WholeMessage
<1>4. Len(sent) % 2 = 1
  <2>1. 2 * Taken + 1 \in 1..Len(sent) /\ Taken \in Nat /\ Len(sent) \in Nat
    BY <1>1, AtMarkerFinds, Bounds
  <2>2. Len(sent) = 2 * Taken + 1
    BY <1>3, <2>1
  <2> QED
    BY <2>1, <2>2
<1>5. /\ ReadOK' /\ ~Whole' /\ (Len(sent) % 2)' = 1
  BY <1>1, <1>3, <1>4, SameRead DEF RejectRead
<1>6. result' \in {"BadInt16Read", "MessageLenTooBig"}
  BY DEF RejectRead
<1> QED
  BY <1>5, <1>6 DEF FramingInv, FindsEverySecond

-----------------------------------------------------------------------------
(* A message found.                                                        *)

LEMMA FirstOddNext ==
  ASSUME NEW m \in Nat, sent \in Seq(0..MaxBody), 2 * m + 1 \in 1..Len(sent)
  PROVE  /\ Append(FirstOdd(m), Message(sent[2 * m + 1])) = FirstOdd(m + 1)
         /\ Len(FirstOdd(m + 1)) = m + 1
<1> DEFINE Value(k) == Message(sent[2 * k - 1])
<1>1. ASSUME NEW k \in 1..(m + 1) PROVE Value(k) \in Seq(Nat)
  <2>1. 2 * k - 1 \in 1..Len(sent)
    BY LenProperties
  <2>2. sent[2 * k - 1] \in 0..MaxBody
    BY <2>1, ElementOfSeq
  <2> QED
    BY <2>2, MessageShape
<1>2. /\ FirstOdd(m) = [k \in 1..m |-> Value(k)]
      /\ FirstOdd(m + 1) = [k \in 1..(m + 1) |-> Value(k)]
  BY DEF FirstOdd
<1>3. Message(sent[2 * m + 1]) = Value(m + 1)
  <2>1. 2 * (m + 1) - 1 = 2 * m + 1
    OBVIOUS
  <2> QED
    BY <2>1
<1> HIDE DEF Value
<1>4. /\ FirstOdd(m) \in [1..m -> Seq(Nat)]
      /\ FirstOdd(m + 1) \in [1..(m + 1) -> Seq(Nat)]
  BY <1>1, <1>2
<1>5. FirstOdd(m) \in Seq(Seq(Nat)) /\ FirstOdd(m + 1) \in Seq(Seq(Nat))
  BY <1>4, SeqDef
<1>6. Len(FirstOdd(m)) = m /\ Len(FirstOdd(m + 1)) = m + 1
  BY <1>2
<1>7. Append(FirstOdd(m), Value(m + 1)) = FirstOdd(m + 1)
  <2> DEFINE a == Append(FirstOdd(m), Value(m + 1))
  <2>1. Value(m + 1) \in Seq(Nat)
    BY <1>1
  <2>2. /\ a \in Seq(Seq(Nat)) /\ Len(a) = m + 1
        /\ \A k \in 1..m : a[k] = FirstOdd(m)[k]
        /\ a[m + 1] = Value(m + 1)
    BY <1>5, <1>6, <2>1, AppendProperties
  <2>3. ASSUME NEW k \in 1..(m + 1) PROVE a[k] = FirstOdd(m + 1)[k]
    BY <1>2, <2>2
  <2> HIDE DEF a
  <2>4. a = FirstOdd(m + 1)
    BY <1>5, <1>6, <2>2, <2>3, SeqEqual
  <2> QED
    BY <2>4 DEF a
<1> QED
  BY <1>3, <1>6, <1>7

\* The message found is the one at the next odd position, and its last byte is the
\* one before the next message.
LEMMA MessageTaken ==
  ASSUME ReadOK, LoopOK, AtMarker, LengthRead,
         i + MessageLen - 1 <= Len(tsbuf)
  PROVE  /\ SubSeq(tsbuf, i, i + MessageLen - 1)
              = Message(sent[2 * Taken + 1])
         /\ i + MessageLen = Start(2 * Taken + 2)
<1> DEFINE k == 2 * Taken + 1
           b == sent[k]
<1>1. /\ i = Start(k) /\ k \in 1..Len(sent)
      /\ MessageLen = HeaderLen + b
  BY AtMarkerFinds DEF AtStart
<1>2. k + 1 = 2 * Taken + 2 /\ Taken \in Nat
  BY Bounds
<1> HIDE DEF k
<1>3. /\ i \in Nat \ {0} /\ Len(tsbuf) \in Nat
      /\ b \in 0..MaxBody /\ Start(k + 1) = Start(k) + HeaderLen + b
      /\ \A x \in 1..(HeaderLen + b) :
           i + x - 1 <= Len(tsbuf) => tsbuf[i + x - 1] = Message(b)[x]
  BY <1>1, Layout, Bounds
<1>4. b \in Nat /\ MessageLen \in Nat /\ MessageLen > 0
  BY <1>1, <1>3, Widths
<1>5. Message(b) \in Seq(Nat) /\ Len(Message(b)) = HeaderLen + b
  BY <1>3, MessageShape
<1> DEFINE last == i + MessageLen - 1
           s == SubSeq(tsbuf, i, last)
<1>6. /\ s \in Seq(Nat) /\ Len(s) = MessageLen
      /\ \A x \in 1..MessageLen : s[x] = tsbuf[i + x - 1]
  <2>1. last \in Nat /\ last <= Len(tsbuf) /\ i <= last /\ last - i + 1 = MessageLen
    BY <1>3, <1>4
  <2>2. ASSUME NEW x \in i..last PROVE tsbuf[x] \in Nat
    <3>1. x \in 1..Len(tsbuf)
      BY <1>3, <2>1
    <3> QED
      BY <3>1, ElementOfSeq DEF ReadOK
  <2> HIDE DEF last
  <2>3. /\ s \in Seq(Nat)
        /\ Len(s) = IF i <= last THEN last - i + 1 ELSE 0
        /\ \A x \in 1..(last - i + 1) : s[x] = tsbuf[i + x - 1]
    BY <1>3, <2>1, <2>2, SubSeqProperties
  <2> QED
    BY <2>1, <2>3
<1>7. ASSUME NEW x \in 1..MessageLen PROVE s[x] = Message(b)[x]
  <2>1. x \in 1..(HeaderLen + b) /\ i + x - 1 <= Len(tsbuf)
    BY <1>1, <1>3, <1>4
  <2>2. tsbuf[i + x - 1] = Message(b)[x]
    BY <1>3, <2>1
  <2> QED
    BY <1>6, <2>2
<1> HIDE DEF s
<1>8. s = Message(b)
  BY <1>1, <1>5, <1>6, <1>7, SeqEqual
<1>9. i + MessageLen = Start(k + 1)
  <2>1. Start(k + 1) = i + HeaderLen + b /\ MessageLen = HeaderLen + b
    BY <1>1, <1>3
  <2>2. i \in Nat /\ b \in Nat /\ HeaderLen \in Nat
    BY <1>3, <1>4, Widths
  <2>3. i + HeaderLen + b = i + MessageLen
    BY <2>1, <2>2
  <2> QED
    BY <2>1, <2>3
<1> QED
  BY <1>2, <1>8, <1>9 DEF s, last, b, k

\* After a message found the loop skips, or is done.
LEMMA TakeKeeps ==
  ASSUME FramingInv, TakeMessage
  PROVE  FramingInv'
<1>1. /\ AtMarker /\ LengthRead /\ ReadOK /\ LoopOK
      /\ i + MessageLen - 1 <= Len(tsbuf) /\ result = "running"
  BY DEF FramingInv, TakeMessage, AtMarker, Running
<1> DEFINE m == Taken
<1>2. /\ messages' = Append(messages, Message(sent[2 * m + 1]))
      /\ bytes_to_skip' = MessageLen /\ i' = i + 1
      /\ result' = IF i + MessageLen - 1 = Len(tsbuf) THEN "ok" ELSE result
      /\ UNCHANGED <<sent, tsbuf>>
  BY <1>1, MessageTaken DEF TakeMessage
<1>3. /\ ReadOK' /\ (Whole' <=> Whole) /\ (\A k : Start(k)' = Start(k))
      /\ (\A k : FirstOdd(k)' = FirstOdd(k)) /\ sent' = sent
      /\ Len(sent)' = Len(sent) /\ Len(tsbuf)' = Len(tsbuf)
  BY <1>1, <1>2, SameRead
<1>4. /\ i = Start(2 * m + 1) /\ 2 * m + 1 \in 1..Len(sent)
      /\ i + MessageLen = Start(2 * m + 2)
      /\ m \in Nat /\ i \in Nat \ {0} /\ Len(sent) \in Nat /\ Len(tsbuf) \in Nat
      /\ messages = FirstOdd(m)
  BY <1>1, AtMarkerFinds, MessageTaken, Bounds DEF AtStart, LoopOK
<1>5. messages' = FirstOdd(m + 1) /\ Taken' = m + 1
  <2>1. sent \in Seq(0..MaxBody)
    BY <1>1 DEF ReadOK
  <2>2. /\ Append(FirstOdd(m), Message(sent[2 * m + 1])) = FirstOdd(m + 1)
        /\ Len(FirstOdd(m + 1)) = m + 1
    <3> HIDE DEF m
    <3> QED
      BY <1>4, <2>1, FirstOddNext
  <2> QED
    BY <1>2, <1>4, <2>2 DEF Taken
<1> HIDE DEF m
<1>6. /\ 2 * m + 1 + 1 = 2 * m + 2
      /\ Start(2 * m + 2) \in Nat \ {0}
      /\ i + HeaderLen <= Start(2 * m + 2)
      /\ 2 * m + 1 < Len(sent) => Start(2 * m + 2) <= Len(tsbuf)
      /\ Start(Len(sent) + 1) = Len(Bytes(sent)) + 1
      /\ Len(tsbuf) <= Len(Bytes(sent)) /\ Len(Bytes(sent)) \in Nat
      /\ HeaderLen \in Nat /\ HeaderLen > 2
  <2>1. 2 * m + 1 + 1 = 2 * m + 2 /\ 2 * m + 2 \in 1..(Len(sent) + 1)
    BY <1>4
  <2>2. /\ i + HeaderLen <= Start(2 * m + 1 + 1)
        /\ 2 * m + 1 < Len(sent) => Start(2 * m + 1 + 1) <= Len(tsbuf)
    BY <1>1, <1>4, Bounds
  <2>3. Start(2 * m + 2) \in Nat \ {0}
    BY <1>1, <2>1, Bounds
  <2>4. /\ Start(Len(sent) + 1) = Len(Bytes(sent)) + 1
        /\ Len(tsbuf) <= Len(Bytes(sent)) /\ Len(Bytes(sent)) \in Nat
        /\ HeaderLen \in Nat /\ HeaderLen > 2
    BY <1>1, Bounds, Widths
  <2> QED
    BY <2>1, <2>2, <2>3, <2>4
<1>7. MessageLen = Start(2 * m + 2) - i /\ MessageLen \in Nat
  <2>1. MessageLen \in Nat
    <3>1. sent[2 * m + 1] \in 0..MaxBody
      BY <1>1, <1>4, Layout
    <3> QED
      BY <1>1, <3>1, AtMarkerFinds, Widths DEF m
  <2> QED
    BY <1>4, <1>6, <2>1
<1> DEFINE next == Start(2 * m + 2)
<1>8. /\ i + MessageLen = next /\ MessageLen = next - i /\ next \in Nat
      /\ i + HeaderLen <= next /\ i \in Nat \ {0} /\ Len(tsbuf) \in Nat
      /\ HeaderLen \in Nat /\ HeaderLen > 2 /\ MessageLen \in Nat
  <2>1. i + MessageLen = next
    BY <1>4
  <2>2. MessageLen = next - i /\ MessageLen \in Nat
    BY <1>7
  <2>3. next \in Nat /\ i + HeaderLen <= next /\ HeaderLen \in Nat /\ HeaderLen > 2
    BY <1>6
  <2>4. i \in Nat \ {0} /\ Len(tsbuf) \in Nat
    BY <1>4
  <2> QED
    BY <2>1, <2>2, <2>3, <2>4
<1>9. CASE i + MessageLen - 1 = Len(tsbuf)
  <2>1. Start(2 * m + 2) = Len(tsbuf) + 1
    <3> HIDE DEF next
    <3>1. next = Len(tsbuf) + 1
      BY <1>8, <1>9
    <3> QED
      BY <3>1 DEF next
  <2>2. Len(sent) = 2 * m + 1
    BY <1>4, <1>6, <2>1
  <2>3. (Len(sent) + 1) \div 2 = m + 1
    BY <1>4, <2>2
  <2>4. Odd(sent) = FirstOdd(m + 1)
    BY <2>3 DEF Odd, FirstOdd
  <2>5. result' = "ok" /\ messages' = Odd(sent')
    BY <1>2, <1>3, <1>5, <1>9, <2>4
  <2> QED
    BY <1>3, <2>5 DEF FramingInv, FindsEverySecond
<1>10. CASE i + MessageLen - 1 # Len(tsbuf)
  <2>1. Start(2 * m + 2) <= Len(tsbuf)
    <3> HIDE DEF next
    <3>1. next <= Len(tsbuf)
      BY <1>1, <1>8, <1>10
    <3> QED
      BY <3>1 DEF next
  <2>2. 2 * m + 2 <= Len(sent)
    <3>1. ASSUME Len(sent) = 2 * m + 1 PROVE FALSE
      <4>1. Start(2 * m + 2) = Len(Bytes(sent)) + 1
        BY <1>6, <3>1
      <4> QED
        BY <1>4, <1>6, <2>1, <4>1
    <3> QED
      BY <1>4, <3>1
  <2>3. /\ Start(2 * Taken - 1)' = Start(2 * m + 1)
        /\ Start(2 * Taken)' = Start(2 * m + 2)
    <3>1. 2 * (m + 1) - 1 = 2 * m + 1 /\ 2 * (m + 1) = 2 * m + 2
      BY <1>4
    <3>2. /\ (2 * Taken - 1)' = 2 * m + 1 /\ (2 * Taken)' = 2 * m + 2
      BY <1>5, <3>1
    <3> QED
      BY <1>2, <3>2 DEF Start, Pieces
  <2>4. /\ Taken' > 0 /\ (2 * Taken)' <= Len(sent)'
    BY <1>3, <1>4, <1>5, <2>2
  <2>5. /\ Start(2 * m + 1) < i' /\ i' <= Start(2 * m + 2)
        /\ bytes_to_skip' = Start(2 * m + 2) + 1 - i'
    <3>1. i' = i + 1 /\ bytes_to_skip' = MessageLen /\ Start(2 * m + 1) = i
      BY <1>2, <1>4
    <3> HIDE DEF next
    <3>2. i < i' /\ i' <= next /\ bytes_to_skip' = next + 1 - i'
      BY <1>8, <3>1
    <3> QED
      BY <3>1, <3>2 DEF next
  <2>6. Skipping'
    BY <2>3, <2>4, <2>5 DEF Skipping
  <2>7. LoopOK'
    BY <1>2, <1>3, <1>4, <1>5, <2>6 DEF LoopOK
  <2>8. result' = "running"
    BY <1>1, <1>2, <1>10
  <2> QED
    BY <1>3, <2>7, <2>8 DEF FramingInv, FindsEverySecond
<1> QED
  BY <1>9, <1>10

-----------------------------------------------------------------------------
(* The theorem.                                                            *)

\* At the end of a read of whole messages every second of them was found.
LEMMA EndKeeps ==
  ASSUME FramingInv, EndOfBuffer
  PROVE  FramingInv'
<1>1. ReadOK /\ LoopOK /\ i > Len(tsbuf)
  BY DEF FramingInv, EndOfBuffer
<1>2. /\ Taken \in Nat /\ i \in Nat \ {0} /\ Len(sent) \in Nat \ {0}
      /\ Len(tsbuf) \in Nat /\ Len(Bytes(sent)) \in Nat
      /\ Start(Len(sent) + 1) = Len(Bytes(sent)) + 1
      /\ HeaderLen \in Nat /\ HeaderLen > MarkerLen + 2 /\ MarkerLen \in Nat
      /\ \A k \in 1..(Len(sent) + 1) : Start(k) \in Nat \ {0}
      /\ \A k \in 1..Len(sent) :
           /\ Start(k) <= Len(tsbuf) /\ Start(k) + HeaderLen <= Start(k + 1)
           /\ Start(k + 1) <= Len(Bytes(sent)) + 1
  BY <1>1, Bounds, Widths
<1>3. ASSUME Whole PROVE Len(sent) = 2 * Taken
  <2>1. Len(tsbuf) = Len(Bytes(sent))
    BY <1>3 DEF Whole
  <2>2. CASE AtStart
    <3>1. ASSUME 2 * Taken + 1 <= Len(sent) PROVE FALSE
      <4>1. 2 * Taken + 1 \in 1..Len(sent)
        BY <1>2, <3>1
      <4>2. i <= Len(tsbuf)
        BY <1>2, <2>2, <4>1 DEF AtStart
      <4> QED
        BY <1>1, <1>2, <4>2
    <3> QED
      BY <1>2, <2>2, <3>1 DEF AtStart
  <2>3. ~Skipping
    <3>1. ASSUME Skipping PROVE FALSE
      <4>1. 2 * Taken \in 1..Len(sent) /\ 2 * Taken \in 1..(Len(sent) + 1)
        BY <1>2, <3>1 DEF Skipping
      <4>2. Start(2 * Taken) <= Len(tsbuf) /\ Start(2 * Taken) \in Nat
        BY <1>2, <4>1
      <4> QED
        BY <1>1, <1>2, <3>1, <4>2 DEF Skipping
    <3> QED
      BY <3>1
  <2>4. ~InLost
    <3>1. ASSUME InLost PROVE FALSE
      <4>1. /\ 2 * Taken \in 1..Len(sent) /\ 2 * Taken + 1 \in 1..(Len(sent) + 1)
        BY <1>2, <3>1 DEF InLost
      <4>2. /\ Start(2 * Taken + 1) <= Len(Bytes(sent)) + 1
            /\ Start(2 * Taken + 1) \in Nat
        BY <1>2, <4>1
      <4> QED
        BY <1>1, <1>2, <2>1, <3>1, <4>2 DEF InLost
    <3> QED
      BY <3>1
  <2>5. ~InCut
    <3>1. ASSUME InCut PROVE FALSE
      <4>1. /\ Len(sent) \in 1..Len(sent) /\ Len(sent) \in 1..(Len(sent) + 1)
        BY <1>2
      <4>2. /\ Start(Len(sent)) + HeaderLen <= Len(Bytes(sent)) + 1
            /\ Start(Len(sent)) \in Nat
        BY <1>2, <4>1
      <4> QED
        BY <1>2, <2>1, <3>1, <4>2 DEF InCut
    <3> QED
      BY <3>1
  <2> QED
    BY <1>1, <2>2, <2>3, <2>4, <2>5 DEF LoopOK
<1>4. ASSUME Whole PROVE messages = Odd(sent)
  <2>1. Len(sent) = 2 * Taken
    BY <1>3, <1>4
  <2>2. (Len(sent) + 1) \div 2 = Taken
    BY <1>2, <2>1
  <2> QED
    BY <1>1, <2>2 DEF LoopOK, Odd, FirstOdd
<1>5. /\ result' = "ok" /\ messages' = messages /\ sent' = sent
      /\ ReadOK' /\ (Whole' <=> Whole)
  BY <1>1, SameRead DEF EndOfBuffer
<1> QED
  BY <1>4, <1>5 DEF FramingInv, FindsEverySecond

LEMMA InitOK == FramingInit => FramingInv
<1> SUFFICES ASSUME FramingInit PROVE FramingInv
  OBVIOUS
<1>1. sent \in Seq(0..MaxBody) /\ Len(sent) \in Nat /\ Len(sent) > 0
  <2>1. PICK n \in 1..MaxMessages : sent \in [1..n -> 0..MaxBody]
    BY DEF FramingInit
  <2>2. n \in Nat /\ n > 0
    BY <2>1, FramingConstants
  <2>3. sent \in Seq(0..MaxBody)
    BY <2>1, <2>2, SeqDef
  <2>4. Len(sent) = n
    BY <2>1, <2>2, <2>3, LenProperties
  <2> QED
    BY <2>2, <2>3, <2>4
<1> DEFINE n == Len(sent)
           whole == Bytes(sent)
           all == Len(whole)
<1>2. whole \in Seq(Nat) /\ all \in Nat
  <2>1. Bytes(sent) \in Seq(Nat)
    BY <1>1, PiecesType, FlattenType
  <2> QED
    BY <2>1, LenProperties
<1>3. /\ Start(1) = 1 /\ Start(n + 1) = all + 1
      /\ Start(n) \in Nat \ {0}
      /\ Start(n + 1) = Start(n) + HeaderLen + sent[n]
      /\ sent[n] \in 0..MaxBody
  <2>1. n \in 1..n /\ n \in 1..(n + 1)
    BY <1>1
  <2> QED
    BY <1>1, <2>1, Starts
<1> DEFINE length == Len(Message(sent[n]))
<1>4. length = HeaderLen + sent[n]
  BY <1>3, MessageShape
<1>5. PICK cut \in 0..(length - 1) : tsbuf = SubSeq(whole, 1, all - cut)
  BY DEF FramingInit
<1> HIDE DEF length
<1> DEFINE end == all - cut
<1>6. /\ sent[n] \in Nat /\ cut \in Nat /\ end \in Nat
      /\ Start(n) <= end /\ end <= all
  <2>1. sent[n] \in Nat
    BY <1>3, Widths
  <2>2. length \in Nat /\ length = HeaderLen + sent[n]
    BY <1>4, <2>1, Widths
  <2>3. cut \in Nat /\ cut < HeaderLen + sent[n]
    BY <1>5, <2>2
  <2>4. all + 1 = Start(n) + HeaderLen + sent[n]
    BY <1>3
  <2> HIDE DEF all, n
  <2> QED
    BY <1>2, <1>3, <2>1, <2>3, <2>4, Widths
<1>7. /\ tsbuf \in Seq(Nat) /\ Len(tsbuf) = end
      /\ \A x \in 1..end : tsbuf[x] = whole[x]
  <2>1. \A x \in 1..end : whole[x] \in Nat
    <3>1. ASSUME NEW x \in 1..end PROVE whole[x] \in Nat
      <4>1. x \in 1..all
        BY <1>2, <1>6
      <4> QED
        BY <1>2, <4>1, ElementOfSeq
    <3> QED
      BY <3>1
  <2>2. tsbuf = SubSeq(whole, 1, end)
    BY <1>5
  <2> HIDE DEF whole, end
  <2>3. /\ tsbuf \in Seq(Nat)
        /\ Len(tsbuf) = IF 1 <= end THEN end - 1 + 1 ELSE 0
        /\ \A x \in 1..(end - 1 + 1) : tsbuf[x] = whole[1 + x - 1]
    BY <1>6, <2>1, <2>2, SubSeqProperties
  <2>4. end - 1 + 1 = end /\ (\A x \in 1..end : 1 + x - 1 = x)
    BY <1>6
  <2>5. Len(tsbuf) = end
    BY <1>6, <2>3
  <2>6. ASSUME NEW x \in 1..end PROVE tsbuf[x] = whole[x]
    BY <2>3, <2>4
  <2> QED
    BY <2>3, <2>5, <2>6
<1>8. ReadOK
  BY <1>1, <1>6, <1>7 DEF ReadOK
<1>9. /\ i = 1 /\ bytes_to_skip = 0 /\ messages = <<>> /\ result = "running"
  BY DEF FramingInit
<1>10. Taken = 0 /\ messages = FirstOdd(Taken)
  BY <1>9, NothingTaken DEF Taken
<1>11. AtStart
  BY <1>1, <1>3, <1>9, <1>10 DEF AtStart
<1>12. LoopOK
  BY <1>9, <1>10, <1>11 DEF LoopOK
<1> QED
  BY <1>8, <1>9, <1>12 DEF FramingInv, FindsEverySecond

\* The loop and what it has found keep the relation to the read.
LEMMA FramingInvariant == FramingSpec => []FramingInv
<1>1. FramingInv /\ [FramingNext]_framingVars => FramingInv'
  <2> SUFFICES ASSUME FramingInv, [FramingNext]_framingVars PROVE FramingInv'
    OBVIOUS
  <2>1. CASE Skip
    BY <2>1, SkipKeeps
  <2>2. CASE NoMarker
    BY <2>2, NoMarkerKeeps
  <2>3. CASE RejectRead
    BY <2>3, RejectKeeps
  <2>4. CASE TakeMessage
    BY <2>4, TakeKeeps
  <2>5. CASE EndOfBuffer
    BY <2>5, EndKeeps
  <2>6. CASE UNCHANGED framingVars
    <3>1. /\ i' = i /\ bytes_to_skip' = bytes_to_skip /\ messages' = messages
          /\ result' = result /\ sent' = sent /\ tsbuf' = tsbuf
      BY <2>6 DEF framingVars
    <3>2. FindsEverySecond'
      BY <3>1 DEF FramingInv, FindsEverySecond, Whole, Odd
    <3>3. ReadOK'
      BY <3>1 DEF FramingInv, ReadOK, Start, Pieces
    <3>4. result = "running" => LoopOK'
      BY <3>1 DEF FramingInv, LoopOK, AtStart, Skipping, InLost, InCut, Taken,
                  FirstOdd, Start, Pieces
    <3> QED
      BY <3>1, <3>2, <3>3, <3>4 DEF FramingInv
  <2> QED
    BY <2>1, <2>2, <2>3, <2>4, <2>5, <2>6 DEF FramingNext
<1> QED
  BY InitOK, <1>1, PTL DEF FramingSpec

\* The messages found are those at the first odd positions of the read.
FoundInv ==
  \E m \in Nat : messages = FirstOdd(m) /\ (m = 0 \/ 2 * m - 1 <= Len(sent))

\* No step finds anything but the message at the next odd position.
LEMMA FoundInvariant == FramingSpec => []FoundInv
<1>1. FramingInit => FoundInv
  BY NothingTaken DEF FramingInit, FoundInv
<1>2. FramingInv /\ FoundInv /\ [FramingNext]_framingVars => FoundInv'
  <2> SUFFICES ASSUME FramingInv, FoundInv, [FramingNext]_framingVars
               PROVE  FoundInv'
    OBVIOUS
  <2>1. ASSUME messages' = messages, sent' = sent PROVE FoundInv'
    BY <2>1 DEF FoundInv, FirstOdd
  <2>2. CASE TakeMessage
    <3> DEFINE m == Taken
    <3>1. /\ AtMarker /\ LengthRead /\ ReadOK /\ LoopOK
          /\ i + MessageLen - 1 <= Len(tsbuf) /\ sent' = sent
      BY <2>2 DEF FramingInv, TakeMessage, AtMarker, Running
    <3>2. messages' = Append(messages, Message(sent[2 * m + 1]))
      BY <2>2, <3>1, MessageTaken DEF TakeMessage
    <3>3. /\ 2 * m + 1 \in 1..Len(sent) /\ m \in Nat /\ messages = FirstOdd(m)
          /\ sent \in Seq(0..MaxBody) /\ Len(sent) \in Nat
      BY <3>1, AtMarkerFinds, Bounds DEF LoopOK, ReadOK
    <3> HIDE DEF m
    <3>4. messages' = FirstOdd(m + 1)
      BY <3>2, <3>3, FirstOddNext
    <3>5. m + 1 \in Nat /\ 2 * (m + 1) - 1 <= Len(sent)
      BY <3>3
    <3>6. FirstOdd(m + 1) = [k \in 1..(m + 1) |-> Message(sent'[2 * k - 1])]
      BY <3>1 DEF FirstOdd
    <3> QED
      BY <3>1, <3>4, <3>5, <3>6 DEF FoundInv, FirstOdd
  <2>3. CASE RejectRead
    BY <2>3 DEF RejectRead, FoundInv, FirstOdd
  <2>4. CASE Skip \/ NoMarker \/ EndOfBuffer \/ UNCHANGED framingVars
    BY <2>1, <2>4 DEF Skip, NoMarker, EndOfBuffer, framingVars
  <2> QED
    BY <2>2, <2>3, <2>4 DEF FramingNext
<1> QED
  BY <1>1, <1>2, FramingInvariant, PTL DEF FramingSpec

\* For every length of marker and any read, wherever it was cut, what the loop of
\* extract_messages_from_rec_data returns are messages of the read, whole, in order
\* and none twice; the first of a read of whole messages is among them, and an error
\* is returned only for a read that was cut.
THEOREM OnlyMessagesAreFound == FramingSpec => []MessagesOfTheRead
<1>1. FramingInv /\ FoundInv => MessagesOfTheRead
  <2> SUFFICES ASSUME FramingInv, FoundInv PROVE MessagesOfTheRead
    OBVIOUS
  <2>1. sent \in Seq(0..MaxBody) /\ Len(sent) \in Nat /\ Len(sent) > 0
        /\ DOMAIN sent = 1..Len(sent)
    BY DEF FramingInv, ReadOK
  <2>2. PICK m \in Nat : /\ messages = FirstOdd(m)
                         /\ m = 0 \/ 2 * m - 1 <= Len(sent)
    BY DEF FoundInv
  <2> DEFINE at == [k \in 1..m |-> 2 * k - 1]
  <2>3. /\ DOMAIN messages = 1..m
        /\ \A k \in 1..m : messages[k] = Message(sent[2 * k - 1])
    BY <2>2 DEF FirstOdd
  <2>4. at \in [DOMAIN messages -> DOMAIN sent]
    BY <2>1, <2>2, <2>3
  <2>5. /\ \A k \in DOMAIN messages : messages[k] = Message(sent[at[k]])
        /\ \A k, l \in DOMAIN messages : k < l => at[k] < at[l]
    BY <2>3
  <2>6. ASSUME result = "ok", Whole
        PROVE  messages # <<>> /\ messages[1] = Message(sent[1])
    <3>1. messages = Odd(sent)
      BY <2>6 DEF FramingInv, FindsEverySecond
    <3>2. 1 \in 1..((Len(sent) + 1) \div 2)
      BY <2>1
    <3>3. messages[1] = Message(sent[2 * 1 - 1]) /\ 1 \in DOMAIN messages
      BY <3>1, <3>2 DEF Odd
    <3> QED
      BY <3>3
  <2>7. result \notin {"running", "ok"} => ~Whole
    BY DEF FramingInv, FindsEverySecond
  <2> HIDE DEF at
  <2> QED
    BY <2>4, <2>5, <2>6, <2>7 DEF MessagesOfTheRead
<1> QED
  BY <1>1, FramingInvariant, FoundInvariant, PTL

=============================================================================
