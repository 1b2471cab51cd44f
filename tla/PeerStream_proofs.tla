--------------------------- MODULE PeerStream_proofs ---------------------------
(***************************************************************************)
(* Theorems about PeerStream: for every stream of messages, wherever the    *)
(* network cuts it and whenever the connection ends, the handler gets the   *)
(* messages of the peer in order and without delay, and the bitfield is     *)
(* what the peer has announced.                                             *)
(***************************************************************************)
EXTENDS PeerStream, FiniteSetTheorems, SequenceTheorems, TLAPS

-------------------------------------------------------------------------------
(* Numbers *)

\* Every set of numbers that is not empty has a least element.  An induction over the
\* messages of a stream is a look at the first one that is a counterexample.
LEMMA LeastNumber ==
  ASSUME NEW T \in SUBSET Nat, T # {}
  PROVE  \E x \in T : \A y \in T : x <= y
<1> DEFINE Below == {0..y : y \in T}
<1>1. Below \subseteq FiniteSubsetsOf(Nat)
  <2>1. \A y \in T : IsFiniteSet(0..y)
    BY FS_Interval
  <2> QED BY <2>1 DEF FiniteSubsetsOf
<1>2. PICK b \in Below : \A c \in Below : <<c, b>> \notin StrictSubsetOrdering(Nat)
  <2>1. Below # {}
    OBVIOUS
  <2> HIDE DEF Below
  <2> QED BY <1>1, <2>1, FS_StrictSubsetOrderingWellFounded, WFMin
<1>3. PICK x \in T : b = 0..x
  OBVIOUS
<1>4. ASSUME NEW y \in T, y < x
      PROVE  FALSE
  <2>1. <<0..y, 0..x>> \in StrictSubsetOrdering(Nat)
    BY <1>4 DEF StrictSubsetOrdering
  <2> QED BY <2>1, <1>2, <1>3
<1> QED BY <1>4

\* struct.unpack takes back what struct.pack has made of a number.
LEMMA WordRead ==
  ASSUME NEW n, Fits(n)
  PROVE  /\ Word(n) \in Seq(Byte)
         /\ Len(Word(n)) = 4
         /\ WordAt(Word(n)) = n
<1> DEFINE a == ((n \div 256) \div 256) \div 256
           b == ((n \div 256) \div 256) % 256
           c == (n \div 256) % 256
           d == n % 256
<1>1. n \in Nat
  BY DEF Fits
<1>2. a \in Byte /\ b \in Byte /\ c \in Byte /\ d \in Byte
  BY <1>1 DEF Fits, Byte
<1>3. ((a * 256 + b) * 256 + c) * 256 + d = n
  BY <1>1
<1> QED BY <1>2, <1>3 DEF Word, WordAt

\* Four bytes are those of a number if they are read as that number.
LEMMA WordWritten ==
  ASSUME NEW n, Fits(n), NEW s \in Seq(Byte), Len(s) = 4, WordAt(s) = n
  PROVE  s = Word(n)
<1> DEFINE a == s[1]
           b == s[2]
           c == s[3]
           d == s[4]
           top == a * 256 + b
           high == top * 256 + c
<1>1. a \in 0..255 /\ b \in 0..255 /\ c \in 0..255 /\ d \in 0..255
  <2>1. \A i \in 1..4 : s[i] \in Byte
    BY ElementOfSeq
  <2> QED BY <2>1 DEF Byte
<1>2. n = high * 256 + d
  BY DEF WordAt
<1>3. s = <<a, b, c, d>>
  OBVIOUS
<1> HIDE DEF a, b, c, d
<1>4. top \in Nat /\ top \div 256 = a /\ top % 256 = b
  BY <1>1
<1> HIDE DEF top
<1>5. high \in Nat /\ high \div 256 = top /\ high % 256 = c
  BY <1>1, <1>4
<1> HIDE DEF high
<1>6. n \div 256 = high /\ n % 256 = d
  BY <1>1, <1>2, <1>5
<1> QED BY <1>3, <1>4, <1>5, <1>6 DEF Word

\* What lies between two places of a sequence of bytes.
LEMMA Cut ==
  ASSUME NEW q \in Seq(Byte), NEW a \in Nat, NEW b \in Nat, a <= b, b <= Len(q)
  PROVE  /\ SubSeq(q, a + 1, b) \in Seq(Byte)
         /\ Len(SubSeq(q, a + 1, b)) = b - a
         /\ \A i \in 1..(b - a) : SubSeq(q, a + 1, b)[i] = q[a + i]
<1>1. Len(q) \in Nat
  OBVIOUS
<1>2. a + 1 \in Int /\ b \in Int
  OBVIOUS
<1>3. \A i \in (a + 1)..b : q[i] \in Byte
  <2> TAKE i \in (a + 1)..b
  <2>1. i \in 1..Len(q)
    BY <1>1
  <2> QED BY <2>1, ElementOfSeq
<1> DEFINE r == SubSeq(q, a + 1, b)
<1>4. /\ r \in Seq(Byte)
      /\ Len(r) = IF a + 1 <= b THEN b - (a + 1) + 1 ELSE 0
      /\ \A i \in 1..b - (a + 1) + 1 : r[i] = q[a + 1 + i - 1]
  BY <1>2, <1>3, SubSeqProperties
<1> HIDE DEF r
<1>5. Len(r) = b - a
  BY <1>4
<1>6. \A i \in 1..(b - a) : r[i] = q[a + i]
  <2> TAKE i \in 1..(b - a)
  <2>1. i \in 1..b - (a + 1) + 1 /\ a + 1 + i - 1 = a + i
    OBVIOUS
  <2> QED BY <1>4, <2>1
<1> QED BY <1>4, <1>5, <1>6 DEF r

-------------------------------------------------------------------------------
(* Messages as bytes *)

\* The bytes of a message: their number, as the first four of them say it, and then its id
\* and its payload.
LEMMA BuildBytes ==
  ASSUME NEW m \in Message
  PROVE  /\ Build(m) \in Seq(Byte)
         /\ m = KeepAlive => Len(Build(m)) = 4
         /\ m # KeepAlive =>
              /\ m \in [id : Byte, payload : Seq(Byte)]
              /\ Len(Build(m)) = 5 + Len(m.payload)
              /\ Build(m)[5] = m.id
              /\ \A i \in 1..Len(m.payload) : Build(m)[5 + i] = m.payload[i]
         /\ Len(Build(m)) >= 4
         /\ WordAt(Build(m)) = Len(Build(m)) - 4
<1>1. CASE m = KeepAlive
  <2>1. Fits(0)
    BY DEF Fits
  <2>2. Build(m) = Word(0)
    BY <1>1 DEF Build
  <2>3. Word(0) \in Seq(Byte) /\ Len(Word(0)) = 4 /\ WordAt(Word(0)) = 0
    BY <2>1, WordRead
  <2>4. Build(m) \in Seq(Byte) /\ Len(Build(m)) = 4 /\ WordAt(Build(m)) = 0
    BY <2>2, <2>3
  <2>5. WordAt(Build(m)) = Len(Build(m)) - 4 /\ Len(Build(m)) >= 4
    BY <2>4
  <2> QED BY <1>1, <2>4, <2>5, Zenon
<1>2. CASE m # KeepAlive
  <2>1. m \in [id : Byte, payload : Seq(Byte)] /\ Fits(1 + Len(m.payload))
    BY <1>2 DEF Message
  <2> DEFINE w == Word(1 + Len(m.payload))
  <2>2. w \in Seq(Byte) /\ Len(w) = 4 /\ WordAt(w) = 1 + Len(m.payload)
    BY <2>1, WordRead
  <2>3. Build(m) = w \o <<m.id>> \o m.payload
    BY <1>2 DEF Build
  <2> HIDE DEF w
  <2>4. m.id \in Byte /\ <<m.id>> \in Seq(Byte) /\ Len(<<m.id>>) = 1
    BY <2>1
  <2> DEFINE h == w \o <<m.id>>
  <2>5. h \in Seq(Byte) /\ Len(h) = 5 /\ \A i \in 1..5 : h[i] = IF i <= 4 THEN w[i] ELSE m.id
    <3>1. /\ h \in Seq(Byte)
          /\ Len(h) = Len(w) + Len(<<m.id>>)
          /\ \A i \in 1..Len(w) + Len(<<m.id>>) : h[i] = IF i <= Len(w) THEN w[i] ELSE <<m.id>>[i - Len(w)]
      BY <2>2, <2>4, ConcatProperties
    <3> QED BY <2>2, <2>4, <3>1
  <2> HIDE DEF h
  <2>6. m.payload \in Seq(Byte) /\ Len(m.payload) \in Nat
    BY <2>1
  <2>7. /\ Build(m) \in Seq(Byte) /\ Len(Build(m)) = 5 + Len(m.payload)
        /\ \A i \in 1..(5 + Len(m.payload)) :
             Build(m)[i] = IF i <= 5 THEN h[i] ELSE m.payload[i - 5]
    <3>1. Build(m) = h \o m.payload
      BY <2>3 DEF h
    <3>2. /\ h \o m.payload \in Seq(Byte)
          /\ Len(h \o m.payload) = Len(h) + Len(m.payload)
          /\ \A i \in 1..Len(h) + Len(m.payload) :
               (h \o m.payload)[i] = IF i <= Len(h) THEN h[i] ELSE m.payload[i - Len(h)]
      BY <2>5, <2>6, ConcatProperties
    <3> QED BY <2>5, <3>1, <3>2
  <2>8. \A i \in 1..4 : Build(m)[i] = w[i]
    <3> TAKE i \in 1..4
    <3>1. i \in 1..5 /\ i \in 1..(5 + Len(m.payload)) /\ i <= 4 /\ i <= 5
      BY <2>6
    <3> QED BY <2>5, <2>7, <3>1
  <2>9. WordAt(Build(m)) = Len(Build(m)) - 4
    BY <2>2, <2>6, <2>7, <2>8 DEF WordAt
  <2>10. Build(m)[5] = m.id
    <3>1. 5 \in 1..(5 + Len(m.payload))
      BY <2>6
    <3> QED BY <2>5, <2>7, <3>1
  <2>11. \A i \in 1..Len(m.payload) : Build(m)[5 + i] = m.payload[i]
    <3> TAKE i \in 1..Len(m.payload)
    <3>1. 5 + i \in 1..(5 + Len(m.payload)) /\ ~(5 + i <= 5) /\ (5 + i) - 5 = i
      BY <2>6
    <3> QED BY <2>7, <3>1
  <2> QED BY <1>2, <2>1, <2>6, <2>7, <2>9, <2>10, <2>11
<1> QED BY <1>1, <1>2

\* The parts of a stream.
LEMMA FramedParts ==
  ASSUME NEW s, Framed(s)
  PROVE  /\ s.messages \in Seq(Message) /\ Len(s.messages) \in Nat
         /\ \A k \in 1..Len(s.messages) : s.messages[k] \in Message
         /\ \A k \in 1..(Len(s.messages) + 1) : s.starts[k] \in Nat
         /\ s.bytes \in Seq(Byte) /\ Len(s.bytes) \in Nat
         /\ s.starts[1] = HandshakeLen
         /\ s.starts[Len(s.messages) + 1] = Len(s.bytes)
         /\ \A k \in 1..Len(s.messages) :
              SubSeq(s.bytes, s.starts[k] + 1, s.starts[k + 1]) = Build(s.messages[k])
<1>1. /\ s.messages \in Seq(Message) /\ s.bytes \in Seq(Byte) /\ s.starts \in Seq(Nat)
      /\ Len(s.starts) = Len(s.messages) + 1
  BY DEF Framed
<1>2. Len(s.messages) \in Nat /\ Len(s.bytes) \in Nat
  BY <1>1
<1>3. \A k \in 1..Len(s.messages) : s.messages[k] \in Message
  BY <1>1, ElementOfSeq
<1>4. \A k \in 1..(Len(s.messages) + 1) : s.starts[k] \in Nat
  BY <1>1, ElementOfSeq
<1> QED BY <1>1, <1>2, <1>3, <1>4 DEF Framed

\* Where the messages of a stream begin: each one behind the one before, and the last one
\* ends with the stream.
LEMMA StartsGrow ==
  ASSUME NEW s, Framed(s), NEW i \in 1..(Len(s.messages) + 1), NEW j \in i..(Len(s.messages) + 1)
  PROVE  s.starts[i] <= s.starts[j] /\ s.starts[j] <= Len(s.bytes)
<1> DEFINE n == Len(s.messages)
<1>1. n \in Nat /\ \A k \in 1..(n + 1) : s.starts[k] \in Nat
  BY FramedParts
<1>2. \A k \in 1..n : s.starts[k] < s.starts[k + 1]
  <2> TAKE k \in 1..n
  <2>1. s.messages[k] \in Message
    BY FramedParts
  <2>2. Len(SubSeq(s.bytes, s.starts[k] + 1, s.starts[k + 1])) >= 4
    BY <2>1, BuildBytes, FramedParts
  <2> QED BY <1>1, <2>2
<1> HIDE DEF n
<1>3. ASSUME NEW a \in 1..(n + 1), NEW b \in a..(n + 1)
      PROVE  s.starts[a] <= s.starts[b]
  <2> DEFINE T == {x \in a..(n + 1) : s.starts[x] < s.starts[a]}
  <2>1. SUFFICES ASSUME T # {} PROVE FALSE
    BY <1>1
  <2>2. PICK x \in T : \A y \in T : x <= y
    <3>1. T \in SUBSET Nat
      BY <1>1
    <3> QED BY <2>1, <3>1, LeastNumber
  <2>3. x \in a..(n + 1) /\ s.starts[x] < s.starts[a] /\ x # a
    BY <1>1, <2>2
  <2>4. x - 1 \in 1..n /\ x - 1 \in a..(n + 1) /\ (x - 1) + 1 = x
    BY <1>1, <2>3
  <2>5. s.starts[x - 1] >= s.starts[a]
    BY <1>1, <2>2, <2>4
  <2>6. s.starts[x - 1] < s.starts[x]
    BY <1>2, <2>4
  <2> QED BY <1>1, <2>3, <2>4, <2>5, <2>6
<1>4. s.starts[n + 1] = Len(s.bytes)
  BY FramedParts DEF n
<1>5. n + 1 \in j..(n + 1) /\ j \in 1..(n + 1) /\ i \in 1..(n + 1)
  BY <1>1 DEF n
<1> QED BY <1>3, <1>4, <1>5 DEF n

\* The bytes of the n-th message are those of Build.
LEMMA MessageBytes ==
  ASSUME NEW s, Framed(s), NEW n \in 1..Len(s.messages)
  PROVE  /\ s.starts[n + 1] = s.starts[n] + Len(Build(s.messages[n]))
         /\ \A i \in 1..Len(Build(s.messages[n])) :
              Build(s.messages[n])[i] = s.bytes[s.starts[n] + i]
<1> DEFINE B == Build(s.messages[n])
           o == s.starts[n]
           e == s.starts[n + 1]
<1>1. /\ n \in 1..(Len(s.messages) + 1) /\ n + 1 \in 1..(Len(s.messages) + 1)
      /\ n + 1 \in n..(Len(s.messages) + 1) /\ n + 1 \in (n + 1)..(Len(s.messages) + 1)
  BY FramedParts
<1>2. B \in Seq(Byte) /\ Len(B) \in Nat
  BY FramedParts, BuildBytes
<1>3. o \in Nat /\ e \in Nat /\ s.bytes \in Seq(Byte)
  BY <1>1, FramedParts
<1>4. o <= e
  BY <1>1, StartsGrow
<1>5. e <= Len(s.bytes)
  BY <1>1, StartsGrow
<1>6. SubSeq(s.bytes, o + 1, e) = B
  BY FramedParts
<1> HIDE DEF B, o, e
<1>7. Len(B) = e - o /\ \A i \in 1..(e - o) : B[i] = s.bytes[o + i]
  BY <1>3, <1>4, <1>5, <1>6, Cut
<1> QED BY <1>2, <1>3, <1>7 DEF B, o, e

\* parse_message on bytes that begin like those of message m.
LEMMA ParseMessage ==
  ASSUME NEW m \in Message, NEW data \in Seq(Byte),
         \A i \in 1..Len(Build(m)) : i <= Len(data) => data[i] = Build(m)[i]
  PROVE  /\ Len(data) < Len(Build(m)) => Consumed(data) = 0
         /\ Len(Build(m)) <= Len(data) => Consumed(data) = Len(Build(m)) /\ Parsed(data) = m
<1> DEFINE B == Build(m)
<1>1. /\ B \in Seq(Byte)
      /\ m = KeepAlive => Len(B) = 4
      /\ m # KeepAlive =>
           /\ m \in [id : Byte, payload : Seq(Byte)]
           /\ Len(B) = 5 + Len(m.payload)
           /\ B[5] = m.id
           /\ \A i \in 1..Len(m.payload) : B[5 + i] = m.payload[i]
      /\ Len(B) >= 4
      /\ WordAt(B) = Len(B) - 4
  BY BuildBytes
<1>2. Len(B) \in Nat /\ Len(data) \in Nat
  BY <1>1
<1>3. \A i \in 1..Len(B) : i <= Len(data) => data[i] = B[i]
  OBVIOUS
<1> HIDE DEF B
<1>4. ASSUME 4 <= Len(data)
      PROVE  WordAt(data) = Len(B) - 4
  <2>1. \A i \in 1..4 : i \in 1..Len(B) /\ i <= Len(data)
    BY <1>1, <1>2, <1>4
  <2>2. data[1] = B[1] /\ data[2] = B[2] /\ data[3] = B[3] /\ data[4] = B[4]
    BY <1>3, <2>1
  <2> QED BY <1>1, <2>2 DEF WordAt
<1>5. CASE Len(data) < Len(B)
  <2>1. Consumed(data) = 0
    <3>1. CASE Len(data) < 4
      BY <3>1 DEF Consumed
    <3>2. CASE 4 <= Len(data)
      <4>1. Len(data) < 4 + WordAt(data)
        BY <1>2, <1>4, <1>5, <3>2
      <4> QED BY <4>1 DEF Consumed
    <3> QED BY <1>2, <3>1, <3>2
  <2> QED BY <1>2, <1>5, <2>1 DEF B
<1>6. CASE Len(B) <= Len(data)
  <2>1. WordAt(data) = Len(B) - 4
    BY <1>1, <1>2, <1>4, <1>6
  <2>2. Consumed(data) = Len(B)
    <3>1. ~(Len(data) < 4) /\ ~(Len(data) < 4 + WordAt(data)) /\ 4 + WordAt(data) = Len(B)
      BY <1>1, <1>2, <1>6, <2>1
    <3> QED BY <3>1 DEF Consumed
  <2>3. CASE m = KeepAlive
    <3>1. WordAt(data) = 0
      BY <1>1, <2>1, <2>3
    <3>2. Parsed(data) = m
      BY <2>3, <3>1 DEF Parsed
    <3> QED BY <1>2, <1>6, <2>2, <3>2 DEF B
  <2>4. CASE m # KeepAlive
    <3>1. m.payload \in Seq(Byte) /\ m = [id |-> m.id, payload |-> m.payload]
      BY <1>1, <2>4
    <3>2. Len(m.payload) \in Nat /\ Len(B) = 5 + Len(m.payload)
      BY <1>1, <2>4, <3>1
    <3>3. data[5] = m.id
      <4>1. 5 \in 1..Len(B) /\ 5 <= Len(data)
        BY <1>2, <1>6, <3>2
      <4> QED BY <1>1, <1>3, <2>4, <4>1
    <3> DEFINE q == SubSeq(data, 5 + 1, Len(B))
    <3>4. q \in Seq(Byte) /\ Len(q) = Len(B) - 5 /\ \A i \in 1..(Len(B) - 5) : q[i] = data[5 + i]
      <4>1. 5 \in Nat /\ 5 <= Len(B)
        BY <3>2
      <4> QED BY <1>2, <1>6, <4>1, Cut
    <3>5. 5 + 1 = 6
      OBVIOUS
    <3>6. SubSeq(data, 6, Len(B)) = q
      BY <3>5
    <3> HIDE DEF q
    <3>7. \A i \in 1..Len(q) : q[i] = m.payload[i]
      <4> TAKE i \in 1..Len(q)
      <4>1. /\ i \in 1..(Len(B) - 5) /\ i \in 1..Len(m.payload)
            /\ 5 + i \in 1..Len(B) /\ 5 + i <= Len(data)
        BY <1>2, <1>6, <3>2, <3>4
      <4> QED BY <1>1, <1>3, <2>4, <3>4, <4>1
    <3>8. Len(q) = Len(m.payload)
      BY <3>2, <3>4
    <3>9. q = m.payload
      BY <3>1, <3>4, <3>7, <3>8, SeqEqual
    <3>10. WordAt(data) # 0
      BY <2>1, <3>2
    <3>11. Parsed(data) = [id |-> m.id, payload |-> m.payload]
      BY <2>2, <3>3, <3>6, <3>9, <3>10 DEF Parsed
    <3> QED BY <1>2, <1>6, <2>2, <3>1, <3>11 DEF B
  <2> QED BY <2>3, <2>4
<1> QED BY <1>2, <1>5, <1>6

\* What parse_message makes of a buffer that begins where message n + 1 does: nothing if the
\* message is not there as a whole, ...
LEMMA NoMessage ==
  ASSUME NEW s, Framed(s), NEW n \in 0..Len(s.messages),
         NEW t \in Nat, s.starts[n + 1] <= t, t <= Len(s.bytes),
         n = Len(s.messages) \/ t < s.starts[n + 2]
  PROVE  Consumed(SubSeq(s.bytes, s.starts[n + 1] + 1, t)) = 0
<1> DEFINE o == s.starts[n + 1]
           data == SubSeq(s.bytes, o + 1, t)
<1>1. n \in Nat /\ n + 1 \in 1..(Len(s.messages) + 1) /\ o \in Nat /\ s.bytes \in Seq(Byte)
  BY FramedParts
<1>2. data \in Seq(Byte) /\ Len(data) = t - o /\ \A i \in 1..(t - o) : data[i] = s.bytes[o + i]
  BY <1>1, Cut
<1>3. CASE n = Len(s.messages)
  <2>1. o = Len(s.bytes)
    BY <1>3, FramedParts
  <2>2. Len(data) = 0
    BY <1>1, <1>2, <2>1, FramedParts
  <2> HIDE DEF data
  <2>3. Len(data) < 4
    BY <2>2
  <2> QED BY <2>3 DEF Consumed, data
<1>4. CASE n # Len(s.messages)
  <2>1. n + 1 \in 1..Len(s.messages) /\ (n + 1) + 1 = n + 2
    BY <1>4, FramedParts
  <2> DEFINE B == Build(s.messages[n + 1])
  <2>2. s.messages[n + 1] \in Message
    BY <2>1, FramedParts
  <2>3. s.starts[n + 2] = o + Len(B) /\ \A i \in 1..Len(B) : B[i] = s.bytes[o + i]
    BY <2>1, MessageBytes
  <2>4. Len(B) \in Nat
    BY <2>2, BuildBytes
  <2> HIDE DEF B, data, o
  <2>5. \A i \in 1..Len(B) : i <= Len(data) => data[i] = B[i]
    <3> TAKE i \in 1..Len(B)
    <3> HAVE i <= Len(data)
    <3>1. i \in 1..(t - o)
      BY <1>1, <1>2, <2>4
    <3> QED BY <1>2, <2>3, <3>1
  <2>6. Len(data) < Len(B)
    BY <1>1, <1>2, <1>4, <2>3, <2>4
  <2>7. Consumed(data) = 0
    BY <1>2, <2>2, <2>5, <2>6, ParseMessage DEF B
  <2> QED BY <2>7 DEF data, o
<1> QED BY <1>3, <1>4

\* ... and that message and the rest if it is.
LEMMA WholeMessage ==
  ASSUME NEW s, Framed(s), NEW n \in 0..(Len(s.messages) - 1),
         NEW t \in Nat, s.starts[n + 2] <= t, t <= Len(s.bytes),
         NEW data, data = SubSeq(s.bytes, s.starts[n + 1] + 1, t)
  PROVE  /\ Consumed(data) > 0
         /\ Parsed(data) = s.messages[n + 1]
         /\ SubSeq(data, Consumed(data) + 1, Len(data)) = SubSeq(s.bytes, s.starts[n + 2] + 1, t)
<1> DEFINE o == s.starts[n + 1]
           e == s.starts[n + 2]
           B == Build(s.messages[n + 1])
<1>1. /\ n \in Nat /\ n + 1 \in 1..Len(s.messages) /\ (n + 1) + 1 = n + 2
      /\ n + 1 \in 1..(Len(s.messages) + 1) /\ n + 2 \in 1..(Len(s.messages) + 1)
      /\ o \in Nat /\ e \in Nat /\ s.bytes \in Seq(Byte)
  BY FramedParts
<1>2. s.messages[n + 1] \in Message
  BY <1>1, FramedParts
<1>3. e = o + Len(B) /\ \A i \in 1..Len(B) : B[i] = s.bytes[o + i]
  BY <1>1, MessageBytes
<1>4. Len(B) \in Nat /\ Len(B) >= 4
  BY <1>2, BuildBytes
<1>5. o <= t /\ data = SubSeq(s.bytes, o + 1, t)
  BY <1>1, <1>3, <1>4
<1>6. data \in Seq(Byte) /\ Len(data) = t - o /\ \A i \in 1..(t - o) : data[i] = s.bytes[o + i]
  <2> HIDE DEF o, e, B
  <2>1. /\ SubSeq(s.bytes, o + 1, t) \in Seq(Byte)
        /\ Len(SubSeq(s.bytes, o + 1, t)) = t - o
        /\ \A i \in 1..(t - o) : SubSeq(s.bytes, o + 1, t)[i] = s.bytes[o + i]
    BY <1>1, <1>5, Cut
  <2> QED BY <1>5, <2>1
<1> HIDE DEF B
<1>7. \A i \in 1..Len(B) : i <= Len(data) => data[i] = B[i]
  <2> TAKE i \in 1..Len(B)
  <2> HAVE i <= Len(data)
  <2>1. i \in 1..(t - o)
    BY <1>1, <1>4, <1>6
  <2> QED BY <1>3, <1>6, <2>1
<1>8. Len(B) <= Len(data)
  BY <1>1, <1>3, <1>4, <1>6
<1>9. Consumed(data) = Len(B) /\ Parsed(data) = s.messages[n + 1]
  BY <1>2, <1>6, <1>7, <1>8, ParseMessage DEF B
<1> DEFINE q == SubSeq(data, Len(B) + 1, Len(data))
           r == SubSeq(s.bytes, e + 1, t)
<1>10. q \in Seq(Byte) /\ Len(q) = Len(data) - Len(B)
       /\ \A i \in 1..(Len(data) - Len(B)) : q[i] = data[Len(B) + i]
  <2>1. Len(data) \in Nat /\ Len(data) <= Len(data)
    BY <1>6
  <2> QED BY <1>4, <1>6, <1>8, <2>1, Cut
<1>11. r \in Seq(Byte) /\ Len(r) = t - e /\ \A i \in 1..(t - e) : r[i] = s.bytes[e + i]
  BY <1>1, Cut
<1> HIDE DEF q, r, o, e
<1>12. Len(q) = Len(r)
  BY <1>1, <1>3, <1>4, <1>6, <1>10, <1>11
<1>13. \A i \in 1..Len(q) : q[i] = r[i]
  <2> TAKE i \in 1..Len(q)
  <2>1. i \in 1..(Len(data) - Len(B)) /\ i \in 1..(t - e)
    BY <1>10, <1>11, <1>12
  <2>2. Len(B) + i \in 1..(t - o) /\ o + (Len(B) + i) = e + i
    BY <1>1, <1>3, <1>4, <2>1
  <2> QED BY <1>6, <1>10, <1>11, <2>1, <2>2
<1>14. q = r
  BY <1>10, <1>11, <1>12, <1>13, SeqEqual
<1>15. Consumed(data) > 0
  BY <1>4, <1>9
<1> QED BY <1>9, <1>14, <1>15 DEF q, r, e
-------------------------------------------------------------------------------
(* The inductive invariant *)

\* The client has taken the first n messages out of the buffer, which begins with the next one.
Position(n) ==
  /\ n \in 0..Len(sent.messages)
  /\ sent.starts[n + 1] <= taken
  /\ buffer = SubSeq(sent.bytes, sent.starts[n + 1] + 1, taken)
  /\ Len(delivered) = Cardinality(Heard(sent.messages, n))

\* From the handshake to the end of read_loop the buffer begins with a message; before,
\* nothing is buffered or delivered; and a read is awaited when there is nothing to parse.
Positioned ==
  /\ loop \in {"read", "process", "end"} => \E n \in 0..Len(sent.messages) : Position(n)
  /\ loop \in {"off", "shake", "failed", "raised"} => buffer = <<>> /\ delivered = <<>>
  /\ loop = "read" => Consumed(buffer) = 0

\* The last bitfield.
LastBitfield(k) ==
  /\ delivered[k].id = Bitfield
  /\ \A l \in (k + 1)..Len(delivered) : delivered[l].id # Bitfield

\* A HAVE for piece i has come since the bitfield that is the k-th message.
HadSince(k, i) ==
  \E l \in (k + 1)..Len(delivered) :
    delivered[l].id = Have /\ delivered[l].payload = Word(i - 1)

\* There is no bitfield, or the last one together with what came after it.
BitsKnown ==
  \/ bits = <<>> /\ \A k \in 1..Len(delivered) : delivered[k].id # Bitfield
  \/ \E k \in 1..Len(delivered) :
       /\ LastBitfield(k)
       /\ Len(bits) = Shorter(NumPieces, 8 * Len(delivered[k].payload))
       /\ \A i \in 1..Len(bits) : bits[i] <=> (Bit(delivered[k].payload, i) \/ HadSince(k, i))

StreamInv == StreamTypeOK /\ Positioned /\ DeliveredInOrder /\ BitsKnown

\* The stream that is read is one of Streams, or none.
LEMMA SentFramed ==
  ASSUME StreamTypeOK
  PROVE  Framed(sent)
<1>1. Framed(Nothing)
  <2> DEFINE z == [i \in 1..HandshakeLen |-> 0]
  <2>1. HandshakeLen \in Nat
    BY SizesAssumption
  <2>2. z \in Seq(Byte) /\ Len(z) = HandshakeLen
    BY <2>1 DEF Byte
  <2>3. <<>> \in Seq(Message) /\ Len(<<>>) = 0
    OBVIOUS
  <2>4. <<HandshakeLen>> \in Seq(Nat) /\ Len(<<HandshakeLen>>) = 1 /\ <<HandshakeLen>>[1] = HandshakeLen
    BY <2>1
  <2>5. "same" \in Greetings
    BY DEF Greetings
  <2>6. Nothing = [greeting |-> "same", messages |-> <<>>, starts |-> <<HandshakeLen>>, bytes |-> z]
    BY DEF Nothing
  <2> HIDE DEF z
  <2> QED BY <2>2, <2>3, <2>4, <2>5, <2>6 DEF Framed
<1> QED BY <1>1, StreamsAssumption DEF StreamTypeOK

\* How the number of messages for the handler grows along the stream.
LEMMA HeardGrows ==
  ASSUME NEW all, NEW n \in Nat
  PROVE  /\ IsFiniteSet(Heard(all, n)) /\ Cardinality(Heard(all, n)) \in Nat
         /\ n = 0 => Cardinality(Heard(all, n)) = 0
         /\ all[n + 1] = KeepAlive => Heard(all, n + 1) = Heard(all, n)
         /\ all[n + 1] # KeepAlive =>
              Cardinality(Heard(all, n + 1)) = Cardinality(Heard(all, n)) + 1
         /\ \A j \in Nat : n <= j => Cardinality(Heard(all, n)) <= Cardinality(Heard(all, j))
<1>1. \A j \in Nat : IsFiniteSet(Heard(all, j)) /\ Cardinality(Heard(all, j)) \in Nat
  <2> TAKE j \in Nat
  <2>1. IsFiniteSet(1..j) /\ Heard(all, j) \in SUBSET (1..j)
    BY FS_Interval DEF Heard
  <2>2. IsFiniteSet(Heard(all, j))
    BY <2>1, FS_Subset
  <2> QED BY <2>2, FS_CardinalityType
<1>2. n = 0 => Cardinality(Heard(all, n)) = 0
  <2>1. n = 0 => Heard(all, n) = {}
    BY DEF Heard
  <2> QED BY <2>1, FS_EmptySet
<1>3. all[n + 1] = KeepAlive => Heard(all, n + 1) = Heard(all, n)
  <2>1. 1..(n + 1) = (1..n) \cup {n + 1}
    OBVIOUS
  <2> QED BY <2>1 DEF Heard
<1>4. ASSUME all[n + 1] # KeepAlive
      PROVE  Cardinality(Heard(all, n + 1)) = Cardinality(Heard(all, n)) + 1
  <2>1. 1..(n + 1) = (1..n) \cup {n + 1}
    OBVIOUS
  <2>2. Heard(all, n + 1) = Heard(all, n) \cup {n + 1}
    BY <1>4, <2>1 DEF Heard
  <2>3. n + 1 \notin Heard(all, n)
    BY DEF Heard
  <2> QED BY <1>1, <2>2, <2>3, FS_AddElement
<1>5. ASSUME NEW j \in Nat, n <= j
      PROVE  Cardinality(Heard(all, n)) <= Cardinality(Heard(all, j))
  <2>1. Heard(all, n) \in SUBSET Heard(all, j)
    BY <1>5 DEF Heard
  <2> QED BY <1>1, <2>1, FS_Subset
<1> QED BY <1>1, <1>2, <1>3, <1>4, <1>5

\* The k-th message, if it is for the handler, is counted among the first k.
LEMMA HeardAt ==
  ASSUME NEW all, NEW j \in Nat, NEW k \in Heard(all, j)
  PROVE  /\ k \in 1..j /\ k - 1 \in Nat
         /\ Cardinality(Heard(all, k)) = Cardinality(Heard(all, k - 1)) + 1
<1>1. k \in 1..j /\ k - 1 \in Nat /\ (k - 1) + 1 = k /\ all[k] # KeepAlive
  BY DEF Heard
<1> QED BY <1>1, HeardGrows

-------------------------------------------------------------------------------
(* The bitfield *)

\* Two numbers of pieces have different words, and a word fits a HAVE of four bytes.
LEMMA PieceWords ==
  ASSUME NEW i \in 1..NumPieces
  PROVE  Fits(i - 1) /\ Word(i - 1) \in Seq(Byte) /\ Len(Word(i - 1)) = 4 /\ WordAt(Word(i - 1)) = i - 1
<1>1. NumPieces \in Nat /\ ((NumPieces \div 256) \div 256) \div 256 < 256
  BY SizesAssumption DEF Fits
<1>2. i - 1 \in Nat /\ i - 1 <= NumPieces
  BY <1>1
<1>3. ASSUME NEW a \in Nat, NEW b \in Nat, a <= b
      PROVE  a \div 256 \in Nat /\ b \div 256 \in Nat /\ a \div 256 <= b \div 256
  BY <1>3
<1>4. ((i - 1) \div 256) \div 256 \in Nat /\ (NumPieces \div 256) \div 256 \in Nat
      /\ ((i - 1) \div 256) \div 256 <= (NumPieces \div 256) \div 256
  BY <1>1, <1>2, <1>3
<1>5. (((i - 1) \div 256) \div 256) \div 256 <= ((NumPieces \div 256) \div 256) \div 256
      /\ (((i - 1) \div 256) \div 256) \div 256 \in Nat
      /\ ((NumPieces \div 256) \div 256) \div 256 \in Nat
  BY <1>3, <1>4
<1>6. Fits(i - 1)
  BY <1>1, <1>2, <1>5 DEF Fits
<1> QED BY <1>6, WordRead

\* What a message changes in the bitfield: a bitfield everything, a HAVE the bit of its piece,
\* if there is one.
LEMMA BitsAfterMessage ==
  ASSUME StreamTypeOK, NEW m \in Message, m # KeepAlive
  PROVE  /\ BitsAfter(m) \in Seq(BOOLEAN)
         /\ Len(BitsAfter(m)) <= NumPieces
         /\ m.id = Bitfield =>
              /\ Len(BitsAfter(m)) = Shorter(NumPieces, 8 * Len(m.payload))
              /\ \A i \in 1..Len(BitsAfter(m)) : BitsAfter(m)[i] <=> Bit(m.payload, i)
         /\ m.id # Bitfield =>
              /\ Len(BitsAfter(m)) = Len(bits)
              /\ \A i \in 1..Len(bits) :
                   BitsAfter(m)[i] <=> (bits[i] \/ (m.id = Have /\ m.payload = Word(i - 1)))
<1>1. m.id \in Byte /\ m.payload \in Seq(Byte) /\ Len(m.payload) \in Nat
  BY DEF Message
<1>2. bits \in Seq(BOOLEAN) /\ Len(bits) \in Nat /\ Len(bits) <= NumPieces /\ NumPieces \in Nat
  BY SizesAssumption DEF StreamTypeOK, Fits
<1>3. Bitfield # Have
  BY DEF Bitfield, Have
<1>4. CASE m.id = Bitfield
  <2> DEFINE n == Shorter(NumPieces, 8 * Len(m.payload))
  <2>1. n \in Nat /\ n <= NumPieces
    BY <1>1, <1>2 DEF Shorter
  <2>2. BitsAfter(m) = [i \in 1..n |-> Bit(m.payload, i)]
    <3>1. BitsAfter(m) = Bits(m.payload, NumPieces)
      BY <1>3, <1>4 DEF BitsAfter
    <3>2. Bits(m.payload, NumPieces) = [i \in 1..n |-> Bit(m.payload, i)]
      BY DEF Bits
    <3> QED BY <3>1, <3>2
  <2>3. \A i \in 1..n : Bit(m.payload, i) \in BOOLEAN
    BY DEF Bit
  <2> HIDE DEF n
  <2>4. BitsAfter(m) \in [1..n -> BOOLEAN]
    BY <2>2, <2>3
  <2>5. BitsAfter(m) \in Seq(BOOLEAN) /\ Len(BitsAfter(m)) = n
    BY <2>1, <2>4
  <2>6. \A i \in 1..n : BitsAfter(m)[i] = Bit(m.payload, i)
    BY <2>2
  <2> QED BY <1>4, <2>1, <2>5, <2>6 DEF n
<1>5. CASE m.id = Have /\ Len(m.payload) = 4 /\ WordAt(m.payload) < Len(bits)
  <2> DEFINE j == WordAt(m.payload) + 1
  <2>1. BitsAfter(m) = [bits EXCEPT ![j] = TRUE]
    BY <1>3, <1>5 DEF BitsAfter
  <2>2. WordAt(m.payload) \in Nat /\ j \in 1..Len(bits)
    <3>1. \A i \in 1..4 : m.payload[i] \in Byte
      BY <1>1, <1>5, ElementOfSeq
    <3>2. \A a \in Byte : a \in Nat
      BY DEF Byte
    <3>3. /\ m.payload[1] \in Nat /\ m.payload[2] \in Nat
          /\ m.payload[3] \in Nat /\ m.payload[4] \in Nat
      BY <3>1, <3>2
    <3>4. WordAt(m.payload) \in Nat
      BY <3>3 DEF WordAt
    <3> QED BY <1>2, <1>5, <3>4
  <2>3. \A i \in 1..Len(bits) : i = j <=> m.payload = Word(i - 1)
    <3> TAKE i \in 1..Len(bits)
    <3>1. i \in 1..NumPieces
      BY <1>2
    <3>2. i = j => m.payload = Word(i - 1)
      <4> HAVE i = j
      <4>1. WordAt(m.payload) = i - 1
        BY <2>2
      <4> QED BY <1>1, <1>5, <3>1, <4>1, PieceWords, WordWritten
    <3>3. m.payload = Word(i - 1) => i = j
      BY <3>1, PieceWords
    <3> QED BY <3>2, <3>3
  <2> HIDE DEF j
  <2>4. /\ [bits EXCEPT ![j] = TRUE] \in Seq(BOOLEAN)
        /\ Len([bits EXCEPT ![j] = TRUE]) = Len(bits)
        /\ \A i \in 1..Len(bits) : [bits EXCEPT ![j] = TRUE][i] = IF i = j THEN TRUE ELSE bits[i]
    <3>1. bits \in [1..Len(bits) -> BOOLEAN]
      BY <1>2
    <3>2. /\ [bits EXCEPT ![j] = TRUE] \in [1..Len(bits) -> BOOLEAN]
          /\ \A i \in 1..Len(bits) : [bits EXCEPT ![j] = TRUE][i] = IF i = j THEN TRUE ELSE bits[i]
      BY <2>2, <3>1
    <3> QED BY <1>2, <3>2
  <2> QED BY <1>2, <1>3, <1>5, <2>1, <2>3, <2>4
<1>6. CASE m.id # Bitfield /\ ~(m.id = Have /\ Len(m.payload) = 4 /\ WordAt(m.payload) < Len(bits))
  <2>1. BitsAfter(m) = bits
    BY <1>6 DEF BitsAfter
  <2>2. \A i \in 1..Len(bits) : ~(m.id = Have /\ m.payload = Word(i - 1))
    <3> TAKE i \in 1..Len(bits)
    <3>1. i \in 1..NumPieces
      BY <1>2
    <3>2. Len(Word(i - 1)) = 4 /\ WordAt(Word(i - 1)) = i - 1
      BY <3>1, PieceWords
    <3>3. i - 1 < Len(bits)
      BY <1>2
    <3> QED BY <1>6, <3>2, <3>3
  <2> QED BY <1>2, <1>6, <2>1, <2>2
<1> QED BY <1>3, <1>4, <1>5, <1>6

\* A message that is handled leaves the bitfield known.
LEMMA BitsStayKnown ==
  ASSUME StreamTypeOK, BitsKnown, NEW m \in Message, m # KeepAlive,
         delivered' = Append(delivered, m), bits' = BitsAfter(m)
  PROVE  BitsKnown'
<1>0. PICK n \in Nat : n = Len(delivered)
  BY DEF StreamTypeOK
<1>1. /\ Len(delivered') = n + 1 /\ delivered'[n + 1] = m
      /\ \A k \in 1..n : delivered'[k] = delivered[k]
  BY <1>0, AppendProperties DEF StreamTypeOK
<1>2. CASE m.id = Bitfield
  <2>1. LastBitfield(n + 1)'
    BY <1>1, <1>2 DEF LastBitfield
  <2>2. \A i : ~HadSince(n + 1, i)'
    BY <1>1 DEF HadSince
  <2>3. /\ Len(bits') = Shorter(NumPieces, 8 * Len(m.payload))
        /\ \A i \in 1..Len(bits') : bits'[i] <=> Bit(m.payload, i)
    BY <1>2, BitsAfterMessage
  <2>4. n + 1 \in 1..Len(delivered')
    BY <1>1
  <2>5. /\ Len(bits') = Shorter(NumPieces, 8 * Len(delivered'[n + 1].payload))
        /\ \A i \in 1..Len(bits') : bits'[i] <=> (Bit(delivered'[n + 1].payload, i) \/ HadSince(n + 1, i)')
    BY <1>1, <2>2, <2>3
  <2> QED BY <2>1, <2>4, <2>5 DEF BitsKnown
<1>3. CASE m.id # Bitfield
  <2>1. /\ Len(bits') = Len(bits)
        /\ \A i \in 1..Len(bits) : bits'[i] <=> (bits[i] \/ (m.id = Have /\ m.payload = Word(i - 1)))
    BY <1>3, BitsAfterMessage
  <2>2. CASE bits = <<>> /\ \A k \in 1..n : delivered[k].id # Bitfield
    <3>1. bits' = <<>>
      <4>1. bits' \in Seq(BOOLEAN)
        BY BitsAfterMessage
      <4>2. Len(bits') = 0
        BY <2>1, <2>2
      <4> QED BY <4>1, <4>2
    <3>2. \A k \in 1..Len(delivered') : delivered'[k].id # Bitfield
      BY <1>1, <1>3, <2>2
    <3> QED BY <3>1, <3>2 DEF BitsKnown
  <2>3. ASSUME NEW k \in 1..n,
               LastBitfield(k),
               Len(bits) = Shorter(NumPieces, 8 * Len(delivered[k].payload)),
               \A i \in 1..Len(bits) : bits[i] <=> (Bit(delivered[k].payload, i) \/ HadSince(k, i))
        PROVE  BitsKnown'
    <3>1. k \in 1..Len(delivered') /\ delivered'[k] = delivered[k]
      BY <1>1
    <3>2. LastBitfield(k)'
      BY <1>0, <1>1, <1>3, <2>3, <3>1 DEF LastBitfield
    <3>3. \A i : HadSince(k, i)' <=> (HadSince(k, i) \/ (m.id = Have /\ m.payload = Word(i - 1)))
      <4> TAKE i
      <4>1. \A l \in (k + 1)..n : l \in (k + 1)..(n + 1) /\ delivered'[l] = delivered[l]
        BY <1>1
      <4>2. n + 1 \in (k + 1)..(n + 1) /\ \A l \in (k + 1)..(n + 1) : l \in (k + 1)..n \/ l = n + 1
        BY <1>1
      <4>3. HadSince(k, i)' <=>
              \E l \in (k + 1)..(n + 1) : delivered'[l].id = Have /\ delivered'[l].payload = Word(i - 1)
        BY <1>1 DEF HadSince
      <4> QED BY <1>0, <1>1, <4>1, <4>2, <4>3 DEF HadSince
    <3>4. Len(bits') = Shorter(NumPieces, 8 * Len(delivered'[k].payload))
      BY <2>1, <2>3, <3>1
    <3>5. \A i \in 1..Len(bits') : bits'[i] <=> (Bit(delivered'[k].payload, i) \/ HadSince(k, i)')
      BY <2>1, <2>3, <3>1, <3>3
    <3> QED BY <3>1, <3>2, <3>4, <3>5 DEF BitsKnown
  <2> QED BY <1>0, <2>2, <2>3 DEF BitsKnown
<1> QED BY <1>2, <1>3

\* What is known of the bitfield is what the peer has announced.
LEMMA KnownIsAnnounced ==
  ASSUME StreamTypeOK, BitsKnown
  PROVE  BitsAsAnnounced
<1> DEFINE n == Len(delivered)
<1>1. n \in Nat /\ DOMAIN delivered = 1..n /\ NumPieces \in Nat /\ Len(bits) \in Nat
  BY SizesAssumption DEF StreamTypeOK, Fits
<1>2. \A k \in 1..n : Len(delivered[k].payload) \in Nat
  <2> TAKE k \in 1..n
  <2>1. delivered[k] \in Message
    BY ElementOfSeq DEF StreamTypeOK
  <2> QED BY <2>1 DEF Message, KeepAlive
<1> SUFFICES ASSUME NEW i \in 1..NumPieces
             PROVE  (i <= Len(bits) /\ bits[i]) <=> HasAnnounced(i)
  BY DEF BitsAsAnnounced
<1>3. HasAnnounced(i) <=>
        \E k \in 1..n : /\ LastBitfield(k)
                        /\ i <= 8 * Len(delivered[k].payload)
                        /\ Bit(delivered[k].payload, i) \/ HadSince(k, i)
  BY <1>1 DEF HasAnnounced, LastBitfield, HadSince
<1>4. CASE bits = <<>> /\ \A k \in 1..n : delivered[k].id # Bitfield
  BY <1>3, <1>4 DEF LastBitfield
<1>5. ASSUME NEW k \in 1..n,
             LastBitfield(k),
             Len(bits) = Shorter(NumPieces, 8 * Len(delivered[k].payload)),
             \A j \in 1..Len(bits) : bits[j] <=> (Bit(delivered[k].payload, j) \/ HadSince(k, j))
      PROVE  (i <= Len(bits) /\ bits[i]) <=> HasAnnounced(i)
  <2>1. \A l \in 1..n : LastBitfield(l) => l = k
    <3> TAKE l \in 1..n
    <3> HAVE LastBitfield(l)
    <3>1. ~(l \in (k + 1)..n)
      BY <1>5 DEF LastBitfield
    <3>2. ~(k \in (l + 1)..n)
      BY <1>5 DEF LastBitfield
    <3> QED BY <1>1, <3>1, <3>2
  <2>2. HasAnnounced(i) <=> /\ i <= 8 * Len(delivered[k].payload)
                            /\ Bit(delivered[k].payload, i) \/ HadSince(k, i)
    BY <1>3, <1>5, <2>1
  <2>3. i <= Len(bits) <=> i <= 8 * Len(delivered[k].payload)
    BY <1>1, <1>2, <1>5 DEF Shorter
  <2>4. i <= Len(bits) => i \in 1..Len(bits)
    BY <1>1
  <2> QED BY <1>5, <2>2, <2>3, <2>4
<1> QED BY <1>4, <1>5 DEF BitsKnown

-------------------------------------------------------------------------------
(* The steps *)

\* A connection that is new, or none, satisfies the invariant.
LEMMA FreshOK ==
  ASSUME loop' \in {"off", "shake"}, sent' \in Streams \cup {Nothing}, link' \in {"none", "open"},
         taken' = 0, buffer' = <<>>, delivered' = <<>>, bits' = <<>>, interested' = FALSE,
         notified' = FALSE
  PROVE  StreamInv'
<1>1. StreamTypeOK'
  <2>1. \A s \in Streams \cup {Nothing} : Len(s.bytes) \in Nat
    <3>1. Len(Nothing.bytes) \in Nat
      BY SizesAssumption DEF Nothing
    <3>2. \A s \in Streams : Len(s.bytes) \in Nat
      BY StreamsAssumption, FramedParts
    <3> QED BY <3>1, <3>2
  <2>2. taken' \in 0..Len(sent'.bytes)
    BY <2>1
  <2>3. bits' \in Seq(BOOLEAN) /\ Len(bits') <= NumPieces
    BY SizesAssumption DEF Fits
  <2>4. buffer' \in Seq(Byte) /\ delivered' \in Seq(Message)
    OBVIOUS
  <2> QED BY <2>2, <2>3, <2>4 DEF StreamTypeOK
<1>2. Positioned'
  BY DEF Positioned
<1>3. DeliveredInOrder'
  <2> DEFINE all == sent'.messages
  <2>1. Len(all) \in Nat
    <3>1. \A s \in Streams : Len(s.messages) \in Nat
      BY StreamsAssumption, FramedParts
    <3>2. Len(Nothing.messages) \in Nat
      BY DEF Nothing
    <3> QED BY <3>1, <3>2
  <2>2. Cardinality(Heard(all, Len(all))) \in Nat
    BY <2>1, HeardGrows
  <2>3. ASSUME NEW k \in Heard(all, Len(all))
        PROVE  ~(Cardinality(Heard(all, k)) <= 0)
    <3>1. Cardinality(Heard(all, k)) = Cardinality(Heard(all, k - 1)) + 1 /\ k - 1 \in Nat
      BY <2>1, HeardAt
    <3> QED BY <3>1, HeardGrows
  <2>4. Len(delivered') = 0
    OBVIOUS
  <2> HIDE DEF all
  <2>5. Len(delivered') <= Cardinality(Heard(all, Len(all)))
    BY <2>2, <2>4
  <2> QED BY <2>3, <2>4, <2>5 DEF DeliveredInOrder, all
<1>4. BitsKnown'
  BY DEF BitsKnown
<1> QED BY <1>1, <1>2, <1>3, <1>4 DEF StreamInv

\* A step that neither reads nor handles anything keeps the invariant, if the loop goes where it may.
LEMMA QuietOK ==
  ASSUME StreamInv, UNCHANGED <<sent, taken, buffer, view>>,
         loop' \in {"off", "shake", "read", "process", "end", "over", "failed", "raised"},
         link' \in {"none", "open", "ended", "reset", "closed"},
         notified' \in BOOLEAN,
         loop' \in {"read", "process", "end"} => loop \in {"read", "process", "end"},
         loop' \in {"off", "shake", "failed", "raised"} => loop \in {"off", "shake", "failed", "raised"},
         loop' = "read" => loop = "read" \/ Consumed(buffer) = 0
  PROVE  StreamInv'
<1>1. StreamTypeOK'
  BY DEF StreamInv, StreamTypeOK, view
<1>3. Positioned'
  BY DEF StreamInv, Positioned, Position, view
<1>4. DeliveredInOrder'
  BY DEF StreamInv, DeliveredInOrder, view
<1>5. BitsKnown'
  BY DEF StreamInv, BitsKnown, LastBitfield, HadSince, view
<1> QED BY <1>1, <1>3, <1>4, <1>5 DEF StreamInv

\* The handshake leaves what follows it to be read.
LEMMA ShakesOK ==
  ASSUME StreamInv, Shakes
  PROVE  StreamInv'
<1>1. /\ loop = "shake" /\ taken' = HandshakeLen /\ loop' \in {"read", "failed"}
      /\ UNCHANGED <<sent, link, buffer, delivered, bits, interested, notified>>
  BY DEF Shakes, wire, view
<1>2. Framed(sent)
  BY SentFramed DEF StreamInv
<1>3. buffer = <<>> /\ delivered = <<>>
  BY <1>1 DEF StreamInv, Positioned
<1>4. sent.starts[1] = HandshakeLen /\ HandshakeLen \in Nat /\ Len(sent.messages) \in Nat
      /\ Len(sent.bytes) \in Nat /\ HandshakeLen <= Len(sent.bytes)
  <2>1. Len(sent.messages) \in Nat /\ sent.starts[1] = HandshakeLen /\ Len(sent.bytes) \in Nat
    BY <1>2, FramedParts
  <2>2. 1 \in 1..(Len(sent.messages) + 1)
    BY <2>1
  <2>3. sent.starts[1] <= Len(sent.bytes)
    BY <1>2, <2>2, StartsGrow
  <2> QED BY <2>1, <2>3, SizesAssumption
<1>5. StreamTypeOK'
  BY <1>1, <1>4 DEF StreamInv, StreamTypeOK
<1>7. DeliveredInOrder'
  BY <1>1 DEF StreamInv, DeliveredInOrder
<1>8. Positioned'
  <2>1. Position(0)'
    <3>1. 0 \in 0..Len(sent'.messages)
      BY <1>1, <1>4
    <3>2. buffer' = SubSeq(sent'.bytes, sent'.starts[0 + 1] + 1, taken')
      <4>1. SubSeq(sent.bytes, HandshakeLen + 1, HandshakeLen) = <<>>
        BY <1>4, SubSeqEmpty
      <4> QED BY <1>1, <1>3, <1>4, <4>1
    <3>3. Len(delivered') = Cardinality(Heard(sent'.messages, 0))
      <4>1. Cardinality(Heard(sent'.messages, 0)) = 0
        BY HeardGrows
      <4> QED BY <1>1, <1>3, <4>1
    <3> QED BY <1>1, <1>4, <3>1, <3>2, <3>3 DEF Position
  <2>2. 0 \in 0..Len(sent'.messages)
    BY <1>1, <1>4
  <2>3. Consumed(buffer') = 0
    BY <1>1, <1>3 DEF Consumed
  <2> QED BY <1>1, <1>3, <2>1, <2>2, <2>3 DEF Positioned
<1>9. BitsKnown'
  BY <1>1 DEF StreamInv, BitsKnown, LastBitfield, HadSince
<1> QED BY <1>5, <1>7, <1>8, <1>9 DEF StreamInv

\* What is read is put behind what was read before.
LEMMA ReadsOK ==
  ASSUME StreamInv, NEW k \in 1..ReadSize, Reads(k)
  PROVE  StreamInv'
<1>1. /\ loop = "read" /\ taken + k <= Len(sent.bytes)
      /\ buffer' = buffer \o SubSeq(sent.bytes, taken + 1, taken + k)
      /\ taken' = taken + k /\ loop' = "process"
      /\ UNCHANGED <<sent, link, delivered, bits, interested, notified>>
  BY DEF Reads, wire, view
<1>2. Framed(sent)
  BY SentFramed DEF StreamInv
<1>3. /\ k \in Nat /\ k >= 1 /\ taken \in Nat /\ sent.bytes \in Seq(Byte) /\ Len(sent.bytes) \in Nat
      /\ buffer \in Seq(Byte)
  BY <1>2, FramedParts, SizesAssumption DEF StreamInv, StreamTypeOK
<1>5. PICK n \in 0..Len(sent.messages) : Position(n)
  BY <1>1 DEF StreamInv, Positioned
<1> DEFINE o == sent.starts[n + 1]
<1>6. o \in Nat /\ o <= taken /\ buffer = SubSeq(sent.bytes, o + 1, taken)
  <2>1. n + 1 \in 1..(Len(sent.messages) + 1)
    BY <1>2, FramedParts
  <2> QED BY <1>2, <1>5, <2>1, FramedParts DEF Position
<1>7. buffer' = SubSeq(sent.bytes, o + 1, taken + k)
  <2> HIDE DEF o
  <2>1. /\ o + 1 \in 1..Len(sent.bytes) + 1 /\ taken \in (o + 1) - 1..Len(sent.bytes)
        /\ taken + k \in taken..Len(sent.bytes)
    BY <1>1, <1>3, <1>6
  <2>2. SubSeq(sent.bytes, o + 1, taken) \o SubSeq(sent.bytes, taken + 1, taken + k)
          = SubSeq(sent.bytes, o + 1, taken + k)
    BY <1>3, <2>1, ConcatAdjacentSubSeq
  <2> QED BY <1>1, <1>6, <2>2
<1>8. StreamTypeOK'
  <2>1. buffer' \in Seq(Byte)
    <3> HIDE DEF o
    <3>1. taken + k \in Nat /\ o <= taken + k
      BY <1>3, <1>6
    <3>2. SubSeq(sent.bytes, o + 1, taken + k) \in Seq(Byte)
      BY <1>1, <1>3, <1>6, <3>1, Cut
    <3> QED BY <1>7, <3>2
  <2>2. taken' \in 0..Len(sent'.bytes)
    BY <1>1, <1>3
  <2> QED BY <1>1, <2>1, <2>2 DEF StreamInv, StreamTypeOK
<1>9. Positioned'
  <2>1. Position(n)'
    <3>1. sent'.starts[n + 1] <= taken'
      BY <1>1, <1>3, <1>6
    <3>2. buffer' = SubSeq(sent'.bytes, sent'.starts[n + 1] + 1, taken')
      BY <1>1, <1>7
    <3>3. n \in 0..Len(sent'.messages) /\ Len(delivered') = Cardinality(Heard(sent'.messages, n))
      BY <1>1, <1>5 DEF Position
    <3> QED BY <3>1, <3>2, <3>3 DEF Position
  <2> QED BY <1>1, <2>1 DEF Positioned
<1>10. DeliveredInOrder'
  BY <1>1 DEF StreamInv, DeliveredInOrder
<1>11. BitsKnown'
  <2>1. BitsKnown /\ UNCHANGED <<delivered, bits>>
    BY <1>1 DEF StreamInv
  <2> QED BY <2>1 DEF BitsKnown, LastBitfield, HadSince
<1> QED BY <1>8, <1>9, <1>10, <1>11 DEF StreamInv

\* The message that Handles takes out of the buffer is the next one of the peer.
LEMMA HandlesNext ==
  ASSUME StreamInv, Handles
  PROVE  \E n \in 0..(Len(sent.messages) - 1) :
           /\ Position(n)
           /\ sent.starts[n + 2] <= taken
           /\ Parsed(buffer) = sent.messages[n + 1]
           /\ buffer' = SubSeq(sent.bytes, sent.starts[n + 2] + 1, taken)
<1>1. /\ loop = "process" /\ Consumed(buffer) > 0
      /\ buffer' = SubSeq(buffer, Consumed(buffer) + 1, Len(buffer))
  BY DEF Handles
<1>2. Framed(sent)
  BY SentFramed DEF StreamInv
<1>3. PICK n \in 0..Len(sent.messages) : Position(n)
  BY <1>1 DEF StreamInv, Positioned
<1>4. taken \in Nat /\ taken <= Len(sent.bytes)
  <2>1. Len(sent.bytes) \in Nat
    BY <1>2, FramedParts
  <2> QED BY <2>1 DEF StreamInv, StreamTypeOK
<1>5. sent.starts[n + 1] <= taken /\ buffer = SubSeq(sent.bytes, sent.starts[n + 1] + 1, taken)
  BY <1>3 DEF Position
<1>6. n # Len(sent.messages) /\ ~(taken < sent.starts[n + 2])
  BY <1>1, <1>2, <1>4, <1>5, NoMessage
<1>7. n \in 0..(Len(sent.messages) - 1) /\ n + 2 \in 1..(Len(sent.messages) + 1)
  BY <1>2, <1>6, FramedParts
<1>8. sent.starts[n + 2] <= taken
  BY <1>2, <1>4, <1>6, <1>7, FramedParts
<1>9. /\ Parsed(buffer) = sent.messages[n + 1]
      /\ SubSeq(buffer, Consumed(buffer) + 1, Len(buffer))
           = SubSeq(sent.bytes, sent.starts[n + 2] + 1, taken)
  BY <1>2, <1>4, <1>5, <1>7, <1>8, WholeMessage
<1> QED BY <1>1, <1>3, <1>7, <1>8, <1>9

LEMMA HandlesOK ==
  ASSUME StreamInv, Handles
  PROVE  StreamInv'
<1>1. PICK n \in 0..(Len(sent.messages) - 1) :
           /\ Position(n)
           /\ sent.starts[n + 2] <= taken
           /\ Parsed(buffer) = sent.messages[n + 1]
           /\ buffer' = SubSeq(sent.bytes, sent.starts[n + 2] + 1, taken)
  BY HandlesNext
<1> DEFINE all == sent.messages
           m == all[n + 1]
<1>2. UNCHANGED <<sent, link, taken, notified>> /\ loop = "process"
  BY DEF Handles, wire
<1>3. Framed(sent) /\ StreamTypeOK /\ BitsKnown /\ DeliveredInOrder
  BY SentFramed DEF StreamInv
<1>4. /\ m \in Message /\ n \in Nat /\ n + 1 \in 1..Len(all) /\ Len(all) \in Nat
      /\ sent.starts[n + 2] \in Nat /\ taken \in Nat /\ taken <= Len(sent.bytes) /\ sent.bytes \in Seq(Byte)
  <2>1. Len(all) \in Nat /\ Len(sent.bytes) \in Nat /\ sent.bytes \in Seq(Byte)
    BY <1>3, FramedParts
  <2>2. n \in Nat /\ n + 1 \in 1..Len(all) /\ n + 2 \in 1..(Len(all) + 1)
    BY <2>1
  <2> QED BY <1>3, <2>1, <2>2, FramedParts DEF StreamTypeOK
<1>5. buffer' \in Seq(Byte)
  BY <1>1, <1>4, Cut
<1>6. Len(delivered) = Cardinality(Heard(all, n))
  BY <1>1 DEF Position
<1>7. ASSUME Len(delivered') = Cardinality(Heard(all, n + 1)), loop' \in {"process", "end"}
      PROVE  Positioned'
  <2>1. Position(n + 1)'
    <3>1. n + 1 \in 0..Len(sent'.messages) /\ (n + 1) + 1 = n + 2
      BY <1>2, <1>4
    <3> QED BY <1>1, <1>2, <1>7, <3>1 DEF Position
  <2>2. n + 1 \in 0..Len(sent'.messages)
    BY <1>2, <1>4
  <2> QED BY <1>7, <2>1, <2>2 DEF Positioned
<1>8. CASE m = KeepAlive
  <2>1. UNCHANGED <<loop, delivered, bits, interested>>
    BY <1>1, <1>8 DEF Handles, view
  <2>2. StreamTypeOK'
    BY <1>2, <1>3, <1>5, <2>1 DEF StreamTypeOK
  <2>3. Positioned'
    <3>1. Heard(all, n + 1) = Heard(all, n)
      BY <1>4, <1>8, HeardGrows
    <3> QED BY <1>2, <1>6, <1>7, <2>1, <3>1
  <2>4. DeliveredInOrder'
    BY <1>2, <1>3, <2>1 DEF DeliveredInOrder
  <2>5. BitsKnown'
    BY <1>3, <2>1 DEF BitsKnown, LastBitfield, HadSince
  <2> QED BY <2>2, <2>3, <2>4, <2>5 DEF StreamInv
<1>9. CASE m # KeepAlive
  <2>1. /\ delivered' = Append(delivered, m) /\ bits' = BitsAfter(m)
        /\ interested' = (interested \/ (m.id = Bitfield /\ \E i \in DOMAIN bits' : bits'[i]))
        /\ loop' = IF Malformed(m) THEN "end" ELSE "process"
    <3> HIDE DEF m
    <3>1. m = Parsed(buffer)
      BY <1>1 DEF m
    <3> QED BY <1>9, <3>1 DEF Handles
  <2> DEFINE c == Cardinality(Heard(all, n))
  <2>2. c \in Nat /\ Cardinality(Heard(all, n + 1)) = c + 1
    BY <1>4, <1>9, HeardGrows
  <2>3. /\ delivered' \in Seq(Message) /\ Len(delivered') = c + 1 /\ delivered'[c + 1] = m
        /\ \A i \in 1..c : delivered'[i] = delivered[i]
    <3>1. delivered \in Seq(Message)
      BY <1>3 DEF StreamTypeOK
    <3> HIDE DEF m, c
    <3>2. Len(delivered) = c
      BY <1>6 DEF c
    <3> QED BY <1>4, <2>1, <3>1, <3>2, AppendProperties
  <2>4. StreamTypeOK'
    <3>1. bits' \in Seq(BOOLEAN) /\ Len(bits') <= NumPieces
      BY <1>3, <1>4, <1>9, <2>1, BitsAfterMessage
    <3>2. interested' \in BOOLEAN
      BY <1>3, <2>1 DEF StreamTypeOK
    <3>3. loop' \in {"process", "end"}
      BY <2>1
    <3> QED BY <1>2, <1>3, <1>5, <2>3, <3>1, <3>2, <3>3 DEF StreamTypeOK
  <2>5. Positioned'
    <3>1. loop' \in {"process", "end"}
      BY <2>1
    <3> QED BY <1>7, <2>2, <2>3, <3>1
  <2>6. DeliveredInOrder'
    <3>1. c + 1 <= Cardinality(Heard(all, Len(all)))
      BY <1>4, <2>2, HeardGrows
    <3>2. ASSUME NEW k \in Heard(all, Len(all)), Cardinality(Heard(all, k)) <= c + 1
          PROVE  delivered'[Cardinality(Heard(all, k))] = all[k]
      <4> DEFINE i == Cardinality(Heard(all, k))
      <4>1. /\ k \in 1..Len(all) /\ k - 1 \in Nat /\ k \in Nat
            /\ i = Cardinality(Heard(all, k - 1)) + 1
        BY <1>4, HeardAt
      <4>2. i \in Nat /\ i >= 1
        BY <4>1, HeardGrows
      <4>3. CASE i <= c
        <5>1. i \in 1..c
          BY <2>2, <4>2, <4>3
        <5>2. delivered[i] = all[k]
          BY <1>3, <1>6, <4>3 DEF DeliveredInOrder
        <5> QED BY <2>3, <5>1, <5>2
      <4>4. CASE i = c + 1
        <5>1. ~(k <= n)
          <6>1. k <= n => i <= c
            BY <1>4, <4>1, HeardGrows
          <6> QED BY <2>2, <4>2, <4>4, <6>1
        <5>2. ~(n + 1 <= k - 1)
          <6>1. n + 1 <= k - 1 => c + 1 <= Cardinality(Heard(all, k - 1))
            BY <1>4, <2>2, <4>1, HeardGrows
          <6>2. Cardinality(Heard(all, k - 1)) \in Nat
            BY <4>1, HeardGrows
          <6> QED BY <2>2, <4>1, <4>4, <6>1, <6>2
        <5>3. k = n + 1
          BY <1>4, <4>1, <5>1, <5>2
        <5> QED BY <2>3, <4>4, <5>3
      <4> QED BY <2>2, <3>2, <4>2, <4>3, <4>4
    <3> HIDE DEF c
    <3> QED BY <1>2, <2>3, <3>1, <3>2 DEF DeliveredInOrder
  <2>7. BitsKnown'
    BY <1>3, <1>4, <1>9, <2>1, BitsStayKnown
  <2> QED BY <2>4, <2>5, <2>6, <2>7 DEF StreamInv
<1> QED BY <1>8, <1>9

-------------------------------------------------------------------------------
(* Theorems *)

\* A read is awaited only when the whole messages that were read have been handled.
LEMMA ReadMeansHandled ==
  ASSUME StreamInv
  PROVE  NothingHeldBack
<1> SUFFICES ASSUME loop = "read",
                    NEW k \in 0..Len(sent.messages), sent.starts[k + 1] <= taken
             PROVE  Cardinality(Heard(sent.messages, k)) <= Len(delivered)
  BY DEF NothingHeldBack
<1>1. Consumed(buffer) = 0
  BY DEF StreamInv, Positioned
<1>2. PICK n \in 0..Len(sent.messages) : Position(n)
  BY DEF StreamInv, Positioned
<1>3. Framed(sent)
  BY SentFramed DEF StreamInv
<1>4. /\ taken \in Nat /\ taken <= Len(sent.bytes) /\ Len(sent.messages) \in Nat
      /\ k \in Nat /\ n \in Nat /\ k + 1 \in 1..(Len(sent.messages) + 1)
  <2>1. Len(sent.bytes) \in Nat /\ Len(sent.messages) \in Nat
    BY <1>3, FramedParts
  <2> QED BY <2>1 DEF StreamInv, StreamTypeOK
<1>5. buffer = SubSeq(sent.bytes, sent.starts[n + 1] + 1, taken)
      /\ Len(delivered) = Cardinality(Heard(sent.messages, n))
  BY <1>2 DEF Position
<1>6. ~(n < k)
  <2> SUFFICES ASSUME n < k PROVE FALSE
    OBVIOUS
  <2>1. n \in 0..(Len(sent.messages) - 1) /\ n + 2 \in 1..(Len(sent.messages) + 1)
        /\ k + 1 \in (n + 2)..(Len(sent.messages) + 1)
    BY <1>4
  <2>2. sent.starts[n + 2] <= sent.starts[k + 1]
    BY <1>3, <2>1, StartsGrow
  <2>3. sent.starts[n + 2] \in Nat /\ sent.starts[k + 1] \in Nat
    BY <1>3, <1>4, <2>1, FramedParts
  <2>4. sent.starts[n + 2] <= taken
    BY <1>4, <2>2, <2>3
  <2>5. Consumed(buffer) > 0
    BY <1>3, <1>4, <1>5, <2>1, <2>4, WholeMessage
  <2> QED BY <1>1, <2>5
<1> QED BY <1>4, <1>5, <1>6, HeardGrows

\* No peer has been dialed.
LEMMA InitStream == ASSUME StreamInit PROVE StreamInv
<1>1. StreamTypeOK
  <2>1. Len(Nothing.bytes) \in Nat
    BY SizesAssumption DEF Nothing
  <2>2. taken \in 0..Len(sent.bytes)
    BY <2>1 DEF StreamInit
  <2>3. bits \in Seq(BOOLEAN) /\ Len(bits) <= NumPieces
    BY SizesAssumption DEF StreamInit, Fits
  <2>4. buffer \in Seq(Byte) /\ delivered \in Seq(Message)
    BY DEF StreamInit
  <2> QED BY <2>2, <2>3, <2>4 DEF StreamInit, StreamTypeOK
<1>2. Positioned
  BY DEF StreamInit, Positioned
<1>3. DeliveredInOrder
  <2>1. Heard(sent.messages, Len(sent.messages)) = {}
    BY DEF StreamInit, Nothing, Heard
  <2>2. Len(delivered) = 0
    BY DEF StreamInit
  <2> QED BY <2>1, <2>2, FS_EmptySet DEF DeliveredInOrder
<1>4. BitsKnown
  BY DEF StreamInit, BitsKnown
<1> QED BY <1>1, <1>2, <1>3, <1>4 DEF StreamInv

\* What the invariant says survives every step of a connection, and of its caller.
LEMMA StreamKept ==
  ASSUME StreamInv, [StreamNext \/ StreamCaller]_streamVars
  PROVE  StreamInv'
<1>1. notified \in BOOLEAN /\ link \in {"none", "open", "ended", "reset", "closed"}
      /\ loop \in {"off", "shake", "read", "process", "end", "over", "failed", "raised"}
  BY DEF StreamInv, StreamTypeOK
<1>2. CASE Break \/ Disconnect
  BY <1>1, <1>2, QuietOK DEF Break, Disconnect, StreamInv, Positioned
<1>3. CASE ShakeFails \/ ShakeRaises
  BY <1>1, <1>3, QuietOK DEF ShakeFails, ShakeRaises, wire
<1>4. CASE ReadEnds \/ ProcessEnds \/ Ends
  BY <1>1, <1>4, QuietOK DEF ReadEnds, ProcessEnds, Ends, wire
<1>5. CASE Shakes
  BY <1>5, ShakesOK
<1>6. CASE \E n \in 1..ReadSize : Reads(n)
  BY <1>6, ReadsOK
<1>7. CASE Handles
  BY <1>7, HandlesOK
<1>8. CASE StreamCaller
  BY <1>8, FreshOK DEF StreamCaller, Drop, Opens
<1>9. CASE UNCHANGED streamVars
  BY <1>1, <1>9, QuietOK DEF streamVars, wire, StreamInv, Positioned
<1> QED BY <1>2, <1>3, <1>4, <1>5, <1>6, <1>7, <1>8, <1>9 DEF StreamNext

\* The invariant holds of every connection, with the types of its state among its conjuncts:
\* the buffer begins with a message of the peer whenever it is parsed, and the messages
\* delivered and the bitfield follow from those before it.
THEOREM StreamInvariant == StreamSpec => []StreamInv
BY InitStream, StreamKept, PTL DEF StreamSpec

\* The handler gets the messages of the peer whole and in order, for every stream and every
\* way to cut it (connect, read_loop, _process_buffer, parse_message).
THEOREM DeliveredInOrderHolds == StreamSpec => []DeliveredInOrder
<1>1. StreamInv => DeliveredInOrder
  BY DEF StreamInv
<1> QED BY <1>1, StreamInvariant, PTL

\* When read_loop waits for bytes, no whole message is left in the buffer.
THEOREM NothingHeldBackHolds == StreamSpec => []NothingHeldBack
<1>1. StreamInv => NothingHeldBack
  BY ReadMeansHandled
<1> QED BY <1>1, StreamInvariant, PTL

\* The bitfield that decides what a peer is asked for holds what the peer has announced, for
\* every sequence of bitfields, HAVEs and other messages (_handle_message, parse_bitfield).
THEOREM BitsAsAnnouncedHolds == StreamSpec => []BitsAsAnnounced
<1>1. StreamInv => BitsAsAnnounced
  BY KnownIsAnnounced DEF StreamInv
<1> QED BY <1>1, StreamInvariant, PTL
===============================================================================
