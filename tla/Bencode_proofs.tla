----------------------------- MODULE Bencode_proofs ----------------------------
(***************************************************************************)
(* Theorems about decode(): whatever the bytes are, no object is the        *)
(* beginning of another one, and the steps that Decode gives the machine    *)
(* are enough.                                                              *)
(*                                                                          *)
(* The bytes, and the least counterexample that stands for an induction,    *)
(* are those of PeerStream_proofs.                                          *)
(***************************************************************************)
EXTENDS Bencode, PeerStream_proofs

-------------------------------------------------------------------------------
(* What is read does not depend on what follows it *)

\* r is read from some bytes, and q from these and t after them.
SameRead(r, q, t) ==
  r # Raises => /\ r = Returns(<<r[1][1], r[1][2]>>) /\ r[1][2] \in Seq(Byte)
                /\ q = Returns(<<r[1][1], r[1][2] \o t>>)

LEMMA NothingIsBytes == <<>> \in Seq(Byte)
OBVIOUS

\* The object is the same, and the rest is followed by t.
LEMMA Returned ==
  ASSUME NEW v, NEW w \in Seq(Byte), NEW t
  PROVE  SameRead(Returns(<<v, w>>), Returns(<<v, w \o t>>), t)
BY DEF SameRead, Returns, Raises

\* A part of s is the same part of s and t.
LEMMA PrefixOfBoth ==
  ASSUME NEW s \in Seq(Byte), NEW t \in Seq(Byte), NEW i \in Nat, NEW k \in 0..Len(s)
  PROVE  /\ SubSeq(s \o t, i + 1, k) = SubSeq(s, i + 1, k)
         /\ SubSeq(s, i + 1, k) \in Seq(Byte)
BY SMT

\* What is after the first k bytes.
LEMMA RestOfBoth ==
  ASSUME NEW s \in Seq(Byte), NEW t \in Seq(Byte), NEW k \in 0..Len(s)
  PROVE  /\ SubSeq(s \o t, k + 1, Len(s \o t)) = SubSeq(s, k + 1, Len(s)) \o t
         /\ SubSeq(s, k + 1, Len(s)) \in Seq(Byte)
<1> DEFINE x == SubSeq(s \o t, k + 1, Len(s \o t))
           y == SubSeq(s, k + 1, Len(s)) \o t
<1>1. SubSeq(s, k + 1, Len(s)) \in Seq(Byte)
  OBVIOUS
<1>2. x \in Seq(Byte) /\ y \in Seq(Byte)
  BY <1>1
<1>3. Len(x) = Len(y)
  BY <1>1
<1>4. ASSUME NEW i \in 1..Len(x)
      PROVE  x[i] = y[i]
  <2>1. x[i] = (s \o t)[i + k]
    <3> DEFINE q == s \o t
    <3>1. q \in Seq(Byte) /\ Len(q) = Len(s) + Len(t) /\ i \in 1..Len(SubSeq(q, k + 1, Len(q)))
      BY <1>4
    <3> HIDE DEF q, x, y
    <3>2. SubSeq(q, k + 1, Len(q))[i] = q[i + k]
      <4>1. k \in 0..Len(q) /\ Len(q) \in Nat
        BY <3>1
      <4>2. i \in 1..(Len(q) - k)
        BY <3>1, <4>1
      <4> QED BY <3>1, <4>1, <4>2
    <3> QED BY <3>2 DEF q, x
  <2>2. Len(SubSeq(s, k + 1, Len(s))) = Len(s) - k
    OBVIOUS
  <2>3. CASE i <= Len(s) - k
    <3>1. y[i] = SubSeq(s, k + 1, Len(s))[i]
      BY <1>1, <2>2, <2>3
    <3>2. SubSeq(s, k + 1, Len(s))[i] = s[i + k]
      BY <2>3
    <3> QED BY <2>1, <2>3, <3>1, <3>2
  <2>4. CASE i > Len(s) - k
    <3>1. i - (Len(s) - k) \in 1..Len(t)
      BY <2>4
    <3>2. y[i] = t[i - (Len(s) - k)]
      BY <1>1, <2>2, <2>4, <3>1
    <3>3. (s \o t)[i + k] = t[(i + k) - Len(s)]
      BY <2>4, <3>1
    <3> QED BY <2>1, <3>2, <3>3
  <2>5. i \in Nat /\ Len(s) - k \in Nat
    BY <1>2
  <2> HIDE DEF x, y
  <2> QED BY <2>3, <2>4, <2>5
<1> HIDE DEF x, y
<1>5. x = y
  BY <1>2, <1>3, <1>4, SeqEqual
<1> QED BY <1>1, <1>5 DEF x, y

\* The first `end` of s is the first one of s and t.
LEMMA ReadUntilSame ==
  ASSUME NEW end, NEW s \in Seq(Byte), NEW t \in Seq(Byte)
  PROVE  SameRead(ReadUntil(end, s), ReadUntil(end, s \o t), t)
<1> DEFINE I(q) == {i \in DOMAIN q : q[i] = end}
<1>1. CASE I(s) = {}
  BY <1>1 DEF ReadUntil, SameRead
<1>2. CASE I(s) # {}
  <2>1. PICK a \in I(s) : \A b \in I(s) : a <= b
    <3>1. I(s) \in SUBSET Nat
      OBVIOUS
    <3> HIDE DEF I
    <3> QED BY <1>2, <3>1, LeastNumber
  <2>2. a \in 1..Len(s) /\ s[a] = end
    OBVIOUS
  <2>3. a \in I(s \o t) /\ \A b \in I(s \o t) : a <= b
    <3>1. s \o t \in Seq(Byte) /\ Len(s \o t) = Len(s) + Len(t)
      OBVIOUS
    <3>2. \A i \in 1..Len(s) : (s \o t)[i] = s[i]
      OBVIOUS
    <3>3. a \in I(s \o t)
      BY <2>2, <3>1, <3>2
    <3>4. ASSUME NEW b \in I(s \o t), b < a
          PROVE  FALSE
      <4>1. b \in 1..Len(s) /\ s[b] = end
        BY <2>2, <3>1, <3>2, <3>4
      <4> QED BY <2>1, <3>4, <4>1
    <3> QED BY <3>1, <3>3, <3>4, <2>2
  <2>4. I(s) \subseteq Nat /\ I(s \o t) \subseteq Nat
    OBVIOUS
  <2> HIDE DEF I
  <2>5. Min(I(s)) = a /\ Min(I(s \o t)) = a
    BY <2>1, <2>3, <2>4 DEF Min
  <2> DEFINE u == SubSeq(s, 1, a - 1)
  <2>6. u = SubSeq(s \o t, 1, a - 1)
    BY <2>2, PrefixOfBoth
  <2>7. /\ SubSeq(s \o t, a + 1, Len(s \o t)) = SubSeq(s, a + 1, Len(s)) \o t
        /\ SubSeq(s, a + 1, Len(s)) \in Seq(Byte)
    <3>1. a \in 0..Len(s)
      BY <2>2
    <3> QED BY <3>1, RestOfBoth
  <2> HIDE DEF u
  <2>8. ReadUntil(end, s) = IF ReadNumeral(u) = Raises THEN Raises
                            ELSE Returns(<<ReadNumeral(u)[1], SubSeq(s, a + 1, Len(s))>>)
    BY <1>2, <2>5 DEF ReadUntil, u, I
  <2>9. ReadUntil(end, s \o t) = IF ReadNumeral(u) = Raises THEN Raises
                            ELSE Returns(<<ReadNumeral(u)[1], SubSeq(s, a + 1, Len(s)) \o t>>)
    <3>1. I(s \o t) # {}
      BY <2>3
    <3> QED BY <2>5, <2>6, <2>7, <3>1 DEF ReadUntil, I
  <2>10. CASE ReadNumeral(u) = Raises
    BY <2>8, <2>10 DEF SameRead
  <2>11. CASE ReadNumeral(u) # Raises
    BY <2>7, <2>8, <2>9, <2>11, Returned
  <2> QED BY <2>10, <2>11
<1> QED BY <1>1, <1>2

LEMMA ReadNumberSame ==
  ASSUME NEW s \in Seq(Byte), NEW t \in Seq(Byte)
  PROVE  SameRead(ReadNumber(s), ReadNumber(s \o t), t)
<1> DEFINE r == ReadUntil(CharE, s)
           q == ReadUntil(CharE, s \o t)
<1>1. SameRead(r, q, t)
  BY ReadUntilSame
<1>2. ReadNumber(s) = IF r = Raises THEN Raises ELSE Returns(<<Number(r[1][1]), r[1][2]>>)
  BY DEF ReadNumber
<1>3. ReadNumber(s \o t) = IF q = Raises THEN Raises ELSE Returns(<<Number(q[1][1]), q[1][2]>>)
  BY DEF ReadNumber
<1> HIDE DEF r, q
<1>4. CASE r = Raises
  BY <1>2, <1>4 DEF SameRead
<1>5. CASE r # Raises
  <2>1. /\ r[1][2] \in Seq(Byte) /\ q # Raises
        /\ q[1][1] = r[1][1] /\ q[1][2] = r[1][2] \o t
    BY <1>1, <1>5 DEF SameRead, Returns, Raises
  <2> QED BY <1>2, <1>3, <1>5, <2>1, Returned
<1> QED BY <1>4, <1>5

LEMMA ReadBytesSame ==
  ASSUME NEW s \in Seq(Byte), NEW t \in Seq(Byte)
  PROVE  SameRead(ReadBytes(s), ReadBytes(s \o t), t)
<1> DEFINE r == ReadUntil(Colon, s)
           q == ReadUntil(Colon, s \o t)
           CutAt(n, w) == Returns(<<Bytes(SubSeq(w, 1, n)), SubSeq(w, n + 1, Len(w))>>)
<1>1. SameRead(r, q, t)
  BY ReadUntilSame
<1>2. ReadBytes(s) = IF r = Raises \/ r[1][1] \notin 0..Len(r[1][2]) THEN Raises
                     ELSE CutAt(r[1][1], r[1][2])
  BY DEF ReadBytes
<1>3. ReadBytes(s \o t) = IF q = Raises \/ q[1][1] \notin 0..Len(q[1][2]) THEN Raises
                          ELSE CutAt(q[1][1], q[1][2])
  BY DEF ReadBytes
<1> HIDE DEF r, q
<1>4. CASE r = Raises \/ r[1][1] \notin 0..Len(r[1][2])
  BY <1>2, <1>4 DEF SameRead
<1>5. CASE r # Raises /\ r[1][1] \in 0..Len(r[1][2])
  <2> DEFINE n == r[1][1]
             w == r[1][2]
  <2>1. w \in Seq(Byte) /\ q # Raises /\ q[1][1] = n /\ q[1][2] = w \o t
    BY <1>1, <1>5 DEF SameRead, Returns, Raises
  <2>2. n \in 0..Len(w)
    BY <1>5
  <2> HIDE DEF n, w, CutAt
  <2>3. n \in 0..Len(w \o t)
    BY <2>1, <2>2
  <2>4. ReadBytes(s) = CutAt(n, w) /\ ReadBytes(s \o t) = CutAt(n, w \o t)
    BY <1>2, <1>3, <1>5, <2>1, <2>2, <2>3 DEF n, w
  <2>5. SubSeq(w \o t, 1, n) = SubSeq(w, 1, n)
    BY <2>1, <2>2, PrefixOfBoth
  <2>6. /\ SubSeq(w \o t, n + 1, Len(w \o t)) = SubSeq(w, n + 1, Len(w)) \o t
        /\ SubSeq(w, n + 1, Len(w)) \in Seq(Byte)
    BY <2>1, <2>2, RestOfBoth
  <2> QED BY <2>4, <2>5, <2>6, Returned DEF CutAt
<1> QED BY <1>4, <1>5

-------------------------------------------------------------------------------
(* The machine does the same, whatever follows what it reads *)

\* The machine with t after what it still has to read.
Followed(m, t) == [at |-> m.at, holds |-> m.holds, rest |-> m.rest \o t]

\* What a machine may be.
Machine(m) ==
  /\ m = [at |-> m.at, holds |-> m.holds, rest |-> m.rest]
  /\ m.at \in {"reading", "finished", "raised"}
  /\ m.rest \in Seq(Byte)

\* m, and the machine n that has t after what m has to read: both go on in the same way.
Alike(m, n, t) == m.at # "raised" => n = Followed(m, t)

\* An object that is handed to the caller.
LEMMA ReturnAlike ==
  ASSUME NEW open, NEW v, NEW s \in Seq(Byte), NEW t \in Seq(Byte)
  PROVE  Machine(Return(open, v, s)) /\ Alike(Return(open, v, s), Return(open, v, s \o t), t)
<1>1. CASE open = <<>>
  BY <1>1 DEF Return, Finished, Machine, Alike, Followed
<1>2. CASE open # <<>> /\ NeedsKey(Head(open)) /\ v[1] # "bytes"
  BY <1>2, NothingIsBytes DEF Return, Stopped, Machine, Alike, Followed
<1>3. CASE open # <<>> /\ ~(NeedsKey(Head(open)) /\ v[1] # "bytes")
  BY <1>3 DEF Return, Reading, Machine, Alike, Followed
<1> QED BY <1>1, <1>2, <1>3

LEMMA ReturnReadAlike ==
  ASSUME NEW open, NEW r, NEW q, NEW t \in Seq(Byte), SameRead(r, q, t)
  PROVE  Machine(ReturnRead(open, r)) /\ Alike(ReturnRead(open, r), ReturnRead(open, q), t)
<1>1. CASE r = Raises
  BY <1>1, NothingIsBytes DEF ReturnRead, Stopped, Machine, Alike, Followed
<1>2. CASE r # Raises
  <2>1. /\ r[1][2] \in Seq(Byte) /\ q # Raises
        /\ q[1][1] = r[1][1] /\ q[1][2] = r[1][2] \o t
    BY <1>2 DEF SameRead, Returns, Raises
  <2> QED BY <1>2, <2>1, ReturnAlike DEF ReturnRead
<1> QED BY <1>1, <1>2

LEMMA DecodeNextAlike ==
  ASSUME NEW open, NEW s \in Seq(Byte), NEW t \in Seq(Byte)
  PROVE  Machine(DecodeNext(open, s)) /\ Alike(DecodeNext(open, s), DecodeNext(open, s \o t), t)
<1> DEFINE more == SubSeq(s, 2, Len(s))
           more2 == SubSeq(s \o t, 2, Len(s \o t))
<1>1. CASE s = <<>>
  BY <1>1, NothingIsBytes DEF DecodeNext, EndsObject, Stopped, Machine, Alike, Followed
<1>2. CASE s # <<>>
  <2>1. 1 \in 0..Len(s) /\ (s \o t)[1] = s[1] /\ s \o t # <<>>
    BY <1>2
  <2>2. more \in Seq(Byte) /\ more2 = more \o t
    BY <2>1, RestOfBoth
  <2>3. EndsObject(open, s \o t) = EndsObject(open, s)
    BY <1>2, <2>1 DEF EndsObject
  <2> DEFINE Rest(q, w) ==
        IF EndsObject(open, s) THEN Return(Tail(open), Head(open).object, w)
        ELSE IF s[1] = CharI THEN ReturnRead(open, ReadNumber(w))
        ELSE IF s[1] = CharL THEN Reading(<<Opened(List(<<>>))>> \o open, w)
        ELSE IF s[1] = CharD THEN Reading(<<Opened(Dict(<<>>))>> \o open, w)
        ELSE IF s[1] \in Zero..Nine THEN ReturnRead(open, ReadBytes(q))
        ELSE Stopped
  <2>4. DecodeNext(open, s) = Rest(s, more) /\ DecodeNext(open, s \o t) = Rest(s \o t, more2)
    BY <1>2, <2>1, <2>3 DEF DecodeNext
  <2> HIDE DEF more, more2
  <2>5. Machine(Rest(s, more)) /\ Alike(Rest(s, more), Rest(s \o t, more \o t), t)
    <3>1. CASE EndsObject(open, s)
      BY <2>2, <3>1, ReturnAlike
    <3>2. CASE ~EndsObject(open, s) /\ s[1] = CharI
      <4>1. SameRead(ReadNumber(more), ReadNumber(more \o t), t)
        BY <2>2, ReadNumberSame
      <4> QED BY <3>2, <4>1, ReturnReadAlike
    <3>3. CASE ~EndsObject(open, s) /\ s[1] # CharI /\ s[1] \in {CharL, CharD}
      BY <2>2, <3>3 DEF Reading, Machine, Alike, Followed
    <3>4. CASE ~EndsObject(open, s) /\ s[1] \notin {CharI, CharL, CharD} /\ s[1] \in Zero..Nine
      <4>1. SameRead(ReadBytes(s), ReadBytes(s \o t), t)
        BY ReadBytesSame
      <4> QED BY <3>4, <4>1, ReturnReadAlike
    <3>5. CASE ~EndsObject(open, s) /\ s[1] \notin {CharI, CharL, CharD} /\ s[1] \notin Zero..Nine
      BY <3>5, NothingIsBytes DEF Stopped, Machine, Alike, Followed
    <3> QED BY <3>1, <3>2, <3>3, <3>4, <3>5
  <2> QED BY <2>2, <2>4, <2>5
<1> QED BY <1>1, <1>2

LEMMA DecodeStepAlike ==
  ASSUME NEW m, NEW n, NEW t \in Seq(Byte), Machine(m), Alike(m, n, t)
  PROVE  Machine(DecodeStep(m)) /\ Alike(DecodeStep(m), DecodeStep(n), t)
<1>1. CASE m.at = "reading"
  <2>1. n.at = "reading" /\ n.holds = m.holds /\ n.rest = m.rest \o t
    BY <1>1 DEF Alike, Followed
  <2>2. m.rest \in Seq(Byte)
    BY DEF Machine
  <2> QED BY <1>1, <2>1, <2>2, DecodeNextAlike DEF DecodeStep
<1>2. CASE m.at = "finished"
  <2>1. n.at = "finished"
    BY <1>2 DEF Alike, Followed
  <2>2. DecodeStep(m) = m /\ DecodeStep(n) = n
    BY <1>2, <2>1 DEF DecodeStep
  <2> QED BY <2>2
<1>3. CASE m.at = "raised"
  BY <1>3 DEF DecodeStep, Alike
<1> QED BY <1>1, <1>2, <1>3 DEF Machine

-------------------------------------------------------------------------------
(* Decoding is the function that its definition describes: there is one for every number of
   steps, and any two agree as far as both go *)

\* f is what the machine does in its first n steps.
FirstSteps(f, s, n) ==
  f = [k \in 0..n |-> IF k = 0 THEN Reading(<<>>, s) ELSE DecodeStep(f[k - 1])]

LEMMA FirstStepsExist == ASSUME NEW s, NEW n \in Nat PROVE \E f : FirstSteps(f, s, n)
<1> DEFINE T == {k \in Nat : ~ \E f : FirstSteps(f, s, k)}
<1> SUFFICES ASSUME T # {} PROVE FALSE
  OBVIOUS
<1>1. PICK k \in T : \A j \in T : k <= j
  <2>1. T \in SUBSET Nat
    OBVIOUS
  <2> HIDE DEF T
  <2> QED BY <2>1, LeastNumber
<1>2. k # 0
  <2>1. FirstSteps([j \in 0..0 |-> Reading(<<>>, s)], s, 0)
    BY DEF FirstSteps
  <2> QED BY <2>1
<1>3. PICK g : FirstSteps(g, s, k - 1)
  BY <1>1, <1>2
<1> DEFINE f == [j \in 0..k |-> IF j < k THEN g[j] ELSE DecodeStep(g[k - 1])]
<1>4. FirstSteps(f, s, k)
  <2>1. ASSUME NEW j \in 0..k
        PROVE  f[j] = IF j = 0 THEN Reading(<<>>, s) ELSE DecodeStep(f[j - 1])
    <3>1. CASE j < k
      <4>1. g[j] = IF j = 0 THEN Reading(<<>>, s) ELSE DecodeStep(g[j - 1])
        BY <1>3, <3>1 DEF FirstSteps
      <4>2. j # 0 => j - 1 \in 0..k /\ j - 1 < k
        OBVIOUS
      <4> QED BY <3>1, <4>1, <4>2
    <3>2. CASE j = k
      BY <1>2, <3>2
    <3> QED BY <3>1, <3>2
  <2> HIDE DEF f
  <2>2. f = [j \in 0..k |-> f[j]]
    BY DEF f
  <2> QED BY <2>1, <2>2 DEF FirstSteps
<1> QED BY <1>1, <1>4

LEMMA FirstStepsAgree ==
  ASSUME NEW s, NEW n \in Nat, NEW m \in Nat, NEW f, NEW g,
         FirstSteps(f, s, n), FirstSteps(g, s, m), NEW i \in 0..n, i <= m
  PROVE  f[i] = g[i]
<1> DEFINE T == {k \in 0..i : f[k] # g[k]}
<1> SUFFICES ASSUME T # {} PROVE FALSE
  OBVIOUS
<1>1. PICK k \in T : \A j \in T : k <= j
  <2>1. T \in SUBSET Nat
    OBVIOUS
  <2> HIDE DEF T
  <2> QED BY <2>1, LeastNumber
<1>2. /\ f[k] = IF k = 0 THEN Reading(<<>>, s) ELSE DecodeStep(f[k - 1])
      /\ g[k] = IF k = 0 THEN Reading(<<>>, s) ELSE DecodeStep(g[k - 1])
  BY DEF FirstSteps
<1>3. k # 0
  BY <1>2
<1>4. k - 1 \notin T /\ k - 1 \in 0..i
  BY <1>1, <1>3
<1> QED BY <1>2, <1>3, <1>4

LEMMA DecodingSteps ==
  ASSUME NEW s
  PROVE  /\ Decoding(s)[0] = Reading(<<>>, s)
         /\ \A n \in Nat : Decoding(s)[n + 1] = DecodeStep(Decoding(s)[n])
<1> DEFINE Steps(f) == f = [n \in Nat |-> IF n = 0 THEN Reading(<<>>, s) ELSE DecodeStep(f[n - 1])]
           upto(n) == CHOOSE f : FirstSteps(f, s, n)
           all == [n \in Nat |-> upto(n)[n]]
<1>1. \A n \in Nat : FirstSteps(upto(n), s, n)
  BY FirstStepsExist
<1> HIDE DEF upto
<1>2. ASSUME NEW n \in Nat
      PROVE  all[n] = IF n = 0 THEN Reading(<<>>, s) ELSE DecodeStep(all[n - 1])
  <2>1. upto(n)[n] = IF n = 0 THEN Reading(<<>>, s) ELSE DecodeStep(upto(n)[n - 1])
    BY <1>1 DEF FirstSteps
  <2>2. n # 0 => upto(n)[n - 1] = upto(n - 1)[n - 1]
    <3>1. ASSUME n # 0
          PROVE  n - 1 \in Nat /\ n - 1 \in 0..n /\ n - 1 <= n - 1
      BY <3>1
    <3> QED BY <1>1, <3>1, FirstStepsAgree
  <2>3. n # 0 => n - 1 \in Nat
    OBVIOUS
  <2> QED BY <2>1, <2>2, <2>3
<1>3. Steps(all)
  <2> HIDE DEF all
  <2>1. all = [n \in Nat |-> all[n]]
    BY DEF all
  <2> QED BY <1>2, <2>1
<1>4. Steps(CHOOSE f : Steps(f))
  BY <1>3, Zenon
<1>5. Decoding(s) = CHOOSE f : Steps(f)
  BY Zenon DEF Decoding
<1>6. \A n \in Nat : Decoding(s)[n] = IF n = 0 THEN Reading(<<>>, s) ELSE DecodeStep(Decoding(s)[n - 1])
  BY <1>4, <1>5
<1>7. \A n \in Nat : n + 1 \in Nat /\ n + 1 # 0 /\ (n + 1) - 1 = n
  OBVIOUS
<1> QED BY <1>6, <1>7

-------------------------------------------------------------------------------
(* What decode() makes of a file that is cut short *)

\* While decode() of s has not raised, decode() of s and t has done the same.
LEMMA DecodingAlike ==
  ASSUME NEW s \in Seq(Byte), NEW t \in Seq(Byte), NEW n \in Nat
  PROVE  Machine(Decoding(s)[n]) /\ Alike(Decoding(s)[n], Decoding(s \o t)[n], t)
<1> DEFINE P(k) == Machine(Decoding(s)[k]) /\ Alike(Decoding(s)[k], Decoding(s \o t)[k], t)
           T == {k \in Nat : ~P(k)}
<1> SUFFICES ASSUME T # {} PROVE FALSE
  OBVIOUS
<1>1. PICK k \in T : \A j \in T : k <= j
  <2>1. T \in SUBSET Nat
    OBVIOUS
  <2> HIDE DEF T
  <2> QED BY <2>1, LeastNumber
<1>2. P(0)
  <2>1. Decoding(s)[0] = Reading(<<>>, s) /\ Decoding(s \o t)[0] = Reading(<<>>, s \o t)
    BY DecodingSteps
  <2>2. Machine(Reading(<<>>, s)) /\ Alike(Reading(<<>>, s), Reading(<<>>, s \o t), t)
    BY DEF Reading, Machine, Alike, Followed
  <2> QED BY <2>1, <2>2
<1>3. k # 0
  BY <1>2
<1>4. k - 1 \in Nat /\ P(k - 1)
  BY <1>1, <1>3
<1>5. /\ Decoding(s)[(k - 1) + 1] = DecodeStep(Decoding(s)[k - 1])
      /\ Decoding(s \o t)[(k - 1) + 1] = DecodeStep(Decoding(s \o t)[k - 1])
  BY <1>4, DecodingSteps
<1>6. (k - 1) + 1 = k
  OBVIOUS
<1>7. P(k)
  BY <1>4, <1>5, <1>6, DecodeStepAlike
<1> QED BY <1>1, <1>7

\* What decode() has finished with stays as it is.
LEMMA DecodingStays ==
  ASSUME NEW s, NEW n \in Nat, NEW m \in Nat, n <= m, Decoding(s)[n].at # "reading"
  PROVE  Decoding(s)[m] = Decoding(s)[n]
<1> DEFINE T == {k \in Nat : k >= n /\ Decoding(s)[k] # Decoding(s)[n]}
<1> SUFFICES ASSUME T # {} PROVE FALSE
  OBVIOUS
<1>1. PICK k \in T : \A j \in T : k <= j
  <2>1. T \in SUBSET Nat
    OBVIOUS
  <2> HIDE DEF T
  <2> QED BY <2>1, LeastNumber
<1>2. k # n /\ k - 1 \in Nat /\ k - 1 >= n /\ (k - 1) + 1 = k
  OBVIOUS
<1>3. Decoding(s)[k - 1] = Decoding(s)[n]
  BY <1>1, <1>2
<1>4. Decoding(s)[(k - 1) + 1] = DecodeStep(Decoding(s)[k - 1])
  BY <1>2, DecodingSteps
<1> QED BY <1>2, <1>3, <1>4 DEF DecodeStep

\* No bencoded object is the beginning of another one: if decode() returns for a file, it
\* raises for every shorter part of it (decode, _decode_next).
THEOREM DecodeIsPrefixFree ==
  ASSUME NEW s \in Seq(Byte), NEW t \in Seq(Byte), Decode(s) # Raises, Decode(s \o t) # Raises
  PROVE  t = <<>>
<1> DEFINE m == Decoding(s)[Len(s)]
           q == Decoding(s \o t)[Len(s)]
<1>1. m.at = "finished" /\ m.rest = <<>>
  BY DEF Decode
<1>2. q = Followed(m, t)
  BY <1>1, DecodingAlike DEF Alike
<1>3. q.at = "finished" /\ q.rest = t
  BY <1>1, <1>2 DEF Followed
<1>4. Decoding(s \o t)[Len(s \o t)] = q
  <2>1. Len(s) \in Nat /\ Len(s \o t) \in Nat /\ Len(s) <= Len(s \o t)
    OBVIOUS
  <2> QED BY <1>3, <2>1, DecodingStays
<1>5. Decoding(s \o t)[Len(s \o t)].rest = <<>>
  BY DEF Decode
<1> QED BY <1>3, <1>4, <1>5

-------------------------------------------------------------------------------
(* Every step takes a byte *)

\* A numeral and its end are one byte at least.
LEMMA ReadUntilTakes ==
  ASSUME NEW end, NEW s \in Seq(Byte), ReadUntil(end, s) # Raises
  PROVE  /\ ReadUntil(end, s)[1][2] \in Seq(Byte)
         /\ Len(ReadUntil(end, s)[1][2]) < Len(s)
<1> DEFINE I == {i \in DOMAIN s : s[i] = end}
<1>1. I # {}
  BY DEF ReadUntil
<1>2. Min(I) \in 1..Len(s)
  <2>1. I \in SUBSET Nat
    OBVIOUS
  <2>2. PICK a \in I : \A b \in I : a <= b
    <3> HIDE DEF I
    <3> QED BY <1>1, <2>1, LeastNumber
  <2>3. I \subseteq 1..Len(s)
    OBVIOUS
  <2> HIDE DEF I
  <2> QED BY <2>1, <2>2, <2>3 DEF Min
<1>3. ReadUntil(end, s)[1][2] = SubSeq(s, Min(I) + 1, Len(s))
  BY <1>1 DEF ReadUntil, Returns
<1> HIDE DEF I
<1> QED BY <1>2, <1>3

LEMMA ReadNumberTakes ==
  ASSUME NEW s \in Seq(Byte), ReadNumber(s) # Raises
  PROVE  ReadNumber(s)[1][2] \in Seq(Byte) /\ Len(ReadNumber(s)[1][2]) < Len(s)
<1>1. ReadUntil(CharE, s) # Raises /\ ReadNumber(s)[1][2] = ReadUntil(CharE, s)[1][2]
  BY DEF ReadNumber, Returns
<1> QED BY <1>1, ReadUntilTakes

LEMMA ReadBytesTakes ==
  ASSUME NEW s \in Seq(Byte), ReadBytes(s) # Raises
  PROVE  ReadBytes(s)[1][2] \in Seq(Byte) /\ Len(ReadBytes(s)[1][2]) < Len(s)
<1> DEFINE r == ReadUntil(Colon, s)
           n == r[1][1]
           w == r[1][2]
<1>1. r # Raises /\ n \in 0..Len(w) /\ ReadBytes(s)[1][2] = SubSeq(w, n + 1, Len(w))
  BY DEF ReadBytes, Returns
<1>2. w \in Seq(Byte) /\ Len(w) < Len(s)
  BY <1>1, ReadUntilTakes
<1> HIDE DEF r, n, w
<1>3. SubSeq(w, n + 1, Len(w)) \in Seq(Byte) /\ Len(SubSeq(w, n + 1, Len(w))) <= Len(w)
  BY <1>1, <1>2
<1> QED BY <1>1, <1>2, <1>3

\* What is left to read after a step of at most s.
Less(m, s) == m.at = "reading" => Len(m.rest) < Len(s)

LEMMA ReturnLess ==
  ASSUME NEW open, NEW v, NEW w \in Seq(Byte), NEW s \in Seq(Byte), Len(w) < Len(s)
  PROVE  Less(Return(open, v, w), s)
BY DEF Return, Finished, Stopped, Reading, Less

LEMMA DecodeNextTakes ==
  ASSUME NEW open, NEW s \in Seq(Byte)
  PROVE  Less(DecodeNext(open, s), s)
<1> DEFINE more == SubSeq(s, 2, Len(s))
<1>1. CASE s = <<>>
  BY <1>1 DEF DecodeNext, EndsObject, Stopped, Less
<1>2. CASE s # <<>>
  <2>1. more \in Seq(Byte) /\ Len(more) < Len(s)
    BY <1>2
  <2> HIDE DEF more
  <2>2. CASE EndsObject(open, s)
    BY <2>1, <2>2, ReturnLess DEF DecodeNext, more
  <2>3. CASE ~EndsObject(open, s) /\ s[1] = CharI
    <3>1. DecodeNext(open, s) = ReturnRead(open, ReadNumber(more))
      BY <1>2, <2>3 DEF DecodeNext, more
    <3>2. CASE ReadNumber(more) = Raises
      BY <3>1, <3>2 DEF ReturnRead, Stopped, Less
    <3>3. CASE ReadNumber(more) # Raises
      <4>1. ReadNumber(more)[1][2] \in Seq(Byte) /\ Len(ReadNumber(more)[1][2]) < Len(s)
        BY <2>1, <3>3, ReadNumberTakes
      <4> QED BY <3>1, <3>3, <4>1, ReturnLess DEF ReturnRead
    <3> QED BY <3>2, <3>3
  <2>4. CASE ~EndsObject(open, s) /\ s[1] # CharI /\ s[1] \in {CharL, CharD}
    BY <1>2, <2>1, <2>4 DEF DecodeNext, Reading, Less, more
  <2>5. CASE ~EndsObject(open, s) /\ s[1] \notin {CharI, CharL, CharD} /\ s[1] \in Zero..Nine
    <3>1. DecodeNext(open, s) = ReturnRead(open, ReadBytes(s))
      BY <1>2, <2>5 DEF DecodeNext
    <3>2. CASE ReadBytes(s) = Raises
      BY <3>1, <3>2 DEF ReturnRead, Stopped, Less
    <3>3. CASE ReadBytes(s) # Raises
      BY <3>1, <3>3, ReadBytesTakes, ReturnLess DEF ReturnRead
    <3> QED BY <3>2, <3>3
  <2>6. CASE ~EndsObject(open, s) /\ s[1] \notin {CharI, CharL, CharD} /\ s[1] \notin Zero..Nine
    BY <1>2, <2>6 DEF DecodeNext, Stopped, Less
  <2> QED BY <2>2, <2>3, <2>4, <2>5, <2>6
<1> QED BY <1>1, <1>2

\* As long as it goes on, the machine has taken a byte in every step.
LEMMA DecodingTakes ==
  ASSUME NEW s \in Seq(Byte), NEW n \in Nat, Decoding(s)[n].at = "reading"
  PROVE  Len(Decoding(s)[n].rest) + n <= Len(s)
<1> DEFINE M(k) == Decoding(s)[k]
           T == {k \in Nat : ~(M(k).at = "reading" => Len(M(k).rest) + k <= Len(s))}
<1> SUFFICES ASSUME T # {} PROVE FALSE
  OBVIOUS
<1>1. PICK k \in T : \A j \in T : k <= j
  <2>1. T \in SUBSET Nat
    OBVIOUS
  <2> HIDE DEF T
  <2> QED BY <2>1, LeastNumber
<1>2. M(0) = Reading(<<>>, s)
  BY DecodingSteps
<1>3. k # 0
  BY <1>2 DEF Reading
<1>4. k - 1 \in Nat /\ k - 1 \notin T /\ (k - 1) + 1 = k
  <2>1. k \in Nat
    OBVIOUS
  <2> HIDE DEF T, M
  <2> QED BY <1>1, <1>3, <2>1
<1>5. M((k - 1) + 1) = DecodeStep(M(k - 1))
  BY <1>4, DecodingSteps
<1>6. M(k - 1).at = "reading" /\ M(k) = DecodeNext(M(k - 1).holds, M(k - 1).rest)
  BY <1>4, <1>5 DEF DecodeStep
<1>7. M(k - 1).rest \in Seq(Byte)
  BY <1>4, NothingIsBytes, DecodingAlike DEF Machine
<1>8. Len(M(k).rest) < Len(M(k - 1).rest)
  BY <1>6, <1>7, DecodeNextTakes DEF Less
<1>9. M(k).rest \in Seq(Byte)
  BY NothingIsBytes, DecodingAlike DEF Machine
<1> HIDE DEF M
<1>10. Len(M(k - 1).rest) + (k - 1) <= Len(s)
  BY <1>4, <1>6
<1>11. Len(M(k).rest) \in Nat /\ Len(M(k - 1).rest) \in Nat
  BY <1>7, <1>9
<1>12. Len(M(k).rest) + k <= Len(s)
  BY <1>8, <1>10, <1>11
<1> QED BY <1>12

\* decode() ends within as many steps as there are bytes: what it finishes with at all, it has
\* finished with by then (decode, _decode_next).
THEOREM DecodeEnds ==
  ASSUME NEW s \in Seq(Byte), NEW n \in Nat, n >= Len(s), Decoding(s)[n].at = "finished"
  PROVE  Decoding(s)[n] = Decoding(s)[Len(s)]
<1> DEFINE m == Decoding(s)[Len(s)]
<1>1. CASE m.at # "reading"
  BY <1>1, DecodingStays
<1>2. CASE m.at = "reading"
  <2>1. m.rest \in Seq(Byte)
    <3>1. Len(s) \in Nat
      OBVIOUS
    <3>2. Machine(m)
      BY <3>1, NothingIsBytes, DecodingAlike
    <3> QED BY <3>2 DEF Machine
  <2>2. m.rest = <<>>
    <3>1. Len(m.rest) + Len(s) <= Len(s)
      BY <1>2, DecodingTakes
    <3> HIDE DEF m
    <3> QED BY <2>1, <3>1
  <2>3. Decoding(s)[Len(s) + 1].at = "raised"
    <3>1. Decoding(s)[Len(s) + 1] = DecodeStep(m)
      BY DecodingSteps
    <3>2. DecodeNext(m.holds, <<>>) = Stopped
      BY DEF DecodeNext, EndsObject
    <3> QED BY <1>2, <2>2, <3>1, <3>2 DEF DecodeStep, Stopped
  <2>4. n # Len(s)
    BY <1>2
  <2>5. Decoding(s)[n] = Decoding(s)[Len(s) + 1]
    BY <2>3, <2>4, DecodingStays
  <2> QED BY <2>3, <2>5
<1> QED BY <1>1, <1>2
===============================================================================
