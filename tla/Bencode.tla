-------------------------------- MODULE Bencode -------------------------------
(***************************************************************************)
(* Bencoding (src/src/bencode.py): the objects, and decode() on sequences   *)
(* of bytes.  A Python object is a pair of its kind and its content, see    *)
(* the constructors below; what raises ValueError is the empty sequence,    *)
(* and what returns x is <<x>>.                                             *)
(*                                                                          *)
(* decode() is a machine whose step reads one byte, and a number or a       *)
(* string at once.  The calls of _decode_next that wait for another one are *)
(* the lists and dictionaries that are open, the innermost first.           *)
(*                                                                          *)
(* Abstractions: of the numerals that Python's int() takes only digits with *)
(* an optional minus sign are read as numbers.                              *)
(*                                                                          *)
(* A definition whose comment starts with "Slip" is not part of the model   *)
(* (see PieceScheduler).                                                    *)
(***************************************************************************)
EXTENDS Integers, SequencesExt

Bytes(s)  == <<"bytes", s>>
Number(n) == <<"int", n>>
List(s)   == <<"list", s>>
Dict(f)   == <<"dict", f>>

Raises     == <<>>
Returns(x) == <<x>>

\* ASCII
Minus == 45
Zero  == 48
Nine  == 57
Colon == 58
CharD == 100
CharE == 101
CharI == 105
CharL == 108

-------------------------------------------------------------------------------
(* Numbers and strings: the object, and the bytes after it *)

\* int()
ReadNumeral(s) ==
  LET digits == IF s # <<>> /\ s[1] = Minus THEN Tail(s) ELSE s
      n == FoldLeft(LAMBDA m, d : 10 * m + d - Zero, 0, digits)
  IN  IF digits = <<>> \/ \E i \in DOMAIN digits : digits[i] \notin Zero..Nine
      THEN Raises ELSE Returns(IF digits = s THEN n ELSE -n)

\* The numeral before the byte `end`, and what follows that byte.
ReadUntil(end, s) ==
  LET ends == {i \in DOMAIN s : s[i] = end}
      n    == ReadNumeral(SubSeq(s, 1, Min(ends) - 1))
  IN  IF ends = {} \/ n = Raises THEN Raises
      ELSE Returns(<<n[1], SubSeq(s, Min(ends) + 1, Len(s))>>)

ReadNumber(s) ==
  LET n == ReadUntil(CharE, s)
  IN  IF n = Raises THEN Raises ELSE Returns(<<Number(n[1][1]), n[1][2]>>)

\* The length is read from its first digit on, so it is not negative.
ReadBytes(s) ==
  LET n == ReadUntil(Colon, s)
  IN  IF n = Raises \/ n[1][1] \notin 0..Len(n[1][2]) THEN Raises
      ELSE Returns(<<Bytes(SubSeq(n[1][2], 1, n[1][1])),
                     SubSeq(n[1][2], n[1][1] + 1, Len(n[1][2]))>>)

-------------------------------------------------------------------------------
(* decode *)

\* What is open: the object so far and, of an entry of a dictionary, its key.
Opened(object) == [object |-> object, key |-> <<>>]

Reading(open, s)  == [at |-> "reading", holds |-> open, rest |-> s]
Finished(v, s)    == [at |-> "finished", holds |-> v, rest |-> s]
Stopped           == [at |-> "raised", holds |-> <<>>, rest |-> <<>>]

\* The next item of a list, or the key or the value of an entry.  Of two entries with one
\* key the last one stays.
With(o, v) ==
  IF o.object[1] = "list" THEN Opened(List(Append(o.object[2], v)))
  ELSE IF o.key = <<>> THEN [o EXCEPT !.key = <<v[2]>>]
  ELSE Opened(Dict((o.key[1] :> v) @@ o.object[2]))

NeedsKey(o) == o.object[1] = "dict" /\ o.key = <<>>

\* _decode_next returns v; s is what follows.
Return(open, v, s) ==
  IF open = <<>> THEN Finished(v, s)
  ELSE IF NeedsKey(Head(open)) /\ v[1] # "bytes" THEN Stopped
  ELSE Reading(<<With(Head(open), v)>> \o Tail(open), s)

\* What a read of a number or a string returns, or that it raises.
ReturnRead(open, r) == IF r = Raises THEN Stopped ELSE Return(open, r[1][1], r[1][2])

\* Slip: the end of the data ends a list or a dictionary too.
EndsEarly(open, s) == (s = <<>> \/ s[1] = CharE) /\ open # <<>> /\ Head(open).key = <<>>

\* An `e` ends a list, and a dictionary in which no value is due.
EndsObject(open, s) == s # <<>> /\ s[1] = CharE /\ open # <<>> /\ Head(open).key = <<>>

\* _decode_next, up to where it calls itself or returns.
DecodeNext(open, s) ==
  LET more == SubSeq(s, 2, Len(s)) IN
  IF EndsObject(open, s) THEN Return(Tail(open), Head(open).object, more)
  ELSE IF s = <<>> THEN Stopped
  ELSE IF s[1] = CharI THEN ReturnRead(open, ReadNumber(more))
  ELSE IF s[1] = CharL THEN Reading(<<Opened(List(<<>>))>> \o open, more)
  ELSE IF s[1] = CharD THEN Reading(<<Opened(Dict(<<>>))>> \o open, more)
  ELSE IF s[1] \in Zero..Nine THEN ReturnRead(open, ReadBytes(s))
  ELSE Stopped

DecodeStep(m) == IF m.at = "reading" THEN DecodeNext(m.holds, m.rest) ELSE m

\* The machine after each number of steps.
Decoding(s) ==
  LET after[n \in Nat] == IF n = 0 THEN Reading(<<>>, s) ELSE DecodeStep(after[n - 1])
  IN  after

\* decode().  A step takes a byte at least, so that Len(s) steps are enough.
Decode(s) ==
  LET m == Decoding(s)[Len(s)]
  IN  IF m.at = "finished" /\ m.rest = <<>> THEN Returns(m.holds) ELSE Raises
===============================================================================
