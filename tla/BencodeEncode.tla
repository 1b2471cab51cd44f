----------------------------- MODULE BencodeEncode ----------------------------
(***************************************************************************)
(* encode() of src/src/bencode.py, and what other tools write.  The         *)
(* operators are recursive, so this module is for TLC only.                 *)
(***************************************************************************)
EXTENDS Bencode

RECURSIVE Decimal(_)
Decimal(n) ==
  IF n < 0 THEN <<Minus>> \o Decimal(-n)
  ELSE IF n < 10 THEN <<Zero + n>> ELSE Decimal(n \div 10) \o <<Zero + (n % 10)>>

EncodeBytes(s) == Decimal(Len(s)) \o <<Colon>> \o s

\* Python's < on bytes.
Before(s, t) ==
  \/ IsStrictPrefix(s, t)
  \/ \E i \in DOMAIN s \cap DOMAIN t :
       /\ s[i] < t[i]
       /\ \A k \in 1..(i - 1) : s[k] = t[k]

\* What the keys of a dictionary are sorted by: their encoding (encode), or the keys
\* themselves (the definition of bencoding, BEP 3).
SortKey(by, k) == IF by = "encoding" THEN EncodeBytes(k) ELSE k

RECURSIVE EncodeBy(_, _)
EncodeBy(by, v) ==
  CASE v[1] = "bytes" -> EncodeBytes(v[2])
    [] v[1] = "int"   -> <<CharI>> \o Decimal(v[2]) \o <<CharE>>
    [] v[1] = "list"  ->
         <<CharL>> \o FlattenSeq([i \in DOMAIN v[2] |-> EncodeBy(by, v[2][i])]) \o <<CharE>>
    [] v[1] = "dict"  ->
         LET keys == SetToSortSeq(DOMAIN v[2], LAMBDA k, l : Before(SortKey(by, k), SortKey(by, l)))
             Entry(k) == EncodeBytes(k) \o EncodeBy(by, v[2][k])
         IN  <<CharD>> \o FlattenSeq([i \in DOMAIN keys |-> Entry(keys[i])]) \o <<CharE>>

\* encode()
Encode(v) == EncodeBy("encoding", v)

\* The canonical form of BEP 3.
Canonical(v) == EncodeBy("key", v)
===============================================================================
