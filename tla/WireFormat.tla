------------------------------- MODULE WireFormat ------------------------------
(***************************************************************************)
(* The bytes of a connection (src/src/peer.py): how messages are built and  *)
(* parsed, and what a peer may send.                                        *)
(*                                                                          *)
(* A definition whose comment starts with "Slip" is not part of the model   *)
(* (see PieceScheduler).                                                    *)
(***************************************************************************)
EXTENDS Integers, Sequences, FiniteSets

CONSTANTS
  NumPieces,     \* pieces of the torrent
  HandshakeLen,  \* bytes of a handshake: 68
  ReadSize,      \* the most bytes that read() returns: 4096
  Streams        \* what peers may send, see Framed

\* n fits the four bytes of struct.pack(">I").
Fits(n) == n \in Nat /\ ((n \div 256) \div 256) \div 256 < 256

ASSUME SizesAssumption ==
  /\ Fits(NumPieces)
  /\ HandshakeLen \in Nat \ {0}
  /\ ReadSize \in Nat \ {0}

Choke    == 0
Unchoke  == 1
Have     == 4
Bitfield == 5
Piece    == 7
KeepAlive == [id |-> -1, payload |-> <<>>]   \* msg_id None

Greetings == {"same", "other", "garbage"}

Byte == 0..255

Message ==
  {KeepAlive} \cup {m \in [id : Byte, payload : Seq(Byte)] : Fits(1 + Len(m.payload))}

\* struct.pack(">I", n), for n that fits, and struct.unpack.
Word(n) ==
  <<((n \div 256) \div 256) \div 256, ((n \div 256) \div 256) % 256, (n \div 256) % 256, n % 256>>
WordAt(s) == ((s[1] * 256 + s[2]) * 256 + s[3]) * 256 + s[4]

\* build_message, build_keepalive
Build(m) ==
  IF m = KeepAlive THEN Word(0) ELSE Word(1 + Len(m.payload)) \o <<m.id>> \o m.payload

\* The bytes of s are a handshake and the messages of s; before the k-th lie starts[k] bytes.
Framed(s) ==
  /\ s \in [greeting : Greetings, messages : Seq(Message), bytes : Seq(Byte), starts : Seq(Nat)]
  /\ Len(s.starts) = Len(s.messages) + 1
  /\ s.starts[1] = HandshakeLen
  /\ s.starts[Len(s.messages) + 1] = Len(s.bytes)
  /\ \A k \in 1..Len(s.messages) :
       SubSeq(s.bytes, s.starts[k] + 1, s.starts[k + 1]) = Build(s.messages[k])

ASSUME StreamsAssumption == \A s \in Streams : Framed(s)

\* No peer has been dialed.
Nothing ==
  [greeting |-> "same", messages |-> <<>>, starts |-> <<HandshakeLen>>,
   bytes |-> [i \in 1..HandshakeLen |-> 0]]

\* parse_message: the bytes that the first message in data takes; 0 when it is incomplete.
Consumed(data) == IF Len(data) < 4 \/ Len(data) < 4 + WordAt(data) THEN 0 ELSE 4 + WordAt(data)

\* parse_message: the first message in data.
Parsed(data) ==
  IF WordAt(data) = 0 THEN KeepAlive
  ELSE [id |-> data[5], payload |-> SubSeq(data, 6, Consumed(data))]

\* Bit i of a payload, from 1, counted from the left of each byte.
Bit(payload, i) == (payload[(i + 7) \div 8] \div 2^(7 - ((i - 1) % 8))) % 2 = 1

Shorter(m, n) == IF m < n THEN m ELSE n

\* Slip: the bits of a byte are numbered from the right.
BitsBackwards(payload, n) ==
  [i \in 1..Shorter(n, 8 * Len(payload)) |->
     (payload[(i + 7) \div 8] \div 2^((i - 1) % 8)) % 2 = 1]

\* Slip: the spare bits of the last byte are kept.
BitsUncut(payload, n) == [i \in 1..(8 * Len(payload)) |-> Bit(payload, i)]

\* parse_bitfield: piece i - 1 is bit i, of at most n.
Bits(payload, n) == [i \in 1..Shorter(n, 8 * Len(payload)) |-> Bit(payload, i)]
================================================================================
