------------------------------ MODULE PeerStream -------------------------------
(***************************************************************************)
(* The steps of one PeerConnection (src/src/peer.py): connect() with its    *)
(* handshake, read_loop() with the reassembly of messages, disconnect(),    *)
(* and what DownloadManager._handle_message (src/src/download.py) takes     *)
(* from a payload.  The peer sends a handshake and then a sequence of       *)
(* messages; the network cuts that into pieces where it likes, and breaks   *)
(* the connection where it likes.  What has arrived is not a variable: a    *)
(* read returns any of the next bytes, which are those that had arrived.    *)
(*                                                                          *)
(* The handler of a message may suspend, so each message is a step, and     *)
(* another task may disconnect the peer between two of them.                *)
(*                                                                          *)
(* Abstractions: the handshake is HandshakeLen bytes, whose content is one  *)
(* of Greetings; no piece is complete yet; the blocks themselves and what   *)
(* is sent to the peer are left out, they are in DownloadManager.           *)
(*                                                                          *)
(* A definition whose comment starts with "Slip" is not part of the model   *)
(* (see PieceScheduler).                                                    *)
(***************************************************************************)
EXTENDS WireFormat

VARIABLES
  loop,       \* where connect() or read_loop() is
  sent,       \* what the peer sends: its greeting, its messages, and their bytes
  taken,      \* bytes that have been read from the StreamReader
  link,       \* the connection: open, ended by the peer, reset, or closed by us
  buffer,     \* self.buffer
  delivered,  \* history: the messages that on_message was called with
  bits,       \* self.bitfield; <<>> when there is none
  interested, \* am_interested
  notified    \* on_disconnect has been called

wire == <<sent, link>>
view == <<delivered, bits, interested>>
streamVars == <<loop, wire, taken, buffer, view, notified>>

-------------------------------------------------------------------------------
StreamInit ==
  /\ loop = "off"
  /\ sent = Nothing
  /\ taken = 0
  /\ link = "none"
  /\ buffer = <<>>
  /\ delivered = <<>> /\ bits = <<>> /\ interested = FALSE
  /\ notified = FALSE

\* The PeerConnection is dropped.
Drop ==
  /\ loop \in {"failed", "over"}
  /\ loop' = "off" /\ link' = "none" /\ sent' = Nothing
  /\ taken' = 0 /\ buffer' = <<>>
  /\ delivered' = <<>> /\ bits' = <<>> /\ interested' = FALSE
  /\ notified' = FALSE

(* The peer and the network: external *)

\* The peer that we connect to will send s.
Opens(s) ==
  /\ loop \in {"off", "failed", "over"}
  /\ loop' = "shake"
  /\ sent' = s
  /\ link' = "open"
  /\ taken' = 0
  /\ buffer' = <<>>
  /\ delivered' = <<>> /\ bits' = <<>> /\ interested' = FALSE
  /\ notified' = FALSE

\* The peer closes the connection, or it is reset.
Break ==
  /\ link = "open"
  /\ link' \in {"ended", "reset"}
  /\ UNCHANGED <<loop, sent, taken, buffer, view, notified>>

-------------------------------------------------------------------------------
(* connect *)

\* Slip: the messages that have arrived with the handshake are dropped with it.
ShakesWithAll ==
  /\ loop = "shake" /\ link # "reset"
  /\ \E n \in 1..(Len(sent.messages) + 1) : taken' = sent.starts[n]
  /\ loop' = IF sent.greeting = "same" THEN "read" ELSE "failed"
  /\ UNCHANGED <<wire, buffer, view, notified>>

\* readexactly leaves what follows the handshake in the StreamReader.  A handshake that is
\* not one, or is for another torrent, makes connect return False.
Shakes ==
  /\ loop = "shake" /\ link # "reset"
  /\ taken' = HandshakeLen
  /\ loop' = IF sent.greeting = "same" THEN "read" ELSE "failed"
  /\ UNCHANGED <<wire, buffer, view, notified>>

\* The connection is refused or reset, or the timeout expires: connect returns False.
ShakeFails ==
  /\ loop = "shake"
  /\ loop' = "failed"
  /\ UNCHANGED <<wire, taken, buffer, view, notified>>

\* The peer closes early: IncompleteReadError leaves connect, and ends the job.
ShakeRaises ==
  /\ loop = "shake" /\ link = "ended"
  /\ loop' = "raised"
  /\ UNCHANGED <<wire, taken, buffer, view, notified>>

-------------------------------------------------------------------------------
(* read_loop *)

\* read() returns the next n bytes.
Reads(n) ==
  /\ loop = "read" /\ link \in {"open", "ended"}
  /\ taken + n <= Len(sent.bytes)
  /\ buffer' = buffer \o SubSeq(sent.bytes, taken + 1, taken + n)
  /\ taken' = taken + n
  /\ loop' = "process"
  /\ UNCHANGED <<wire, view, notified>>

\* read() returns nothing, or raises; after our own disconnect there is no reader.
ReadEnds ==
  /\ loop = "read" /\ link # "open"
  /\ loop' = "end"
  /\ UNCHANGED <<wire, taken, buffer, view, notified>>

\* Slip: a read takes one message out of the buffer.
ProcessesOne ==
  /\ loop = "process"
  /\ Consumed(buffer) = 0 \/ delivered # <<>>
  /\ loop' = "read"
  /\ UNCHANGED <<wire, taken, buffer, view, notified>>

\* The buffer holds no complete message.
ProcessEnds ==
  /\ loop = "process"
  /\ Consumed(buffer) = 0
  /\ loop' = "read"
  /\ UNCHANGED <<wire, taken, buffer, view, notified>>

\* The payload of a message that makes _handle_message raise: struct.error, or IndexError for
\* a bitfield that is too short.
Malformed(m) ==
  \/ m.id = Have  /\ Len(m.payload) # 4
  \/ m.id = Piece /\ Len(m.payload) < 8
  \/ /\ m.id = Bitfield /\ ~interested
     /\ LET b == Bits(m.payload, NumPieces)
        IN  Len(b) < NumPieces /\ \A i \in DOMAIN b : ~b[i]

\* What _handle_message makes of the bitfield.
BitsAfter(m) ==
  CASE m.id = Bitfield -> Bits(m.payload, NumPieces)
    [] m.id = Have /\ Len(m.payload) = 4 /\ WordAt(m.payload) < Len(bits) ->
         [bits EXCEPT ![WordAt(m.payload) + 1] = TRUE]
    [] OTHER -> bits

\* The first message of the buffer is taken out, and handled.
Handles ==
  /\ loop = "process"
  /\ Consumed(buffer) > 0
  /\ LET m == Parsed(buffer) IN
       /\ buffer' = SubSeq(buffer, Consumed(buffer) + 1, Len(buffer))
       /\ IF m = KeepAlive
          THEN UNCHANGED <<loop, view>>
          ELSE /\ delivered' = Append(delivered, m)
               /\ bits' = BitsAfter(m)
               /\ interested' = (interested \/ (m.id = Bitfield /\ \E i \in DOMAIN bits' : bits'[i]))
               /\ loop' = IF Malformed(m) THEN "end" ELSE "process"
  /\ UNCHANGED <<wire, taken, notified>>

\* Slip: an exception that is not caught skips the disconnect.
EndsQuietly ==
  /\ loop = "end"
  /\ loop' = "over"
  /\ link' = "closed"
  /\ notified' = (notified \/ delivered = <<>> \/ ~Malformed(delivered[Len(delivered)]))
  /\ UNCHANGED <<sent, taken, buffer, view>>

\* The finally clause of read_loop: disconnect.
Ends ==
  /\ loop = "end"
  /\ loop' = "over"
  /\ link' = "closed"
  /\ notified' = TRUE
  /\ UNCHANGED <<sent, taken, buffer, view>>

\* disconnect by another task, as _check_request_timeouts and the ban of a peer call it.
Disconnect ==
  /\ loop \in {"read", "process"}
  /\ link # "closed"
  /\ link' = "closed"
  /\ notified' = TRUE
  /\ UNCHANGED <<loop, sent, taken, buffer, view>>

-------------------------------------------------------------------------------
StreamNext ==
  \/ Break \/ Disconnect
  \/ Shakes \/ ShakeFails \/ ShakeRaises
  \/ \E n \in 1..ReadSize : Reads(n)
  \/ ReadEnds \/ Handles \/ ProcessEnds \/ Ends

\* What happens without the peer: the timeout of the handshake, the end of a read from a
\* connection that is over, and the work on what was read.
StreamStep == ShakeFails \/ ReadEnds \/ Handles \/ ProcessEnds \/ Ends

-------------------------------------------------------------------------------
(* What the rest of the client does: it dials a peer, or forgets one. *)
StreamCaller == Drop \/ \E s \in Streams : Opens(s)

StreamSpec == StreamInit /\ [][StreamNext \/ StreamCaller]_streamVars

-------------------------------------------------------------------------------
(* Safety *)

StreamTypeOK ==
  /\ loop \in {"off", "shake", "read", "process", "end", "over", "failed", "raised"}
  /\ sent \in Streams \cup {Nothing}
  /\ taken \in 0..Len(sent.bytes)
  /\ link \in {"none", "open", "ended", "reset", "closed"}
  /\ buffer \in Seq(Byte)
  /\ delivered \in Seq(Message)
  /\ bits \in Seq(BOOLEAN) /\ Len(bits) <= NumPieces
  /\ interested \in BOOLEAN
  /\ notified \in BOOLEAN

\* Those of the first n messages that are for the handler: all but the keep-alives.
Heard(messages, n) == {k \in 1..n : messages[k] # KeepAlive}

\* Wherever the network cuts the stream, the handler gets the messages of the peer, whole and
\* in their order: the i-th that it gets is the i-th that is for it, and there are not more
\* (the handshake, read_loop and _process_buffer together).
DeliveredInOrder ==
  LET all == sent.messages IN
    /\ Len(delivered) <= Cardinality(Heard(all, Len(all)))
    /\ \A k \in Heard(all, Len(all)) :
         LET i == Cardinality(Heard(all, k))
         IN  i <= Len(delivered) => delivered[i] = all[k]

\* No message waits in the buffer for another one to arrive: when read_loop waits for bytes,
\* the handler has had every message whose last byte was read.
NothingHeldBack ==
  loop = "read" =>
    \A n \in 0..Len(sent.messages) :
      sent.starts[n + 1] <= taken => Cardinality(Heard(sent.messages, n)) <= Len(delivered)

\* The peer has announced piece i: in its last bitfield or, if that one is long enough to
\* have a bit for it, in a HAVE since then.
HasAnnounced(i) ==
  \E k \in DOMAIN delivered :
    /\ delivered[k].id = Bitfield
    /\ \A l \in (k + 1)..Len(delivered) : delivered[l].id # Bitfield
    /\ i <= 8 * Len(delivered[k].payload)
    /\ \/ Bit(delivered[k].payload, i)
       \/ \E l \in (k + 1)..Len(delivered) :
            delivered[l].id = Have /\ delivered[l].payload = Word(i - 1)

\* A peer is asked for a piece only if it has announced it, and for every piece that it has
\* announced since its bitfield, except those that a bitfield which is too short leaves out.
BitsAsAnnounced == \A i \in 1..NumPieces : (i <= Len(bits) /\ bits[i]) <=> HasAnnounced(i)
================================================================================
