---------------------------- MODULE PieceScheduler ----------------------------
(***************************************************************************)
(* The piece and block bookkeeping of DownloadManager (src/src/download.py):*)
(* which piece is queued, which peer works on which piece, which block      *)
(* requests are in flight and which blocks have arrived.                    *)
(*                                                                          *)
(* The bookkeeping is one record `s`, and each helper method of the class   *)
(* is an operator from a record to a record, so that a handler that calls   *)
(* several helpers is their composition.  No helper suspends; the handlers  *)
(* that do are actions of DownloadManager.tla.                              *)
(*                                                                          *)
(* Abstractions.  A piece has NumBlocks blocks.  The bytes of a block are   *)
(* what a peer made of them: "good", "bad" (the right length, wrong bytes)  *)
(* or "short" (fewer bytes than were asked for).  The piece queue is a set: *)
(* __init__ shuffles it, so the order in which a peer is offered the pieces *)
(* is arbitrary; PieceQueue has the list.                                   *)
(*                                                                          *)
(* A definition whose comment starts with "Slip" is not part of the model.  *)
(* It is the definition after it with a plausible bug; put in its place, it *)
(* makes one of the properties fail.                                        *)
(***************************************************************************)
EXTENDS Integers, FiniteSets

CONSTANTS
  Pieces,        \* indices of the torrent's pieces
  NumBlocks,     \* blocks in a piece
  Keys,          \* "ip:port" of every peer there is
  NoPiece,       \* "no current piece"
  NoKey,         \* "nobody": the request is not in flight
  NoReq,         \* "no request to send"
  MaxPipelined   \* MAX_PIPELINED_REQUESTS

ASSUME PiecesAssumption == IsFiniteSet(Pieces) /\ NoPiece \notin Pieces
ASSUME KeysAssumption == NoKey \notin Keys
ASSUME BlocksAssumption == NumBlocks \in Nat \ {0}
ASSUME PipelineAssumption == MaxPipelined \in Nat \ {0}

Blocks   == 1..NumBlocks
Requests == Pieces \X Blocks      \* keys of pending_requests: (piece, begin)
ASSUME NoReqAssumption == NoReq \notin Requests

Data == {"none", "good", "bad", "short"}   \* "none": not received

(***************************************************************************)
(* The record.                                                              *)
(*   queue      piece_queue                                                 *)
(*   current    peer_current_piece                                          *)
(*   owner      pending_requests: the peer a block was requested from       *)
(*   late       the pending requests older than BLOCK_REQUEST_TIMEOUT       *)
(*   count      peer_pending_count                                          *)
(*   blocks     PieceState.blocks of every piece                            *)
(*   done       the pieces with is_complete, verified and in                *)
(*              downloaded_pieces (both are set in one uninterrupted step)  *)
(*   forgotten  history, not in the code: the pieces that a hash failure of *)
(*              another piece has taken from the peer that worked on them   *)
(***************************************************************************)
Scheduling ==
  [queue     : SUBSET Pieces,
   current   : [Keys -> Pieces \cup {NoPiece}],
   owner     : [Requests -> Keys \cup {NoKey}],
   late      : SUBSET Requests,
   count     : [Keys -> Nat],
   blocks    : [Pieces -> [Blocks -> Data]],
   done      : SUBSET Pieces,
   forgotten : [Keys -> SUBSET Pieces]]

\* The state recheck_existing_output leaves when the pieces `ok` verified.
Rechecked(ok) ==
  [queue     |-> Pieces \ ok,
   current   |-> [k \in Keys |-> NoPiece],
   owner     |-> [r \in Requests |-> NoKey],
   late      |-> {},
   count     |-> [k \in Keys |-> 0],
   blocks    |-> [i \in Pieces |-> [b \in Blocks |-> IF i \in ok THEN "good" ELSE "none"]],
   done      |-> ok,
   forgotten |-> [k \in Keys |-> {}]]

-------------------------------------------------------------------------------
(* Blocks of a piece *)

Pending(s)       == {r \in Requests : s.owner[r] # NoKey}
PendingOf(s, k)  == {r \in Requests : s.owner[r] = k}
Assigned(s)      == {i \in Pieces : \E k \in Keys : s.current[k] = i}
Forgotten(s)     == {i \in Pieces : \E k \in Keys : i \in s.forgotten[k]}

\* PieceState.add_block: the first block at an offset stays.
AddBlock(s, r, d) ==
  [s EXCEPT !.blocks[r[1]][r[2]] = IF @ = "none" THEN d ELSE @]

\* received >= length, which a short block keeps out of reach.
Full(s, i) == \A b \in Blocks : s.blocks[i][b] \in {"good", "bad"}

\* PieceState.verify
Verifies(s, i) == \A b \in Blocks : s.blocks[i][b] = "good"

\* Slip: a block in flight is asked for again.
MissingAgain(s, i) == {b \in Blocks : s.blocks[i][b] = "none"}

\* _next_missing_block: neither received nor in flight, and the lowest offset of these.
Missing(s, i) == {b \in Blocks : s.blocks[i][b] = "none" /\ s.owner[<<i, b>>] = NoKey}

NextMissing(s, i) == {b \in Missing(s, i) : \A c \in Missing(s, i) : b <= c}

-------------------------------------------------------------------------------
(* Requests in flight *)

\* Slip: max(0, ...) is left out.
LoweredPastZero(s, R) == [k \in Keys |-> s.count[k] - Cardinality(R \cap PendingOf(s, k))]

\* Slip: the counter keeps what it has counted.
LoweredNever(s, R) == s.count

\* _clear_pending_request for every request of R; a counter stops at 0.
Lowered(s, R) ==
  LET dropped(k) == Cardinality(R \cap PendingOf(s, k)) IN
  [k \in Keys |-> IF dropped(k) >= s.count[k] THEN 0 ELSE s.count[k] - dropped(k)]

DropPending(s, R) ==
  [s EXCEPT !.owner = [r \in Requests |-> IF r \in R THEN NoKey ELSE s.owner[r]],
            !.late  = s.late \ R,
            !.count = Lowered(s, R)]

\* The end of _send_block_request, after the send has been awaited.
Register(s, k, r) ==
  [s EXCEPT !.owner[r] = k, !.late = @ \ {r}, !.count[k] = @ + 1]

-------------------------------------------------------------------------------
(* Queue and assignment *)

\* Slip: a piece that a peer works on is queued again.
QueueAssigned(s, i) == IF i \in s.done THEN s ELSE [s EXCEPT !.queue = @ \cup {i}]

\* _queue_piece: not a complete piece, not an assigned one, never twice.
QueuePiece(s, i) ==
  IF i \in s.done \cup Assigned(s) THEN s ELSE [s EXCEPT !.queue = @ \cup {i}]

\* _release_peer_piece
Freed(s, k) == [s EXCEPT !.current[k] = NoPiece]

\* Slip: the piece is not given back.
ReleaseForgets(s, k, requeue) == Freed(s, k)

Release(s, k, requeue) ==
  IF requeue /\ s.current[k] # NoPiece
  THEN QueuePiece(Freed(s, k), s.current[k])
  ELSE Freed(s, k)

\* Slip: the piece is recorded only while a peer works on it.
WriteAssigned(s, i) ==
  [s EXCEPT !.done    = @ \cup (Assigned(s) \cap {i}),
            !.queue   = @ \ {i},
            !.current = [k \in Keys |-> IF @[k] = i THEN NoPiece ELSE @[k]]]

\* _write_piece: the piece leaves the queue and every assignment.
WritePiece(s, i) ==
  [s EXCEPT !.done    = @ \cup {i},
            !.queue   = @ \ {i},
            !.current = [k \in Keys |-> IF @[k] = i THEN NoPiece ELSE @[k]]]

\* The scheduling part of _handle_piece_hash_failure: k sent the last block of i.
HashFailure(s, k, i) ==
  LET cleared  == DropPending(s, {i} \X Blocks)
      emptied  == [cleared EXCEPT !.blocks[i] = [b \in Blocks |-> "none"]]
      requeued == QueuePiece(Release(emptied, k, FALSE), i)
  IN  [requeued EXCEPT !.count[k]     = 0,
                       !.forgotten[k] = @ \cup ({s.current[k]} \ {NoPiece, i})]

\* Slip: the peer keeps its piece.
DisconnectedKeeps(s, k) == [DropPending(s, PendingOf(s, k)) EXCEPT !.count[k] = 0]

\* _handle_peer_disconnect without the list of connections
Disconnected(s, k) ==
  [DropPending(Release(s, k, TRUE), PendingOf(s, k)) EXCEPT !.count[k] = 0]

\* _pop_next_piece_for_peer: peer k, which has the pieces `has`, could work on these.
Suitable(s, k, has) ==
  {i \in has : (\A j \in Keys \ {k} : s.current[j] # i) /\ Missing(s, i) # {}}

\* What it may select, see PieceQueue.
Eligible(s, k, has) == (s.queue \ s.done) \cap Suitable(s, k, has)

\* The outcomes of _request_next_block up to the send: the bookkeeping, and the request
\* to send or NoReq.  A peer whose bitfield is not known does not come here.
Outcome(s, r) == [s |-> s, req |-> r]

\* The peer goes on with its piece, when its window and the piece leave a block to ask for.
Continues(s, k) ==
  LET i == s.current[k] IN
  IF s.count[k] < MaxPipelined /\ Missing(s, i) # {}
  THEN {Outcome(s, <<i, b>>) : b \in NextMissing(s, i)}
  ELSE {Outcome(s, NoReq)}

\* The peer gets a piece from the queue, and is asked for its first block.
Takes(s, k, i) == [s EXCEPT !.queue = s.queue \ {i}, !.current[k] = i]

Starts(s, k, has) ==
  IF Eligible(s, k, has) = {}
  THEN {Outcome([s EXCEPT !.queue = s.queue \ s.done], NoReq)}
  ELSE {Outcome(Takes(s, k, r[1]), r) :
          r \in {r \in Requests : r[1] \in Eligible(s, k, has) /\ r[2] \in NextMissing(s, r[1])}}

\* Slip: a peer that was asked for all of its piece gives it back and gets another one.
NextRequestAhead(s, k, has) ==
  IF s.current[k] # NoPiece /\ s.current[k] \notin s.done /\ Missing(s, s.current[k]) # {}
  THEN Continues(s, k)
  ELSE Starts(Release(s, k, TRUE), k, has)

NextRequest(s, k, has) ==
  IF s.current[k] # NoPiece /\ s.current[k] \notin s.done
  THEN Continues(s, k)
  ELSE Starts(Release(s, k, FALSE), k, has)

-------------------------------------------------------------------------------
(* What the bookkeeping keeps true *)

\* No piece is with two peers.
OneWorker(s) ==
  \A k, m \in Keys : s.current[k] = s.current[m] /\ s.current[k] # NoPiece => k = m

\* A piece is verified, or queued, or with one peer: never at two of these places.
OnePlace(s) ==
  /\ OneWorker(s)
  /\ s.queue \cap Assigned(s) = {}
  /\ s.done \cap (s.queue \cup Assigned(s)) = {}

\* And it is at one of them, unless a hash failure made the scheduler forget it.
Tracked(s) == Pieces = s.done \cup s.queue \cup Assigned(s) \cup Forgotten(s)

\* The complete pieces are the verified ones.
DoneVerified(s) == \A i \in Pieces : i \in s.done <=> Verifies(s, i)

\* A block in flight has not arrived, and is of the piece its peer works on or of one that
\* a hash failure took from that peer.
InFlightOfPiece(s) ==
  \A r \in Requests : s.owner[r] # NoKey =>
    /\ s.blocks[r[1]][r[2]] = "none"
    /\ r[1] = s.current[s.owner[r]] \/ r[1] \in s.forgotten[s.owner[r]]

\* Only a request in flight grows old.
LatePending(s) == \A r \in s.late : s.owner[r] # NoKey
===============================================================================
