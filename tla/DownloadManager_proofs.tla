------------------------ MODULE DownloadManager_proofs ------------------------
(***************************************************************************)
(* The safety of one download job, for every set of pieces, peers and        *)
(* connections, every pattern of faults and every limit.                     *)
(*                                                                          *)
(* The inductive invariant IInv says that the bookkeeping is sound (Sound,   *)
(* DoneVerified), what a suspended task holds, and which connections are     *)
(* served by a read loop.  The second part is the refinement of              *)
(* DownloadContract.                                                         *)
(***************************************************************************)
EXTENDS DownloadManager, PieceScheduler_proofs

\* A suspended task knows what it is suspended on.
Suspended ==
  /\ \A c \in Conns : /\ reader[c].at = "drain" => reader[c].req \in Requests
                      /\ reader[c].at = "have" => reader[c].on \in Conns
  /\ main.at \in {"dial", "shut", "drain"} => main.on \in Conns
  /\ main.at = "drain" => main.req \in Requests

\* A connection that is up is served.
UpIsServed == \A c \in Conns : conn[c] = "up" => c \in active /\ reader[c].at # "off"

\* There is room for the connection that is being dialed.
Room ==
  /\ Cardinality(active) <= MaxConns
  /\ main.at = "dial" => Cardinality(active) < MaxConns

IInv ==
  /\ TypeOK
  /\ Sound(sched)
  /\ DoneIffVerified
  /\ CompleteMeansVerified
  /\ Suspended
  /\ UpIsServed
  /\ WorkHasReader
  /\ Room

-------------------------------------------------------------------------------
\* _request_next_block leaves sound bookkeeping, gives a piece to its own peer only, and
\* does not bring a connection up.
LEMMA AsksSound ==
  ASSUME NEW s, Sound(s), NEW c \in Conns, NEW p \in PeerState, conn[c] \in Links,
         NEW a \in Asks(s, c, p)
  PROVE  /\ Sound(a.s)
         /\ a.s.done = s.done /\ a.s.blocks = s.blocks
         /\ OnlyGives(s, a.s, KeyOf[c])
         /\ a.p \in PeerState
         /\ a.link \in Links /\ (a.link = "up" => conn[c] = "up")
         /\ a.req \in Requests \cup {NoReq}
<1>0. KeyOf[c] \in Keys BY ConnsAssumption
<1>1. CASE p.choking \/ ~p.known
  <2>1. a = [s |-> s, p |-> p, link |-> conn[c], req |-> NoReq] BY <1>1 DEF Asks
  <2> QED BY <2>1 DEF OnlyGives
<1>2. CASE ~(p.choking \/ ~p.known)
  <2>1. PICK o \in NextRequest(s, KeyOf[c], p.bits) :
          \/ /\ o.req = NoReq
             /\ a = [s |-> o.s, p |-> p, link |-> conn[c], req |-> NoReq]
          \/ /\ o.req # NoReq
             /\ \E w \in Sends(c) :
                  a = [s    |-> IF w.waits THEN o.s ELSE Register(o.s, KeyOf[c], o.req),
                       p    |-> IF w.sent THEN Owes(p, o.req) ELSE p,
                       link |-> w.link,
                       req  |-> IF w.waits THEN o.req ELSE NoReq]
    BY <1>2 DEF Asks
  <2>2. /\ Sound(o.s) /\ o.s.done = s.done /\ o.s.blocks = s.blocks
        /\ OnlyGives(s, o.s, KeyOf[c]) /\ o.req \in Requests \cup {NoReq}
    BY <1>0, NextRequestSound
  <2>3. CASE o.req = NoReq
    <3>1. a = [s |-> o.s, p |-> p, link |-> conn[c], req |-> NoReq] BY <2>1, <2>3
    <3> QED BY <2>2, <3>1
  <2>4. CASE o.req # NoReq
    <3>1. PICK w \in Sends(c) :
            a = [s    |-> IF w.waits THEN o.s ELSE Register(o.s, KeyOf[c], o.req),
                 p    |-> IF w.sent THEN Owes(p, o.req) ELSE p,
                 link |-> w.link,
                 req  |-> IF w.waits THEN o.req ELSE NoReq]
      BY <2>1, <2>4
    <3>2. o.req \in Requests BY <2>2, <2>4
    <3>3. w.link \in Links /\ (w.link = "up" => conn[c] = "up") BY DEF Sends, Links
    <3>4. /\ Sound(Register(o.s, KeyOf[c], o.req))
          /\ SamePlaces(o.s, Register(o.s, KeyOf[c], o.req))
          /\ Register(o.s, KeyOf[c], o.req).blocks = o.s.blocks
      BY <1>0, <2>2, <3>2, RegisterSound, SamePlacesSound DEF Sound
    <3>5. Owes(p, o.req) \in PeerState
      <4>1. p.asked \in [Requests -> 0..MaxAsked] BY DEF PeerState
      <4> DEFINE n == IF p.asked[o.req] < MaxAsked THEN p.asked[o.req] + 1 ELSE p.asked[o.req]
      <4>2. n \in 0..MaxAsked BY <3>2, <4>1, LimitsAssumption
      <4>3. Owes(p, o.req) = [p EXCEPT !.asked = [p.asked EXCEPT ![o.req] = n]]
        BY <3>2 DEF Owes, PeerState
      <4> HIDE DEF n
      <4>4. [p.asked EXCEPT ![o.req] = n] \in [Requests -> 0..MaxAsked] BY <3>2, <4>1, <4>2
      <4> QED BY <4>3, <4>4 DEF PeerState
    <3>6. Sound(a.s) /\ a.s.done = s.done /\ a.s.blocks = s.blocks
      BY <2>2, <3>1, <3>4 DEF SamePlaces
    <3>7. OnlyGives(s, a.s, KeyOf[c]) BY <2>2, <3>1, <3>4 DEF SamePlaces, OnlyGives
    <3>8. a.p \in PeerState BY <3>1, <3>5
    <3> QED BY <3>1, <3>2, <3>3, <3>6, <3>7, <3>8
  <2> QED BY <2>3, <2>4
<1> QED BY <1>1, <1>2
\* The list of connections may shrink.
LEMMA RoomShrinks ==
  ASSUME TypeOK, Room, active' \subseteq active,
         main'.at = "dial" => main.at = "dial" \/ Cardinality(active') < MaxConns
  PROVE  Room'
<1>1. IsFiniteSet(active) BY ConnsAssumption, FS_Subset DEF TypeOK
<1>2. IsFiniteSet(active') /\ Cardinality(active') <= Cardinality(active) BY <1>1, FS_Subset
<1>3. Cardinality(active) \in Nat /\ Cardinality(active') \in Nat BY <1>1, <1>2, FS_CardinalityType
<1> QED BY <1>2, <1>3, LimitsAssumption DEF Room

\* Work that is kept, or taken from its peer, is still work of a peer with a reader.
LEMMA WorkKept ==
  ASSUME TypeOK, WorkHasReader,
         \A k \in Keys : sched'.current[k] \in {sched.current[k], NoPiece},
         \A c \in Conns : reader'[c].at = "off" =>
            reader[c].at = "off" \/ sched'.current[KeyOf[c]] = NoPiece
  PROVE  WorkHasReader'
BY DEF WorkHasReader

\* The reader of c ends its handler by asking its peer for the next block.
LEMMA ReaderAsksInv ==
  ASSUME IInv, NEW c \in Conns, reader[c].at # "off",
         NEW s, Sound(s), DoneVerified(s), OnlyGives(sched, s, KeyOf[c]),
         sched.done \subseteq s.done,
         NEW p \in PeerState,
         ReaderAsks(c, s, p),
         completed' \in BOOLEAN, completed' => completed \/ s.done = Pieces,
         MainRests, UNCHANGED active, UNCHANGED penalties
  PROVE  IInv'
<1> USE DEF MainRests, penalties
<1>1. PICK a \in Asks(s, c, p) :
        /\ sched' = a.s
        /\ peer' = [peer EXCEPT ![c] = a.p]
        /\ conn' = [conn EXCEPT ![c] = a.link]
        /\ reader' = [reader EXCEPT ![c] =
             IF a.req = NoReq THEN Reading ELSE [Idle EXCEPT !.at = "drain", !.req = a.req]]
  BY DEF ReaderAsks
<1>2. TypeOK /\ conn[c] \in Links BY DEF IInv, TypeOK
<1>3. /\ Sound(a.s) /\ a.s.done = s.done /\ a.s.blocks = s.blocks
      /\ OnlyGives(s, a.s, KeyOf[c])
      /\ a.p \in PeerState
      /\ a.link \in Links /\ (a.link = "up" => conn[c] = "up")
      /\ a.req \in Requests \cup {NoReq}
  BY <1>2, AsksSound
<1>4. sched' \in Scheduling BY <1>1, <1>3 DEF Sound, Placed
<1> DEFINE next == IF a.req = NoReq THEN Reading ELSE [Idle EXCEPT !.at = "drain", !.req = a.req]
<1>5. /\ next \in ReaderState /\ next.at \in {"read", "drain"}
      /\ next.at = "drain" => next.req \in Requests
  BY <1>3 DEF ReaderState, Reading, Idle
<1>6. reader' = [reader EXCEPT ![c] = next] BY <1>1
<1> HIDE DEF next
<1>7. TypeOK' BY <1>1, <1>2, <1>3, <1>4, <1>5, <1>6 DEF TypeOK
<1>8. Sound(sched)' BY <1>1, <1>3
<1>9. DoneIffVerified' BY <1>1, <1>3 DEF DoneIffVerified, DoneVerified, Verifies
<1>10. CompleteMeansVerified'
  <2>1. s.done \subseteq Pieces BY DEF Sound, Placed, Scheduling
  <2>2. completed \/ written => s.done = Pieces
    BY <2>1 DEF IInv, CompleteMeansVerified, AllDone
  <2>3. completed' \/ written' => s.done = Pieces BY <2>2
  <2>4. sched'.done = s.done BY <1>1, <1>3
  <2> QED BY <2>3, <2>4 DEF CompleteMeansVerified, AllDone
<1>11. Suspended' BY <1>2, <1>5, <1>6 DEF IInv, Suspended, TypeOK
<1>12. UpIsServed' BY <1>1, <1>2, <1>3, <1>5, <1>6 DEF IInv, UpIsServed, TypeOK
<1>13. WorkHasReader'
  <2> SUFFICES ASSUME NEW k \in Keys, sched'.current[k] # NoPiece
               PROVE  \E d \in Conns : KeyOf[d] = k /\ reader'[d].at # "off"
    BY DEF WorkHasReader
  <2>1. CASE k = KeyOf[c] BY <1>2, <1>5, <1>6, <2>1 DEF TypeOK
  <2>2. CASE k # KeyOf[c]
    <3>1. sched.current[k] # NoPiece BY <1>1, <1>3, <2>2 DEF OnlyGives
    <3>2. PICK d \in Conns : KeyOf[d] = k /\ reader[d].at # "off"
      BY <3>1 DEF IInv, WorkHasReader
    <3> QED BY <1>2, <1>6, <2>2, <3>2 DEF TypeOK
  <2> QED BY <2>1, <2>2
<1>14. Room' BY DEF IInv, Room
<1> QED BY <1>7, <1>8, <1>9, <1>10, <1>11, <1>12, <1>13, <1>14 DEF IInv
-------------------------------------------------------------------------------
(* The read loops *)

\* A message that only tells us about the peer.
LEMMA PeerOnlyInv ==
  ASSUME IInv, peer' \in [Conns -> PeerState],
         UNCHANGED <<sched, conn, reader, active, completed>>, MainRests, UNCHANGED penalties
  PROVE  IInv'
<1> USE DEF MainRests, penalties
<1>1. TypeOK' BY DEF IInv, TypeOK
<1>2. DoneIffVerified' /\ CompleteMeansVerified' /\ Suspended' /\ UpIsServed'
  BY DEF IInv, DoneIffVerified, CompleteMeansVerified, AllDone, Suspended, UpIsServed
<1>3. WorkHasReader' /\ Room' /\ Sound(sched)' BY DEF IInv, WorkHasReader, Room
<1> QED BY <1>1, <1>2, <1>3 DEF IInv

\* _handle_message, UNCHOKE: the peer is asked for a block.
LEMMA UnchokeInv ==
  ASSUME IInv, NEW c \in Conns, Unchoke(c)
  PROVE  IInv'
<1>1. reader[c].at # "off" BY DEF Unchoke
<1>2. [peer[c] EXCEPT !.choking = FALSE] \in PeerState BY DEF IInv, TypeOK, PeerState
<1>3. Sound(sched) /\ DoneVerified(sched) /\ OnlyGives(sched, sched, KeyOf[c])
  BY DEF IInv, DoneIffVerified, OnlyGives
<1>4. completed \in BOOLEAN BY DEF IInv, TypeOK
<1> QED BY <1>1, <1>2, <1>3, <1>4, ReaderAsksInv DEF Unchoke

\* _handle_message, CHOKE, BITFIELD and HAVE.
LEMMA AboutPeerInv ==
  ASSUME IInv, NEW c \in Conns,
         Choke(c) \/ Bitfield(c) \/ (\E i \in Pieces : Have(c, i))
  PROVE  IInv'
<1>1. peer \in [Conns -> PeerState] BY DEF IInv, TypeOK
<1>2. CASE Choke(c)
  <2>1. [r \in Requests |-> 0] \in [Requests -> 0..MaxAsked] BY LimitsAssumption
  <2> DEFINE nothing == [r \in Requests |-> 0]
  <2>2. peer' = [peer EXCEPT ![c] = [peer[c] EXCEPT !.choking = TRUE, !.asked = nothing]]
    BY <1>1, <1>2 DEF Choke, PeerState
  <2> HIDE DEF nothing
  <2>3. nothing \in [Requests -> 0..MaxAsked] BY <2>1 DEF nothing
  <2>4. peer' \in [Conns -> PeerState] BY <1>1, <2>2, <2>3 DEF PeerState
  <2> QED BY <1>2, <2>4, PeerOnlyInv DEF Choke
<1>3. CASE Bitfield(c)
  <2>1. BitsOf[c] \in SUBSET Pieces BY ConnsAssumption
  <2>2. peer' = [peer EXCEPT ![c] = [peer[c] EXCEPT !.known = TRUE, !.bits = BitsOf[c],
                                       !.interested = BitsOf[c] \ sched.done # {}]]
    BY <1>1, <1>3 DEF Bitfield, PeerState
  <2>3. peer' \in [Conns -> PeerState] BY <1>1, <2>1, <2>2 DEF PeerState
  <2> QED BY <1>3, <2>3, PeerOnlyInv DEF Bitfield
<1>4. ASSUME NEW i \in Pieces, Have(c, i) PROVE IInv'
  <2>1. peer' = [peer EXCEPT ![c] = [peer[c] EXCEPT !.bits = peer[c].bits \cup {i}]]
    BY <1>1, <1>4 DEF Have, PeerState
  <2>2. peer' \in [Conns -> PeerState] BY <1>1, <2>1 DEF PeerState
  <2> QED BY <1>4, <2>2, PeerOnlyInv DEF Have
<1> QED BY <1>2, <1>3, <1>4

\* A peer that has answered owes one answer less.
LEMMA AnsweredType ==
  ASSUME TypeOK, NEW c \in Conns, NEW r \in Requests, peer[c].asked[r] > 0
  PROVE  Answered(c, r) \in PeerState
<1>1. peer[c] \in PeerState BY DEF TypeOK
<1>2. peer[c].asked \in [Requests -> 0..MaxAsked] BY <1>1 DEF PeerState
<1>3. [peer[c].asked EXCEPT ![r] = peer[c].asked[r] - 1] \in [Requests -> 0..MaxAsked]
  BY <1>2, LimitsAssumption
<1>4. Answered(c, r) = [peer[c] EXCEPT !.asked = [peer[c].asked EXCEPT ![r] = peer[c].asked[r] - 1]]
  BY <1>1 DEF Answered, PeerState
<1> QED BY <1>1, <1>3, <1>4 DEF PeerState

\* A block that arrives changes its own piece, and no place.
LEMMA ReceivedSound ==
  ASSUME Sound(sched), NEW r \in Requests, NEW d \in Data
  PROVE  /\ Sound(Received(r, d))
         /\ SamePlaces(sched, Received(r, d))
         /\ \A i \in Pieces \ {r[1]} : Received(r, d).blocks[i] = sched.blocks[i]
<1> DEFINE t == DropPending(sched, {r})
           u == AddBlock(t, r, d)
<1>1. Placed(t) /\ SamePlaces(sched, t) /\ t.blocks = sched.blocks BY DropSound DEF Sound
<1> HIDE DEF t
<1>2. Placed(u) /\ SamePlaces(t, u) /\ \A i \in Pieces \ {r[1]} : u.blocks[i] = t.blocks[i]
  BY <1>1, AddBlockSound
<1>3. u = Received(r, d) BY DEF Received, t
<1> HIDE DEF u
<1>4. SamePlaces(sched, u) BY <1>1, <1>2 DEF SamePlaces
<1>5. Sound(u) BY <1>2, <1>4, SamePlacesSound
<1> QED BY <1>1, <1>2, <1>3, <1>4, <1>5

\* What a peer may send is data of a block.
LEMMA DataType == \A c \in Conns : DataFrom(c) \subseteq Data
BY DEF DataFrom, Data

\* _handle_piece_data for a block that leaves its piece incomplete.
LEMMA DeliverBlockInv ==
  ASSUME IInv, NEW c \in Conns, NEW r \in Requests, NEW d \in DataFrom(c), DeliverBlock(c, r, d)
  PROVE  IInv'
<1> DEFINE got == Received(r, d)
<1>1. reader[c].at # "off" /\ peer[c].asked[r] > 0 BY DEF DeliverBlock, Owed
<1>2. Answered(c, r) \in PeerState BY <1>1, AnsweredType DEF IInv
<1>3. /\ Sound(got) /\ SamePlaces(sched, got)
      /\ \A i \in Pieces \ {r[1]} : got.blocks[i] = sched.blocks[i]
  BY ReceivedSound, DataType DEF IInv
<1>4. /\ r[1] \notin sched.done /\ ~Full(got, r[1]) /\ ReaderAsks(c, got, Answered(c, r))
      /\ MainRests /\ UNCHANGED <<active, completed>> /\ UNCHANGED penalties
  BY DEF DeliverBlock
<1> HIDE DEF got
<1>5. ~Verifies(got, r[1]) BY <1>4 DEF Full, Verifies
<1>6. r[1] \in Pieces BY DEF Requests
<1>7. DoneVerified(got)
  BY <1>3, <1>4, <1>5, <1>6 DEF IInv, DoneIffVerified, DoneVerified, Verifies, SamePlaces
<1>8. OnlyGives(sched, got, KeyOf[c]) /\ sched.done \subseteq got.done
  BY <1>3 DEF SamePlaces, OnlyGives
<1>9. completed \in BOOLEAN BY DEF IInv, TypeOK
<1> QED BY <1>1, <1>2, <1>3, <1>4, <1>7, <1>8, <1>9, ReaderAsksInv

\* A block of a complete piece is ignored.
LEMMA DeliverLateInv ==
  ASSUME IInv, NEW c \in Conns, NEW r \in Requests, DeliverLate(c, r)
  PROVE  IInv'
<1>1. peer[c].asked[r] > 0 BY DEF DeliverLate, Owed
<1>2. Answered(c, r) \in PeerState BY <1>1, AnsweredType DEF IInv
<1>3. peer' \in [Conns -> PeerState] BY <1>2 DEF DeliverLate, IInv, TypeOK
<1> QED BY <1>3, PeerOnlyInv DEF DeliverLate

\* What a step has to show when it gives no work and verified pieces stay.
LEMMA KeptInv ==
  ASSUME IInv, TypeOK', Suspended', UpIsServed', Sound(sched)', DoneIffVerified',
         sched.done \subseteq sched'.done,
         completed' \/ written' => completed \/ written \/ AllDone',
         \A k \in Keys : sched'.current[k] \in {sched.current[k], NoPiece},
         \A c \in Conns : reader'[c].at = "off" =>
            reader[c].at = "off" \/ sched'.current[KeyOf[c]] = NoPiece,
         active' \subseteq active,
         main'.at = "dial" => main.at = "dial" \/ Cardinality(active') < MaxConns
  PROVE  IInv'
<1>1. WorkHasReader' BY WorkKept DEF IInv
<1>2. Room' BY RoomShrinks DEF IInv
<1>3. CompleteMeansVerified'
  <2>1. sched'.done \subseteq Pieces BY DEF TypeOK, Scheduling
  <2> QED BY <2>1 DEF IInv, CompleteMeansVerified, AllDone
<1> QED BY <1>1, <1>2, <1>3 DEF IInv

\* The reader of c is suspended in the HAVE loop of _handle_piece_data.
LEMMA WaitsForHaveInv ==
  ASSUME IInv, NEW c \in Conns, reader[c].at # "off", NEW e \in Fragile,
         NEW s, Sound(s), DoneVerified(s), sched.done \subseteq s.done,
         \A k \in Keys : s.current[k] \in {sched.current[k], NoPiece},
         NEW p \in PeerState,
         WaitsForHave(c, e, s, p), MainRests, UNCHANGED active, UNCHANGED penalties
  PROVE  IInv'
<1> USE DEF MainRests, penalties
<1>1. e \in Conns /\ conn[e] = "up" BY DEF Fragile, IInv, TypeOK
<1>2. PICK w \in Sends(e) : conn' = [conn EXCEPT ![e] = w.link] BY DEF WaitsForHave
<1>3. w.link \in Links BY <1>1, <1>2 DEF Sends, Links
<1> DEFINE next == [Idle EXCEPT !.at = "have", !.on = e]
<1>4. next \in ReaderState /\ next.at = "have" /\ next.on \in Conns
  BY <1>1 DEF ReaderState, Idle
<1>5. reader' = [reader EXCEPT ![c] = next] /\ sched' = s /\ peer' = [peer EXCEPT ![c] = p]
      /\ completed' = completed
  BY DEF WaitsForHave
<1> HIDE DEF next
<1>6. s \in Scheduling BY DEF Sound, Placed
<1>7. TypeOK' BY <1>2, <1>3, <1>4, <1>5, <1>6 DEF IInv, TypeOK
<1>8. Suspended' BY <1>4, <1>5 DEF IInv, Suspended, TypeOK
<1>9. UpIsServed' BY <1>1, <1>2, <1>4, <1>5 DEF IInv, UpIsServed, TypeOK
<1>10. DoneIffVerified' BY <1>5 DEF DoneIffVerified
<1>11. \A d \in Conns : reader'[d].at = "off" => reader[d].at = "off"
  BY <1>4, <1>5 DEF IInv, TypeOK
<1> QED BY <1>5, <1>7, <1>8, <1>9, <1>10, <1>11, KeptInv

\* _handle_piece_data for the last block of a piece that verifies.
LEMMA DeliverPieceInv ==
  ASSUME IInv, NEW c \in Conns, NEW r \in Requests, NEW d \in DataFrom(c), DeliverPiece(c, r, d)
  PROVE  IInv'
<1> DEFINE got == Received(r, d)
           s == WritePiece(got, r[1])
<1>1. reader[c].at # "off" /\ peer[c].asked[r] > 0 BY DEF DeliverPiece, Owed
<1>2. Answered(c, r) \in PeerState BY <1>1, AnsweredType DEF IInv
<1>3. /\ Sound(got) /\ SamePlaces(sched, got)
      /\ \A i \in Pieces \ {r[1]} : got.blocks[i] = sched.blocks[i]
  BY ReceivedSound, DataType DEF IInv
<1>4. /\ r[1] \notin sched.done /\ Verifies(got, r[1])
      /\ \/ Progress(s) /\ ReaderAsks(c, s, Answered(c, r))
         \/ \E e \in Fragile : WaitsForHave(c, e, s, Answered(c, r))
      /\ MainRests /\ UNCHANGED active /\ UNCHANGED penalties
  BY DEF DeliverPiece
<1>5. r[1] \in Pieces BY DEF Requests
<1>6. s = WritePiece(got, r[1]) OBVIOUS
<1> HIDE DEF s, got
<1>7. /\ Sound(s) /\ s.done = got.done \cup {r[1]} /\ s.blocks = got.blocks
      /\ \A k \in Keys : s.current[k] \in {got.current[k], NoPiece}
  BY <1>3, <1>5, <1>6, WritePieceSound
<1>8. DoneVerified(s)
  BY <1>3, <1>4, <1>5, <1>7 DEF IInv, DoneIffVerified, DoneVerified, Verifies, SamePlaces
<1>9. sched.done \subseteq s.done /\ \A k \in Keys : s.current[k] \in {sched.current[k], NoPiece}
  BY <1>3, <1>7 DEF SamePlaces
<1>10. OnlyGives(sched, s, KeyOf[c]) BY <1>9 DEF OnlyGives
<1>11. CASE Progress(s) /\ ReaderAsks(c, s, Answered(c, r))
  <2>1. completed' \in BOOLEAN /\ (completed' => completed \/ s.done = Pieces)
    BY <1>11 DEF Progress, IInv, TypeOK
  <2> QED BY <1>1, <1>2, <1>4, <1>7, <1>8, <1>9, <1>10, <1>11, <2>1, ReaderAsksInv
<1>12. CASE \E e \in Fragile : WaitsForHave(c, e, s, Answered(c, r))
  BY <1>1, <1>2, <1>4, <1>7, <1>8, <1>9, <1>12, WaitsForHaveInv
<1> QED BY <1>4, <1>11, <1>12

\* A disconnect is over: the peer's work is given back, whatever reader the step leaves.
LEMMA GoneSound ==
  ASSUME IInv, NEW c \in Conns, Gone(c)
  PROVE  /\ Sound(sched') /\ sched' \in Scheduling
         /\ sched'.done = sched.done /\ DoneIffVerified'
         /\ \A k \in Keys : sched'.current[k] \in {sched.current[k], NoPiece}
         /\ sched'.current[KeyOf[c]] = NoPiece
         /\ conn' \in [Conns -> Links] /\ conn'[c] = "down"
         /\ \A d \in Conns \ {c} : conn'[d] = conn[d]
         /\ active' = active \ {c}
<1>1. KeyOf[c] \in Keys BY ConnsAssumption
<1>2. sched' = Disconnected(sched, KeyOf[c]) BY DEF Gone
<1>3. /\ Sound(sched') /\ sched'.done = sched.done /\ sched'.blocks = sched.blocks
      /\ sched'.current = [sched.current EXCEPT ![KeyOf[c]] = NoPiece]
  BY <1>1, <1>2, DisconnectedSound DEF IInv
<1>4. sched.current \in [Keys -> Pieces \cup {NoPiece}] BY DEF IInv, TypeOK, Scheduling
<1>5. DoneIffVerified' BY <1>3 DEF IInv, DoneIffVerified, DoneVerified, Verifies
<1>6. sched' \in Scheduling BY <1>3 DEF Sound, Placed
<1>7. "down" \in Links BY DEF Links
<1> QED BY <1>1, <1>3, <1>4, <1>5, <1>6, <1>7 DEF Gone, IInv, TypeOK

\* The reader of c goes on to a state `next`, after a disconnect that is over.
LEMMA ReaderGoneInv ==
  ASSUME IInv, NEW c \in Conns, Gone(c),
         NEW next \in {Idle, Reading}, reader' = [reader EXCEPT ![c] = next],
         UNCHANGED <<peer, completed>>, MainRests, UNCHANGED penalties
  PROVE  IInv'
<1> USE DEF MainRests, penalties
<1>1. /\ Sound(sched') /\ sched' \in Scheduling
      /\ sched'.done = sched.done /\ DoneIffVerified'
      /\ \A k \in Keys : sched'.current[k] \in {sched.current[k], NoPiece}
      /\ sched'.current[KeyOf[c]] = NoPiece
      /\ conn' \in [Conns -> Links] /\ conn'[c] = "down"
      /\ \A d \in Conns \ {c} : conn'[d] = conn[d]
      /\ active' = active \ {c}
  BY GoneSound
<1>2. next \in ReaderState /\ next.at \in {"off", "read"} BY DEF ReaderState, Idle, Reading
<1>3. TypeOK' BY <1>1, <1>2 DEF IInv, TypeOK
<1>4. Suspended' BY <1>2 DEF IInv, Suspended, TypeOK
<1>5. UpIsServed' BY <1>1 DEF IInv, UpIsServed, TypeOK
<1>6. \A d \in Conns : reader'[d].at = "off" =>
         reader[d].at = "off" \/ sched'.current[KeyOf[d]] = NoPiece
  BY <1>1, <1>2 DEF IInv, TypeOK
<1> QED BY <1>1, <1>3, <1>4, <1>5, <1>6, KeptInv

\* A reader that leaves its loop disconnects first: `finally: await self.disconnect()`.
LEMMA LeaveLoopInv ==
  ASSUME IInv, NEW c \in Conns, reader[c].at # "off", LeaveLoop(c),
         UNCHANGED <<peer, completed>>, MainRests, UNCHANGED penalties
  PROVE  IInv'
<1>1. CASE Gone(c) /\ reader' = [reader EXCEPT ![c] = Idle] BY <1>1, ReaderGoneInv
<1>2. CASE /\ conn' = [conn EXCEPT ![c] = "closing"]
           /\ reader' = [reader EXCEPT ![c] = [Idle EXCEPT !.at = "close"]]
           /\ UNCHANGED <<sched, active>>
  <2> USE DEF MainRests, penalties
  <2> DEFINE next == [Idle EXCEPT !.at = "close"]
  <2>1. next \in ReaderState /\ next.at = "close" BY DEF ReaderState, Idle
  <2>2. reader' = [reader EXCEPT ![c] = next] BY <1>2
  <2> HIDE DEF next
  <2>3. "closing" \in Links BY DEF Links
  <2>4. TypeOK' BY <1>2, <2>1, <2>2, <2>3 DEF IInv, TypeOK
  <2>5. Suspended' BY <2>1, <2>2 DEF IInv, Suspended, TypeOK
  <2>6. UpIsServed' BY <1>2, <2>2 DEF IInv, UpIsServed, TypeOK
  <2>7. \A d \in Conns : reader'[d].at = "off" => reader[d].at = "off"
    BY <2>1, <2>2 DEF IInv, TypeOK
  <2>8. Sound(sched)' /\ DoneIffVerified' BY <1>2 DEF IInv, DoneIffVerified
  <2> QED BY <1>2, <2>4, <2>5, <2>6, <2>7, <2>8, KeptInv
<1> QED BY <1>1, <1>2 DEF LeaveLoop

\* read_loop: a failed read, a failed send, and the disconnects it waits for.
LEMMA ReaderLeavesInv ==
  ASSUME IInv, NEW c \in Conns,
         ReaderSendFails(c) \/ ReaderExit(c) \/ BanDone(c) \/ CloseDone(c)
  PROVE  IInv'
<1>1. CASE ReaderSendFails(c) BY <1>1, LeaveLoopInv DEF ReaderSendFails
<1>2. CASE ReaderExit(c) BY <1>2, LeaveLoopInv DEF ReaderExit
<1>3. CASE BanDone(c) BY <1>3, ReaderGoneInv DEF BanDone
<1>4. CASE CloseDone(c) BY <1>4, ReaderGoneInv DEF CloseDone
<1> QED BY <1>1, <1>2, <1>3, <1>4

\* A suspended HAVE is sent: the next one, or the end of _handle_piece_data.
LEMMA HaveSentInv ==
  ASSUME IInv, NEW c \in Conns, HaveSent(c)
  PROVE  IInv'
<1>1. reader[c].at # "off" BY DEF HaveSent
<1>2. peer[c] \in PeerState BY DEF IInv, TypeOK
<1>3. Sound(sched) /\ DoneVerified(sched) /\ OnlyGives(sched, sched, KeyOf[c])
  BY DEF IInv, DoneIffVerified, OnlyGives
<1>4. CASE Progress(sched) /\ ReaderAsks(c, sched, peer[c])
  <2>1. completed' \in BOOLEAN /\ (completed' => completed \/ sched.done = Pieces)
    BY <1>4 DEF Progress, IInv, TypeOK
  <2> QED BY <1>1, <1>2, <1>3, <1>4, <2>1, ReaderAsksInv DEF HaveSent
<1>5. CASE \E e \in Fragile \ {reader[c].on} : WaitsForHave(c, e, sched, peer[c])
  BY <1>1, <1>2, <1>3, <1>5, WaitsForHaveInv DEF HaveSent
<1> QED BY <1>4, <1>5 DEF HaveSent

\* A suspended request is sent and registered by the reader of its connection.
LEMMA RequestSentInv ==
  ASSUME IInv, NEW c \in Conns, RequestSent(c)
  PROVE  IInv'
<1> USE DEF MainRests, penalties
<1>1. KeyOf[c] \in Keys /\ reader[c].req \in Requests
  BY ConnsAssumption DEF IInv, Suspended, RequestSent
<1>2. sched' = Register(sched, KeyOf[c], reader[c].req) BY DEF RequestSent
<1>3. Placed(sched') /\ SamePlaces(sched, sched') /\ sched'.blocks = sched.blocks
  BY <1>1, <1>2, RegisterSound DEF IInv, Sound
<1>4. Sound(sched') BY <1>3, SamePlacesSound DEF IInv
<1>5. /\ sched' \in Scheduling /\ sched'.done = sched.done
      /\ \A k \in Keys : sched'.current[k] = sched.current[k]
  BY <1>3 DEF Placed, SamePlaces
<1>6. DoneIffVerified' BY <1>3, <1>5 DEF IInv, DoneIffVerified, DoneVerified, Verifies
<1>7. Reading \in ReaderState /\ Reading.at = "read" BY DEF ReaderState, Reading, Idle
<1>8. TypeOK' BY <1>5, <1>7 DEF RequestSent, IInv, TypeOK
<1>9. Suspended' BY <1>7 DEF RequestSent, IInv, Suspended, TypeOK
<1>10. UpIsServed' BY <1>7 DEF RequestSent, IInv, UpIsServed, TypeOK
<1>11. \A d \in Conns : reader'[d].at = "off" => reader[d].at = "off"
  BY <1>7 DEF RequestSent, IInv, TypeOK
<1>12. sched'.done = sched.done /\ active' = active /\ main' = main
       /\ completed' = completed /\ written' = written
  BY <1>5 DEF RequestSent
<1> QED BY <1>4, <1>5, <1>6, <1>8, <1>9, <1>10, <1>11, <1>12, KeptInv

\* _handle_piece_hash_failure: the piece is queued again, and its last sender counted.
LEMMA DeliverCorruptInv ==
  ASSUME IInv, NEW c \in Conns, NEW r \in Requests, NEW d \in DataFrom(c), DeliverCorrupt(c, r, d)
  PROVE  IInv'
<1> USE DEF MainRests
<1> DEFINE got == Received(r, d)
           k == KeyOf[c]
           fails == IF hashFails[k] < MaxHashFailures THEN hashFails[k] + 1 ELSE MaxHashFailures
           s == HashFailure(got, k, r[1])
<1>1. /\ peer[c].asked[r] > 0 /\ reader[c].at = "read"
      /\ r[1] \notin sched.done
      /\ peer' = [peer EXCEPT ![c] = Answered(c, r)]
      /\ hashFails' = [hashFails EXCEPT ![k] = fails]
      /\ \/ /\ sched' = s
            /\ UNCHANGED <<conn, reader, active, banned>>
         \/ /\ banned' = banned \cup {k}
            /\ sched' = Disconnected(s, k)
            /\ active' = active \ {c}
            /\ conn[c] = "down"
            /\ UNCHANGED <<conn, reader>>
         \/ /\ banned' = banned \cup {k}
            /\ sched' = s
            /\ conn' = [conn EXCEPT ![c] = "closing"]
            /\ reader' = [reader EXCEPT ![c] = [Idle EXCEPT !.at = "ban"]]
            /\ UNCHANGED active
      /\ MainRests /\ UNCHANGED <<completed, timeouts>>
  BY DEF DeliverCorrupt, Owed
<1>2. /\ Sound(got) /\ SamePlaces(sched, got)
      /\ \A i \in Pieces \ {r[1]} : got.blocks[i] = sched.blocks[i]
  BY ReceivedSound, DataType DEF IInv
<1>3. k \in Keys /\ r[1] \in Pieces BY ConnsAssumption DEF Requests
<1>4. s = HashFailure(got, k, r[1]) OBVIOUS
<1>5. Answered(c, r) \in PeerState BY <1>1, AnsweredType DEF IInv
<1>6. fails \in 0..MaxHashFailures
  <2>1. hashFails[k] \in 0..MaxHashFailures BY <1>3 DEF IInv, TypeOK
  <2> QED BY <2>1, LimitsAssumption
<1> HIDE DEF s, got, fails
<1>7. /\ Sound(s) /\ s.done = got.done
      /\ s.blocks = [got.blocks EXCEPT ![r[1]] = [b \in Blocks |-> "none"]]
      /\ s.current = [got.current EXCEPT ![k] = NoPiece]
  BY <1>2, <1>3, <1>4, HashFailureSound
<1>8. s.done = sched.done /\ s.current = [sched.current EXCEPT ![k] = NoPiece]
  BY <1>2, <1>7 DEF SamePlaces
<1>9. DoneVerified(s)
  <2>1. got.blocks \in [Pieces -> [Blocks -> Data]] BY <1>2 DEF Sound, Placed, Scheduling
  <2>2. ~Verifies(s, r[1])
    <3>1. 1 \in Blocks BY BlocksAssumption DEF Blocks
    <3>2. s.blocks[r[1]][1] = "none" BY <1>3, <1>7, <2>1, <3>1
    <3> QED BY <3>1, <3>2 DEF Verifies
  <2>3. \A i \in Pieces \ {r[1]} : s.blocks[i] = sched.blocks[i] BY <1>2, <1>7, <2>1
  <2> QED BY <1>1, <1>8, <2>2, <2>3 DEF IInv, DoneIffVerified, DoneVerified, Verifies
<1> DEFINE u == Disconnected(s, k)
<1>10. u = Disconnected(s, k) OBVIOUS
<1> HIDE DEF u
<1>11. /\ Sound(u) /\ u.done = s.done /\ u.blocks = s.blocks
       /\ u.current = [s.current EXCEPT ![k] = NoPiece]
  BY <1>3, <1>7, <1>10, DisconnectedSound
<1>12. sched' \in {s, u} BY <1>1, <1>10
<1>13. /\ Sound(sched') /\ sched' \in Scheduling /\ sched'.done = sched.done
       /\ \A m \in Keys : sched'.current[m] \in {sched.current[m], NoPiece}
  <2>1. sched.current \in [Keys -> Pieces \cup {NoPiece}] BY DEF IInv, TypeOK, Scheduling
  <2> QED BY <1>3, <1>7, <1>8, <1>11, <1>12, <2>1 DEF Sound, Placed
<1>14. DoneIffVerified' BY <1>8, <1>9, <1>11, <1>12 DEF DoneIffVerified, DoneVerified, Verifies
<1> DEFINE away == [Idle EXCEPT !.at = "ban"]
<1>15. away \in ReaderState /\ away.at = "ban" BY DEF ReaderState, Idle
<1>16. reader' \in {reader, [reader EXCEPT ![c] = away]} BY <1>1
<1> HIDE DEF away
<1>17. /\ conn' \in {conn, [conn EXCEPT ![c] = "closing"]} /\ "closing" \in Links
       /\ active' \subseteq active
       /\ active' = active \/ (active' = active \ {c} /\ conn'[c] = "down")
       /\ banned' \in {banned, banned \cup {k}}
  BY <1>1 DEF Links
<1>18. TypeOK'
  <2>1. conn' \in [Conns -> Links] /\ reader' \in [Conns -> ReaderState]
    BY <1>15, <1>16, <1>17 DEF IInv, TypeOK
  <2>2. /\ active' \subseteq Conns /\ banned' \subseteq Keys
        /\ hashFails' \in [Keys -> 0..MaxHashFailures]
    BY <1>1, <1>3, <1>6, <1>17 DEF IInv, TypeOK
  <2>3. peer' \in [Conns -> PeerState] BY <1>1, <1>5 DEF IInv, TypeOK
  <2> QED BY <1>1, <1>13, <2>1, <2>2, <2>3 DEF IInv, TypeOK
<1>19. Suspended' BY <1>1, <1>15, <1>16 DEF IInv, Suspended, TypeOK
<1>20. UpIsServed' BY <1>1, <1>15, <1>16, <1>17 DEF IInv, UpIsServed, TypeOK
<1>21. \A e \in Conns : reader'[e].at = "off" => reader[e].at = "off"
  BY <1>15, <1>16 DEF IInv, TypeOK
<1>22. main' = main /\ completed' = completed /\ written' = written BY <1>1
<1> QED BY <1>13, <1>14, <1>17, <1>18, <1>19, <1>20, <1>21, <1>22, KeptInv

-------------------------------------------------------------------------------
(* The main task *)

\* What main knows when it is suspended.
MainSuspended(m) ==
  /\ m.at \in {"dial", "shut", "drain"} => m.on \in Conns
  /\ m.at = "drain" => m.req \in Requests

\* A step of download() that leaves the bookkeeping and the readers alone.
LEMMA MainMovesInv ==
  ASSUME IInv, ReadersRest, UNCHANGED reader,
         main' \in MainState, MainSuspended(main'),
         main'.at = "dial" => main.at = "dial" \/ Cardinality(active') < MaxConns,
         conn' \in [Conns -> Links], \A c \in Conns : conn'[c] = "up" => conn[c] = "up" /\ c \in active',
         pool' \subseteq Conns, active' \subseteq active, banned' \subseteq Keys,
         running' \in BOOLEAN, completed' \in BOOLEAN, written' \in BOOLEAN,
         completed' \/ written' => completed \/ written \/ AllDone
  PROVE  IInv'
<1> USE DEF ReadersRest
<1>1. TypeOK' BY DEF IInv, TypeOK
<1>2. Suspended' BY DEF IInv, Suspended, MainSuspended
<1>3. UpIsServed' BY DEF IInv, UpIsServed
<1>4. Sound(sched)' /\ DoneIffVerified' /\ sched' = sched BY DEF IInv, DoneIffVerified
<1>5. AllDone' <=> AllDone BY DEF AllDone
<1> QED BY <1>1, <1>2, <1>3, <1>4, <1>5, KeptInv

\* The inner loop of connect_to_peers dials only when there is room.
LEMMA DialOrNapMain ==
  ASSUME main \in MainState, NEW S \in SUBSET Conns, NEW up, DialOrNap(S, up)
  PROVE  /\ main' \in MainState /\ MainSuspended(main')
         /\ main'.at = "dial" => Cardinality(up) < MaxConns
         /\ pool' \subseteq Conns
<1>1. CASE main' = [main EXCEPT !.at = "nap", !.on = NoConn] /\ pool' = S
  <2>1. main' \in MainState /\ main'.at = "nap" BY <1>1 DEF MainState
  <2> QED BY <1>1, <2>1 DEF MainSuspended
<1>2. ASSUME Cardinality(up) < MaxConns, NEW c \in S, pool' = S \ {c},
             main' = [main EXCEPT !.at = "dial", !.on = c]
      PROVE  main' \in MainState /\ MainSuspended(main') /\ pool' \subseteq Conns
  <2>1. main' \in MainState /\ main'.at = "dial" /\ main'.on \in Conns BY <1>2 DEF MainState
  <2> QED BY <1>2, <2>1 DEF MainSuspended
<1>3. CASE Cardinality(up) < MaxConns /\ S # {} BY <1>2, <1>3 DEF DialOrNap
<1>4. CASE ~(Cardinality(up) < MaxConns /\ S # {})
  <2>1. main' = [main EXCEPT !.at = "nap", !.on = NoConn] /\ pool' = S BY <1>4 DEF DialOrNap
  <2>2. main'.at = "nap" BY <2>1 DEF MainState
  <2> QED BY <1>1, <2>1, <2>2
<1> QED BY <1>3, <1>4

\* The test of the main loop, and the end of download(): written only when complete.
LEMMA MainTestMain ==
  ASSUME TypeOK, NEW done \in BOOLEAN, MainTest(done)
  PROVE  /\ main' \in MainState /\ MainSuspended(main') /\ main'.at # "dial"
         /\ written' \in BOOLEAN /\ (written' => written \/ AllDone)
<1>1. main \in MainState /\ running \in BOOLEAN /\ written \in BOOLEAN BY DEF TypeOK
<1>2. CASE running /\ ~done /\ main' = [main EXCEPT !.at = "sleep", !.on = NoConn] /\ UNCHANGED written
  <2>1. main' \in MainState /\ main'.at = "sleep" BY <1>1, <1>2 DEF MainState
  <2> QED BY <1>1, <1>2, <2>1 DEF MainSuspended
<1>3. CASE Finish(done)
  <2>1. \E at \in {"end", "error"} : main' = [main EXCEPT !.at = at, !.on = NoConn]
    BY <1>3 DEF Finish
  <2>2. main' \in MainState /\ main'.at \in {"end", "error"} BY <1>1, <2>1 DEF MainState
  <2>3. written' \in BOOLEAN /\ (written' => written \/ AllDone)
    BY <1>1, <1>3, JobAssumption DEF Finish
  <2> QED BY <2>2, <2>3 DEF MainSuspended
<1> QED BY <1>2, <1>3 DEF MainTest

\* connect_to_peers, from the test of its outer loop.
LEMMA ConnectLoopMain ==
  ASSUME TypeOK, NEW S \in SUBSET Conns, NEW up, ConnectLoop(S, up)
  PROVE  /\ main' \in MainState /\ MainSuspended(main')
         /\ main'.at = "dial" => Cardinality(up) < MaxConns
         /\ pool' \subseteq Conns
         /\ completed' \in BOOLEAN /\ written' \in BOOLEAN
         /\ completed' \/ written' => completed \/ written \/ AllDone
<1>1. main \in MainState /\ completed \in BOOLEAN /\ written \in BOOLEAN BY DEF TypeOK
<1>2. CASE DialOrNap(S, up) /\ UNCHANGED <<completed, written>>
  BY <1>1, <1>2, DialOrNapMain
<1>3. CASE /\ pool' = S
           /\ completed' = (completed \/ (main.again /\ AllDone))
           /\ MainTest(completed')
  <2>1. main.again \in BOOLEAN BY <1>1 DEF MainState
  <2>2. completed' \in BOOLEAN /\ (completed' => completed \/ AllDone) BY <1>1, <1>3, <2>1
  <2> QED BY <1>3, <2>2, MainTestMain
<1> QED BY <1>2, <1>3 DEF ConnectLoop

\* get_peers has returned.
LEMMA PeersFoundInv ==
  ASSUME IInv, NEW A \in Answers, PeersFound(A)
  PROVE  IInv'
<1>1. TypeOK /\ UpIsServed BY DEF IInv
<1>2. /\ conn' \in [Conns -> Links] /\ \A c \in Conns : conn'[c] = "up" => conn[c] = "up" /\ c \in active'
      /\ active' = active /\ banned' \subseteq Keys /\ UNCHANGED reader /\ ReadersRest
  BY <1>1 DEF PeersFound, TypeOK, UpIsServed
<1>3. CASE ConnectLoop(Found(A), active) /\ UNCHANGED running
  <2>1. Found(A) \subseteq Conns BY ConnsAssumption DEF Found
  <2>2. /\ main' \in MainState /\ MainSuspended(main')
        /\ main'.at = "dial" => Cardinality(active) < MaxConns
        /\ pool' \subseteq Conns
        /\ completed' \in BOOLEAN /\ written' \in BOOLEAN
        /\ completed' \/ written' => completed \/ written \/ AllDone
    BY <1>1, <1>3, <2>1, ConnectLoopMain
  <2>3. running' \in BOOLEAN BY <1>1, <1>3 DEF TypeOK
  <2> QED BY <1>2, <2>2, <2>3, MainMovesInv
<1>4. CASE /\ running' = FALSE
           /\ main' = [main EXCEPT !.at = "end"]
           /\ UNCHANGED <<pool, completed, written>>
  <2>1. main' \in MainState /\ main'.at = "end" BY <1>1, <1>4 DEF TypeOK, MainState
  <2>2. MainSuspended(main') BY <2>1 DEF MainSuspended
  <2>3. pool' \subseteq Conns /\ completed' \in BOOLEAN /\ written' \in BOOLEAN
    BY <1>1, <1>4 DEF TypeOK
  <2> QED BY <1>2, <1>4, <2>1, <2>2, <2>3, MainMovesInv
<1> QED BY <1>3, <1>4 DEF PeersFound

\* connect() has returned False, or raised.
LEMMA DialLostInv ==
  ASSUME IInv, DialFails \/ DialRaises
  PROVE  IInv'
<1>1. TypeOK /\ UpIsServed BY DEF IInv
<1>2. main.on \in Conns /\ KeyOf[main.on] \in Keys
  BY ConnsAssumption DEF IInv, Suspended, DialFails, DialRaises
<1>3. /\ conn' = [conn EXCEPT ![main.on] = "down"] /\ active' = active
      /\ UNCHANGED <<reader, running, completed, written>> /\ ReadersRest
  BY DEF DialFails, DialRaises
<1>4. "down" \in Links BY DEF Links
<1>5. conn' \in [Conns -> Links] /\ \A c \in Conns : conn'[c] = "up" => conn[c] = "up" /\ c \in active'
  BY <1>1, <1>2, <1>3, <1>4 DEF TypeOK, UpIsServed
<1>6. running' \in BOOLEAN /\ completed' \in BOOLEAN /\ written' \in BOOLEAN
  BY <1>1, <1>3 DEF TypeOK
<1>7. CASE DialFails
  <2>1. /\ main' \in MainState /\ MainSuspended(main')
        /\ main'.at = "dial" => Cardinality(active) < MaxConns
        /\ pool' \subseteq Conns
    BY <1>1, <1>7, DialOrNapMain DEF DialFails, TypeOK
  <2>2. banned' \subseteq Keys BY <1>1, <1>2, <1>7 DEF DialFails, TypeOK
  <2> QED BY <1>3, <1>5, <1>6, <2>1, <2>2, MainMovesInv
<1>8. CASE DialRaises
  <2>1. main' = [main EXCEPT !.at = "error", !.on = NoConn] BY <1>8 DEF DialRaises
  <2>2. main' \in MainState /\ main'.at = "error" BY <1>1, <2>1 DEF TypeOK, MainState
  <2>3. MainSuspended(main') BY <2>2 DEF MainSuspended
  <2>4. pool' \subseteq Conns /\ banned' \subseteq Keys BY <1>1, <1>8 DEF DialRaises, TypeOK
  <2> QED BY <1>3, <1>5, <1>6, <2>2, <2>3, <2>4, MainMovesInv
<1> QED BY <1>7, <1>8

\* connect() has returned True: the connection is listed, and its read loop started.
LEMMA DialOkInv ==
  ASSUME IInv, DialOk
  PROVE  IInv'
<1> USE DEF ReadersRest
<1>1. TypeOK BY DEF IInv
<1>2. /\ main.on \in Conns /\ active' = active \cup {main.on}
      /\ conn' = [conn EXCEPT ![main.on] = "up"]
      /\ reader' = [reader EXCEPT ![main.on] = Reading]
      /\ DialOrNap(pool, active')
      /\ UNCHANGED <<sched, peer, timeouts, hashFails, banned, running, completed, written>>
  BY DEF DialOk, IInv, Suspended
<1>3. /\ main' \in MainState /\ MainSuspended(main')
      /\ main'.at = "dial" => Cardinality(active') < MaxConns
      /\ pool' \subseteq Conns
  BY <1>1, <1>2, DialOrNapMain DEF TypeOK
<1>4. "up" \in Links BY DEF Links
<1>5. Reading \in ReaderState /\ Reading.at = "read" BY DEF ReaderState, Reading, Idle
<1>6. TypeOK' BY <1>1, <1>2, <1>3, <1>4, <1>5 DEF TypeOK
<1>7. Suspended' BY <1>1, <1>2, <1>3, <1>5 DEF IInv, Suspended, MainSuspended, TypeOK
<1>8. UpIsServed' BY <1>1, <1>2, <1>5 DEF IInv, UpIsServed, TypeOK
<1>9. WorkHasReader' BY <1>1, <1>2, <1>5 DEF IInv, WorkHasReader, TypeOK
<1>10. Cardinality(active') <= MaxConns
  <2>1. IsFiniteSet(active) BY <1>1, ConnsAssumption, FS_Subset DEF TypeOK
  <2>2. Cardinality(active) < MaxConns BY DEF IInv, Room, DialOk
  <2>3. Cardinality(active') \in {Cardinality(active), Cardinality(active) + 1}
    BY <1>2, <2>1, FS_AddElement
  <2>4. Cardinality(active) \in Nat BY <2>1, FS_CardinalityType
  <2> QED BY <2>2, <2>3, <2>4, LimitsAssumption
<1>11. Room' BY <1>3, <1>10 DEF Room
<1>12. Sound(sched)' /\ DoneIffVerified' /\ CompleteMeansVerified'
  BY <1>2 DEF IInv, DoneIffVerified, CompleteMeansVerified, AllDone
<1> QED BY <1>6, <1>7, <1>8, <1>9, <1>11, <1>12 DEF IInv

\* connect_to_peers has slept: the disconnected peers leave the list.
LEMMA NapOverInv ==
  ASSUME IInv, NapOver
  PROVE  IInv'
<1>1. TypeOK /\ UpIsServed BY DEF IInv
<1>2. /\ active' = {c \in active : conn[c] = "up"} /\ ConnectLoop(pool, active')
      /\ ReadersRest /\ UNCHANGED <<conn, reader, banned, running>>
  BY DEF NapOver
<1>3. /\ main' \in MainState /\ MainSuspended(main')
      /\ main'.at = "dial" => Cardinality(active') < MaxConns
      /\ pool' \subseteq Conns
      /\ completed' \in BOOLEAN /\ written' \in BOOLEAN
      /\ completed' \/ written' => completed \/ written \/ AllDone
  BY <1>1, <1>2, ConnectLoopMain DEF TypeOK
<1>4. /\ conn' \in [Conns -> Links] /\ \A c \in Conns : conn'[c] = "up" => conn[c] = "up" /\ c \in active'
      /\ active' \subseteq active /\ banned' \subseteq Keys /\ running' \in BOOLEAN
  BY <1>1, <1>2 DEF TypeOK, UpIsServed
<1> QED BY <1>2, <1>3, <1>4, MainMovesInv

\* _check_request_timeouts starts, and ends; a send of the main task, or a tracker, raises.
LEMMA RoundInv ==
  ASSUME IInv, SleepOver \/ ExpireDone \/ PollRaises \/ TrackerRaises
  PROVE  IInv'
<1>1. TypeOK /\ UpIsServed BY DEF IInv
<1>2. /\ ReadersRest
      /\ UNCHANGED <<conn, reader, pool, active, banned, running, completed, written>>
  BY DEF SleepOver, ExpireDone, PollRaises, TrackerRaises
<1>3. main' \in MainState /\ main'.at \in {"expire", "poll", "error"}
  <2>1. CASE SleepOver
    <3>1. {<<r, sched.owner[r]>> : r \in sched.late} \subseteq Requests \X Keys
      <4>1. sched \in Scheduling /\ LatePending(sched) BY DEF IInv, Sound, Placed
      <4>2. sched.late \subseteq Requests /\ \A r \in sched.late : sched.owner[r] \in Keys
        BY <4>1 DEF Scheduling, LatePending
      <4> QED BY <4>2
    <3> QED BY <1>1, <2>1, <3>1 DEF SleepOver, TypeOK, MainState
  <2>2. CASE ExpireDone BY <1>1, <2>2 DEF ExpireDone, TypeOK, MainState
  <2>3. CASE PollRaises BY <1>1, <2>3 DEF PollRaises, TypeOK, MainState
  <2>4. CASE TrackerRaises BY <1>1, <2>4 DEF TrackerRaises, TypeOK, MainState
  <2> QED BY <2>1, <2>2, <2>3, <2>4
<1>4. MainSuspended(main') BY <1>3 DEF MainSuspended
<1>5. /\ conn' \in [Conns -> Links] /\ \A c \in Conns : conn'[c] = "up" => conn[c] = "up" /\ c \in active'
      /\ pool' \subseteq Conns /\ active' \subseteq active /\ banned' \subseteq Keys
      /\ running' \in BOOLEAN /\ completed' \in BOOLEAN /\ written' \in BOOLEAN
  BY <1>1, <1>2 DEF TypeOK, UpIsServed
<1> QED BY <1>2, <1>3, <1>4, <1>5, MainMovesInv

\* The end of a round of the main loop.
LEMMA PollDoneInv ==
  ASSUME IInv, PollDone
  PROVE  IInv'
<1>1. TypeOK /\ UpIsServed BY DEF IInv
<1>2. ReadersRest /\ UNCHANGED <<conn, reader, pool, active, banned, running>> BY DEF PollDone
<1>3. /\ main' \in MainState /\ MainSuspended(main') /\ main'.at # "dial"
      /\ completed' \in BOOLEAN /\ written' \in BOOLEAN
      /\ completed' \/ written' => completed \/ written \/ AllDone
  <2>1. CASE AllDone /\ completed' = TRUE /\ Finish(TRUE)
    <3>1. \E at \in {"end", "error"} : main' = [main EXCEPT !.at = at, !.on = NoConn]
      BY <2>1 DEF Finish
    <3>2. main' \in MainState /\ main'.at \in {"end", "error"}
      BY <1>1, <3>1 DEF TypeOK, MainState
    <3>3. written' \in BOOLEAN BY <1>1, <2>1, JobAssumption DEF Finish, TypeOK
    <3> QED BY <2>1, <3>2, <3>3 DEF MainSuspended
  <2>2. CASE main' = [main EXCEPT !.at = "peers", !.again = TRUE] /\ UNCHANGED <<completed, written>>
    <3>1. main' \in MainState /\ main'.at = "peers" BY <1>1, <2>2 DEF TypeOK, MainState
    <3> QED BY <1>1, <2>2, <3>1 DEF MainSuspended, TypeOK
  <2>3. CASE MainTest(completed) /\ UNCHANGED completed
    <3>1. completed \in BOOLEAN BY <1>1 DEF TypeOK
    <3> QED BY <1>1, <2>3, <3>1, MainTestMain
  <2> QED BY <2>1, <2>2, <2>3 DEF PollDone
<1>4. /\ conn' \in [Conns -> Links] /\ \A c \in Conns : conn'[c] = "up" => conn[c] = "up" /\ c \in active'
      /\ pool' \subseteq Conns /\ active' \subseteq active /\ banned' \subseteq Keys
      /\ running' \in BOOLEAN
  BY <1>1, <1>2 DEF TypeOK, UpIsServed
<1> QED BY <1>2, <1>3, <1>4, MainMovesInv

\* _check_request_timeouts has disconnected a banned peer.
LEMMA ShutInv ==
  ASSUME IInv, Shut
  PROVE  IInv'
<1>1. TypeOK BY DEF IInv
<1>2. /\ main.on \in Conns /\ Gone(main.on)
      /\ main' = [main EXCEPT !.at = "expire", !.on = NoConn]
      /\ UNCHANGED <<peer, reader, pool, running, completed, written, timeouts, hashFails, banned>>
  BY DEF Shut, penalties, IInv, Suspended
<1>3. /\ Sound(sched') /\ sched' \in Scheduling
      /\ sched'.done = sched.done /\ DoneIffVerified'
      /\ \A k \in Keys : sched'.current[k] \in {sched.current[k], NoPiece}
      /\ conn' \in [Conns -> Links] /\ conn'[main.on] = "down"
      /\ \A d \in Conns \ {main.on} : conn'[d] = conn[d]
      /\ active' = active \ {main.on}
  BY <1>2, GoneSound
<1>4. main' \in MainState /\ main'.at = "expire" BY <1>1, <1>2 DEF TypeOK, MainState
<1>5. TypeOK' BY <1>1, <1>2, <1>3, <1>4 DEF TypeOK
<1>6. Suspended' BY <1>2, <1>4 DEF IInv, Suspended
<1>7. UpIsServed' BY <1>2, <1>3 DEF IInv, UpIsServed
<1> QED BY <1>2, <1>3, <1>4, <1>5, <1>6, <1>7, KeptInv

\* _check_request_timeouts handles one entry of its list.
LEMMA ExpireInv ==
  ASSUME IInv, NEW r \in Requests, NEW k \in Keys, Expire(r, k)
  PROVE  IInv'
<1> DEFINE late == IF timeouts[k] < MaxTimeouts THEN timeouts[k] + 1 ELSE MaxTimeouts
           s == DropPending(sched, {r})
           u == Disconnected(s, k)
           rest == [main EXCEPT !.expired = @ \ {<<r, k>>}]
<1>1. TypeOK BY DEF IInv
<1>2. /\ main.at = "expire"
      /\ timeouts' = [timeouts EXCEPT ![k] = late]
      /\ banned' \in {banned, banned \cup {k}}
      /\ UNCHANGED <<peer, reader, pool, hashFails, running, completed, written>>
      /\ \/ main' = rest /\ sched' = s /\ UNCHANGED <<conn, active>>
         \/ \E c \in active :
              \/ /\ conn[c] = "down" /\ main' = rest /\ sched' = u
                 /\ active' = active \ {c} /\ UNCHANGED conn
              \/ /\ main' = [rest EXCEPT !.at = "shut", !.on = c] /\ sched' = s
                 /\ conn' = [conn EXCEPT ![c] = "closing"] /\ UNCHANGED active
  BY DEF Expire
<1>3. late \in 0..MaxTimeouts
  <2>1. timeouts[k] \in 0..MaxTimeouts BY <1>1 DEF TypeOK
  <2> QED BY <2>1, LimitsAssumption
<1>4. s = DropPending(sched, {r}) /\ u = Disconnected(s, k) OBVIOUS
<1>5. rest \in MainState /\ rest.at = "expire" BY <1>1, <1>2 DEF TypeOK, MainState
<1> HIDE DEF late, s, u, rest
<1>6. Placed(s) /\ SamePlaces(sched, s) /\ s.blocks = sched.blocks
  BY <1>4, DropSound DEF IInv, Sound
<1>7. Sound(s) BY <1>6, SamePlacesSound DEF IInv
<1>8. /\ Sound(u) /\ u.done = s.done /\ u.blocks = s.blocks
      /\ u.current = [s.current EXCEPT ![k] = NoPiece]
  BY <1>4, <1>7, DisconnectedSound
<1>9. sched' \in {s, u} BY <1>2
<1>10. /\ Sound(sched') /\ sched' \in Scheduling /\ sched'.done = sched.done
       /\ sched'.blocks = sched.blocks
       /\ \A m \in Keys : sched'.current[m] \in {sched.current[m], NoPiece}
  <2>1. s.current \in [Keys -> Pieces \cup {NoPiece}] BY <1>7 DEF Sound, Placed, Scheduling
  <2> QED BY <1>6, <1>7, <1>8, <1>9, <2>1 DEF Sound, Placed, SamePlaces
<1>11. DoneIffVerified' BY <1>10 DEF IInv, DoneIffVerified, DoneVerified, Verifies
<1>12. /\ main' \in MainState /\ MainSuspended(main') /\ main'.at # "dial"
       /\ conn' \in [Conns -> Links] /\ active' \subseteq active
       /\ \A c \in Conns : conn'[c] = "up" => conn[c] = "up" /\ c \in active'
  <2>1. CASE main' = rest /\ UNCHANGED <<conn, active>>
    BY <1>1, <1>5, <2>1 DEF MainSuspended, TypeOK, IInv, UpIsServed
  <2>2. ASSUME NEW c \in active, conn[c] = "down", main' = rest, active' = active \ {c},
               UNCHANGED conn
        PROVE  <1>12!:
    BY <1>1, <1>5, <2>2 DEF MainSuspended, TypeOK, IInv, UpIsServed
  <2>3. ASSUME NEW c \in active, main' = [rest EXCEPT !.at = "shut", !.on = c],
               conn' = [conn EXCEPT ![c] = "closing"], UNCHANGED active
        PROVE  <1>12!:
    <3>1. c \in Conns /\ "closing" \in Links BY <1>1 DEF TypeOK, Links
    <3>2. main' \in MainState /\ main'.at = "shut" /\ main'.on = c
      BY <1>5, <2>3, <3>1 DEF MainState
    <3> QED BY <1>1, <2>3, <3>1, <3>2 DEF MainSuspended, TypeOK, IInv, UpIsServed
  <2> QED BY <1>2, <2>1, <2>2, <2>3
<1>13. TypeOK'
  <2>1. banned' \subseteq Keys /\ timeouts' \in [Keys -> 0..MaxTimeouts]
    BY <1>1, <1>2, <1>3 DEF TypeOK
  <2> QED BY <1>1, <1>2, <1>10, <1>12, <2>1 DEF TypeOK
<1>14. Suspended' BY <1>2, <1>12 DEF IInv, Suspended, MainSuspended
<1>15. UpIsServed' BY <1>2, <1>12 DEF IInv, UpIsServed
<1> QED BY <1>2, <1>10, <1>11, <1>12, <1>13, <1>14, <1>15, KeptInv

\* download() asks a connection for a block, in its loop over the connections.
LEMMA PollInv ==
  ASSUME IInv, NEW c \in Conns, Poll(c)
  PROVE  IInv'
<1>1. TypeOK BY DEF IInv
<1>2. /\ main.at = "poll"
      /\ UNCHANGED <<reader, pool, active, running, completed, written, timeouts, hashFails, banned>>
  BY DEF Poll, penalties
<1>3. CASE main' = [main EXCEPT !.poll = @ \ {c}] /\ UNCHANGED <<sched, conn, peer>>
  <2>1. main' \in MainState /\ main'.at = "poll" BY <1>1, <1>2, <1>3 DEF TypeOK, MainState
  <2>2. MainSuspended(main') BY <2>1 DEF MainSuspended
  <2> QED BY <1>1, <1>2, <1>3, <2>1, <2>2, MainMovesInv DEF ReadersRest, TypeOK, IInv, UpIsServed
<1>4. ASSUME conn[c] = "up", NEW a \in Asks(sched, c, peer[c]),
             sched' = a.s, peer' = [peer EXCEPT ![c] = a.p], conn' = [conn EXCEPT ![c] = a.link],
             main' = IF a.req = NoReq THEN [main EXCEPT !.poll = @ \ {c}]
                     ELSE [main EXCEPT !.poll = @ \ {c}, !.at = "drain", !.on = c, !.req = a.req]
      PROVE  IInv'
  <2>1. Sound(sched) /\ conn[c] \in Links /\ peer[c] \in PeerState BY <1>1 DEF IInv, TypeOK
  <2>2. /\ Sound(a.s) /\ a.s.done = sched.done /\ a.s.blocks = sched.blocks
        /\ OnlyGives(sched, a.s, KeyOf[c]) /\ a.p \in PeerState
        /\ a.link \in Links /\ (a.link = "up" => conn[c] = "up")
        /\ a.req \in Requests \cup {NoReq}
    BY <1>4, <2>1, AsksSound
  <2>3. sched' \in Scheduling BY <1>4, <2>2 DEF Sound, Placed
  <2>4. main' \in MainState /\ MainSuspended(main') /\ main'.at \in {"poll", "drain"}
    <3>1. CASE a.req = NoReq
      <4>1. main' \in MainState /\ main'.at = "poll" BY <1>1, <1>2, <1>4, <3>1 DEF TypeOK, MainState
      <4> QED BY <4>1 DEF MainSuspended
    <3>2. CASE a.req # NoReq
      <4>1. main' \in MainState /\ main'.at = "drain" /\ main'.on = c /\ main'.req = a.req
        BY <1>1, <1>4, <2>2, <3>2 DEF TypeOK, MainState
      <4> QED BY <2>2, <3>2, <4>1 DEF MainSuspended
    <3> QED BY <3>1, <3>2
  <2>5. TypeOK' BY <1>1, <1>2, <1>4, <2>2, <2>3, <2>4 DEF TypeOK
  <2>6. Suspended' BY <1>2, <2>4 DEF IInv, Suspended, MainSuspended
  <2>7. UpIsServed' BY <1>1, <1>2, <1>4, <2>2 DEF IInv, UpIsServed, TypeOK
  <2>8. WorkHasReader'
    <3> SUFFICES ASSUME NEW k \in Keys, sched'.current[k] # NoPiece
                 PROVE  \E d \in Conns : KeyOf[d] = k /\ reader'[d].at # "off"
      BY DEF WorkHasReader
    <3>1. CASE k = KeyOf[c] BY <1>2, <1>4, <3>1 DEF IInv, UpIsServed
    <3>2. CASE k # KeyOf[c] BY <1>2, <1>4, <2>2, <3>2 DEF OnlyGives, IInv, WorkHasReader
    <3> QED BY <3>1, <3>2
  <2>9. DoneIffVerified' BY <1>4, <2>2 DEF IInv, DoneIffVerified, DoneVerified, Verifies
  <2>10. CompleteMeansVerified' /\ Room'
    BY <1>2, <1>4, <2>2, <2>4 DEF IInv, CompleteMeansVerified, AllDone, Room
  <2> QED BY <1>4, <2>2, <2>5, <2>6, <2>7, <2>8, <2>9, <2>10 DEF IInv
<1> QED BY <1>3, <1>4 DEF Poll

\* A suspended request of the main task is sent and registered.
LEMMA PollSentInv ==
  ASSUME IInv, PollSent
  PROVE  IInv'
<1>1. TypeOK BY DEF IInv
<1>2. KeyOf[main.on] \in Keys /\ main.req \in Requests
  BY ConnsAssumption DEF IInv, Suspended, PollSent
<1>3. /\ sched' = Register(sched, KeyOf[main.on], main.req)
      /\ main' = [main EXCEPT !.at = "poll", !.on = NoConn, !.req = NoReq]
      /\ UNCHANGED <<conn, peer, reader, pool, active, running, completed, written,
                     timeouts, hashFails, banned>>
  BY DEF PollSent, penalties
<1>4. Placed(sched') /\ SamePlaces(sched, sched') /\ sched'.blocks = sched.blocks
  BY <1>2, <1>3, RegisterSound DEF IInv, Sound
<1>5. Sound(sched') BY <1>4, SamePlacesSound DEF IInv
<1>6. /\ sched' \in Scheduling /\ sched'.done = sched.done
      /\ \A k \in Keys : sched'.current[k] = sched.current[k]
  BY <1>4 DEF Placed, SamePlaces
<1>7. DoneIffVerified' BY <1>4, <1>6 DEF IInv, DoneIffVerified, DoneVerified, Verifies
<1>8. main' \in MainState /\ main'.at = "poll" BY <1>1, <1>3 DEF TypeOK, MainState
<1>9. TypeOK' BY <1>1, <1>3, <1>6, <1>8 DEF TypeOK
<1>10. Suspended' BY <1>3, <1>8 DEF IInv, Suspended
<1>11. UpIsServed' BY <1>3 DEF IInv, UpIsServed
<1> QED BY <1>3, <1>5, <1>6, <1>7, <1>8, <1>9, <1>10, <1>11, KeptInv

\* Each step of download() keeps the invariant.
LEMMA MainStepInv ==
  ASSUME IInv, MainStep
  PROVE  IInv'
BY PeersFoundInv, DialOkInv, DialLostInv, NapOverInv, RoundInv, ExpireInv, ShutInv,
   PollInv, PollSentInv, PollDoneInv DEF MainStep

-------------------------------------------------------------------------------
(* Everything else, and the theorems *)

\* A read loop, on its own or with a message.
LEMMA ReaderInv ==
  ASSUME IInv, NEW c \in Conns, ReaderStep(c) \/ MessageStep(c)
  PROVE  IInv'
<1>1. CASE ReaderStep(c) BY <1>1, RequestSentInv, HaveSentInv, ReaderLeavesInv DEF ReaderStep
<1>2. CASE MessageStep(c)
  <2>1. ASSUME NEW r \in Requests, NEW d \in DataFrom(c), Deliver(c, r, d) PROVE IInv'
    BY <2>1, DeliverBlockInv, DeliverPieceInv, DeliverCorruptInv DEF Deliver
  <2> QED BY <1>2, <2>1, UnchokeInv, AboutPeerInv, DeliverLateInv DEF MessageStep
<1> QED BY <1>1, <1>2

\* The connection is lost; stop_download stops and cancels the job.
LEMMA DropStopInv ==
  ASSUME IInv, Stop \/ \E c \in Conns : Drop(c)
  PROVE  IInv'
<1>1. TypeOK /\ UpIsServed /\ Suspended BY DEF IInv
<1>2. CASE Stop
  <2>1. main' = [main EXCEPT !.at = "end", !.on = NoConn, !.req = NoReq,
                             !.expired = {}, !.poll = {}]
    BY <1>2 DEF Stop
  <2>2. main' \in MainState /\ main'.at = "end" BY <1>1, <2>1 DEF TypeOK, MainState
  <2>3. MainSuspended(main') BY <2>2 DEF MainSuspended
  <2> QED BY <1>1, <1>2, <2>2, <2>3, MainMovesInv DEF Stop, TypeOK, UpIsServed
<1>3. ASSUME NEW c \in Conns, Drop(c) PROVE IInv'
  <2>1. MainSuspended(main') BY <1>1, <1>3 DEF Drop, Suspended, MainSuspended
  <2>2. "closing" \in Links BY DEF Links
  <2> QED BY <1>1, <1>3, <2>1, <2>2, MainMovesInv DEF Drop, TypeOK, UpIsServed
<1> QED BY <1>2, <1>3

\* A request grows old.
LEMMA OverdueInv ==
  ASSUME IInv, NEW r \in Requests, Overdue(r)
  PROVE  IInv'
<1>1. /\ sched' = [sched EXCEPT !.late = sched.late \cup {r}] /\ r \in Pending(sched)
      /\ UNCHANGED <<conn, peer, reader, main, pool, active, running, completed, written,
                     timeouts, hashFails, banned>>
  BY DEF Overdue, penalties
<1>2. TypeOK /\ Placed(sched) BY DEF IInv, Sound
<1>3. /\ sched' \in Scheduling /\ SamePlaces(sched, sched')
      /\ sched'.owner = sched.owner /\ sched'.late = sched.late \cup {r}
      /\ sched'.blocks = sched.blocks
  BY <1>1, <1>2 DEF TypeOK, Scheduling, SamePlaces
<1>4. LatePending(sched') BY <1>1, <1>2, <1>3 DEF Placed, LatePending, Pending
<1>5. OnePlace(sched') BY <1>2, <1>3 DEF Placed, OnePlace, OneWorker, Assigned, SamePlaces
<1>6. Sound(sched') BY <1>3, <1>4, <1>5, SamePlacesSound DEF Placed, IInv
<1>7. sched'.done = sched.done /\ sched'.current = sched.current BY <1>3 DEF SamePlaces
<1>8. DoneIffVerified' BY <1>3, <1>7 DEF IInv, DoneIffVerified, DoneVerified, Verifies
<1>9. TypeOK' BY <1>1, <1>2, <1>3 DEF TypeOK
<1>10. Suspended' /\ UpIsServed' BY <1>1 DEF IInv, Suspended, UpIsServed
<1> QED BY <1>1, <1>6, <1>7, <1>8, <1>9, <1>10, KeptInv

\* recheck_existing_output starts the bookkeeping again from what is on disk.
LEMMA RecheckInv ==
  ASSUME IInv, NEW ok \in Rechecks, Recheck(ok)
  PROVE  IInv'
<1>1. ok \in SUBSET Pieces BY JobAssumption
<1>2. /\ sched' = Rechecked(ok)
      /\ completed' = (ok = Pieces /\ Pieces # {}) /\ written' = completed'
      /\ UNCHANGED <<conn, peer, reader, main, pool, active, running, timeouts, hashFails, banned>>
  BY DEF Recheck, penalties
<1>3. /\ Sound(sched') /\ DoneVerified(sched') /\ sched'.done = ok
      /\ sched'.current = [k \in Keys |-> NoPiece]
  BY <1>1, <1>2, RecheckedSound
<1>4. sched' \in Scheduling BY <1>3 DEF Sound, Placed
<1>5. TypeOK' BY <1>2, <1>4 DEF IInv, TypeOK
<1>6. CompleteMeansVerified' BY <1>2, <1>3 DEF CompleteMeansVerified, AllDone
<1>7. WorkHasReader' BY <1>3 DEF WorkHasReader
<1>8. Suspended' /\ UpIsServed' /\ Room' BY <1>2 DEF IInv, Suspended, UpIsServed, Room
<1> QED BY <1>3, <1>5, <1>6, <1>7, <1>8 DEF IInv, DoneIffVerified

\* The job starts with the recheck, no connection and nothing in flight.
LEMMA InitInv == ASSUME Init PROVE IInv
<1>1. PICK ok \in StartVerified : sched = Rechecked(ok) BY DEF Init
<1>2. ok \in SUBSET Pieces /\ ok # Pieces BY <1>1, JobAssumption
<1>3. /\ Sound(sched) /\ DoneVerified(sched) /\ sched.done = ok
      /\ sched.current = [k \in Keys |-> NoPiece]
  BY <1>1, <1>2, RecheckedSound
<1>4. sched \in Scheduling BY <1>3 DEF Sound, Placed
<1>5. Stranger \in PeerState
  <2>1. [r \in Requests |-> 0] \in [Requests -> 0..MaxAsked] BY LimitsAssumption
  <2> QED BY <2>1 DEF Stranger, PeerState
<1>6. Idle \in ReaderState /\ Idle.at = "off" BY DEF Idle, ReaderState
<1>7. main \in MainState /\ main.at = "peers" BY DEF Init, MainState
<1>8. TypeOK
  <2>1. [k \in Keys |-> 0] \in [Keys -> 0..MaxTimeouts] /\ [k \in Keys |-> 0] \in [Keys -> 0..MaxHashFailures]
    BY LimitsAssumption
  <2> QED BY <1>4, <1>5, <1>6, <1>7, <2>1 DEF Init, TypeOK, Links
<1>9. Suspended /\ UpIsServed BY <1>6, <1>7 DEF Init, Suspended, UpIsServed
<1>10. WorkHasReader BY <1>3 DEF WorkHasReader
<1>11. CompleteMeansVerified BY DEF Init, CompleteMeansVerified
<1>12. Room
  <2>1. Cardinality(active) = 0 BY FS_EmptySet DEF Init
  <2> QED BY <1>7, <2>1, LimitsAssumption DEF Room
<1> QED BY <1>3, <1>8, <1>9, <1>10, <1>11, <1>12 DEF IInv, DoneIffVerified

\* One step of any task, of the network, of the clock or of the user keeps the invariant.
LEMMA NextInv == ASSUME IInv, [Next]_vars PROVE IInv'
<1>1. CASE Next
  BY <1>1, MainStepInv, ReaderInv, DropStopInv, OverdueInv, RecheckInv DEF Next, Surroundings
<1>2. CASE UNCHANGED vars
  <2> USE <1>2 DEF vars
  <2>1. TypeOK' /\ Suspended' /\ UpIsServed' /\ Room'
    BY DEF IInv, TypeOK, Suspended, UpIsServed, Room
  <2>2. Sound(sched)' /\ DoneIffVerified' /\ CompleteMeansVerified' /\ WorkHasReader'
    BY DEF IInv, DoneIffVerified, CompleteMeansVerified, AllDone, WorkHasReader
  <2> QED BY <2>1, <2>2 DEF IInv
<1> QED BY <1>1, <1>2

\* The inductive invariant holds in every reachable state of every job.
THEOREM Invariant == Spec => []IInv
<1>1. Init => IInv BY InitInv
<1>2. IInv /\ [Next]_vars => IInv' BY NextInv
<1> QED BY <1>1, <1>2, PTL DEF Spec

\* The variables have their types: in particular a pending count never falls below zero,
\* whatever order the answers, the timeouts and the disconnects come in.
THEOREM TypesHold == Spec => []TypeOK
<1>1. IInv => TypeOK BY DEF IInv
<1> QED BY <1>1, Invariant, PTL

\* _queue_piece, _pop_next_piece_for_peer, _write_piece and _handle_peer_disconnect never
\* leave a piece at two places, for every number of peers.
THEOREM OnePlaceHolds == Spec => []PieceInOnePlace
<1>1. IInv => PieceInOnePlace BY DEF IInv, Sound, Placed, PieceInOnePlace
<1> QED BY <1>1, Invariant, PTL

\* The helpers that rebuild the piece queue do to the list, in whatever order it is and however
\* long, what they do to the set in PieceScheduler: it takes that no piece is at two places.
THEOREM QueueIsSetHolds == Spec => []QueueIsSet
<1>1. IInv => QueueIsSet BY ListIsSetWherePlaced DEF IInv, Sound, QueueIsSet
<1> QED BY <1>1, Invariant, PTL

\* Only _handle_piece_hash_failure can make the scheduler forget a piece.
THEOREM TrackedHolds == Spec => []PieceTracked
<1>1. IInv => PieceTracked BY DEF IInv, Sound, PieceTracked
<1> QED BY <1>1, Invariant, PTL

\* _handle_piece_data counts a piece as complete when it verifies, and only then.
THEOREM VerifiedHolds == Spec => []DoneIffVerified
<1>1. IInv => DoneIffVerified BY DEF IInv
<1> QED BY <1>1, Invariant, PTL

\* download() and _update_progress report completion only with every piece verified.
THEOREM CompletionHolds == Spec => []CompleteMeansVerified
<1>1. IInv => CompleteMeansVerified BY DEF IInv
<1> QED BY <1>1, Invariant, PTL

\* _handle_peer_disconnect gives back the work of a peer whose read loop ends.
THEOREM WorkHolds == Spec => []WorkHasReader
<1>1. IInv => WorkHasReader BY DEF IInv
<1> QED BY <1>1, Invariant, PTL

\* connect_to_peers respects max_connections, and every connection that is up is served.
THEOREM ConnectionsHold == Spec => []ConnectionsServed
<1>1. IInv => ConnectionsServed BY DEF IInv, UpIsServed, Room, ConnectionsServed
<1> QED BY <1>1, Invariant, PTL

-------------------------------------------------------------------------------
(***************************************************************************)
(* DownloadManager implements DownloadContract: under the mapping Contract  *)
(* (DownloadManager.tla), the initial states are initial states of the      *)
(* contract, and every step is a step of the contract or a stutter.         *)
(*                                                                          *)
(* Two facts about a download that has not ended are needed beyond the      *)
(* invariant IInv: it is running and has written nothing, and before the    *)
(* first tracker round has an answer no read loop can complete it.          *)
(***************************************************************************)


\* The first tracker round.
FirstRound == main.at = "peers" /\ ~main.again

Unwritten == ~Ended => running /\ ~written

NothingYet == FirstRound => ~completed /\ \A c \in Conns : reader[c].at = "off"

CInv == IInv /\ Unwritten /\ NothingYet

\* What the contract sees of this module: the substitution of Contract.
Seen ==
  [phase     |-> IF Ended THEN main.at ELSE "running",
   running   |-> running,
   completed |-> completed,
   written   |-> written]

\* A step of a read loop, of the network or of the clock: it may complete the job, and
\* changes nothing else that the contract or CInv speaks of.
Aside ==
  /\ UNCHANGED <<main, running, written>>
  /\ completed' \in {completed, TRUE}

-------------------------------------------------------------------------------
\* A read loop that takes a step is not off.
LEMMA ReaderAside ==
  ASSUME IInv, NEW c \in Conns, ReaderStep(c) \/ MessageStep(c)
  PROVE  Aside /\ reader[c].at # "off"
<1>1. completed \in BOOLEAN BY DEF IInv, TypeOK
<1>2. ASSUME NEW s, Progress(s) PROVE completed' \in {completed, TRUE}
  BY <1>1, <1>2 DEF Progress
<1> USE DEF Aside, MainRests
<1>3. CASE ReaderStep(c)
  <2>1. CASE RequestSent(c) BY <2>1 DEF RequestSent
  <2>2. CASE HaveSent(c)
    BY <1>2, <2>2 DEF HaveSent, WaitsForHave
  <2>3. CASE ReaderSendFails(c) BY <2>3 DEF ReaderSendFails
  <2>4. CASE BanDone(c) \/ ReaderExit(c) \/ CloseDone(c)
    BY <2>4 DEF BanDone, ReaderExit, CloseDone
  <2> QED BY <1>3, <2>1, <2>2, <2>3, <2>4 DEF ReaderStep
<1>4. CASE MessageStep(c)
  <2>1. CASE Unchoke(c) \/ Choke(c) \/ Bitfield(c) BY <2>1 DEF Unchoke, Choke, Bitfield
  <2>2. ASSUME NEW i \in Pieces, Have(c, i) PROVE Aside /\ reader[c].at # "off"
    BY <2>2 DEF Have
  <2>3. ASSUME NEW r \in Requests, DeliverLate(c, r) PROVE Aside /\ reader[c].at # "off"
    BY <2>3 DEF DeliverLate, Owed
  <2>4. ASSUME NEW r \in Requests, NEW d \in DataFrom(c), Deliver(c, r, d)
        PROVE  Aside /\ reader[c].at # "off"
    <3>1. CASE DeliverBlock(c, r, d) BY <3>1 DEF DeliverBlock, Owed
    <3>2. CASE DeliverPiece(c, r, d)
      BY <1>2, <3>2 DEF DeliverPiece, WaitsForHave, Owed
    <3>3. CASE DeliverCorrupt(c, r, d) BY <3>3 DEF DeliverCorrupt, Owed
    <3> QED BY <2>4, <3>1, <3>2, <3>3 DEF Deliver
  <2> QED BY <1>4, <2>1, <2>2, <2>3, <2>4 DEF MessageStep
<1> QED BY <1>3, <1>4

-------------------------------------------------------------------------------
\* download() goes on, and has not completed anything.
GoesOn ==
  /\ ~Ended /\ ~Ended'
  /\ main'.at = "peers" => main'.again
  /\ UNCHANGED <<running, completed, written>>

\* download() returns complete; its output is written, or failed to be.
EndsComplete ==
  /\ ~Ended /\ main'.at = "end"
  /\ running' = running /\ completed' = TRUE /\ written' \in BOOLEAN

\* download() returns from the first tracker round without a peer, or raises: before it
\* writes its output, or because the output directory cannot be made.
EndsEmpty ==
  /\ ~Ended /\ main'.at = "end"
  /\ ~completed /\ running' = FALSE /\ UNCHANGED <<completed, written>>

EndsRaising ==
  /\ ~Ended /\ main'.at = "error"
  /\ completed' \in {completed, TRUE} /\ UNCHANGED <<running, written>>

\* Finish ends download(), complete or raising.
LEMMA FinishEnds ==
  ASSUME main \in MainState, ~Ended, completed' = TRUE, running' = running, Finish(TRUE)
  PROVE  EndsComplete \/ EndsRaising
<1>1. CASE /\ main' = [main EXCEPT !.at = "end", !.on = NoConn]
           /\ written' \in IF AllDone THEN {TRUE, ~DiskFails} ELSE {FALSE}
  <2>1. main'.at = "end" BY <1>1 DEF MainState
  <2>2. written' \in BOOLEAN BY <1>1, JobAssumption
  <2> QED BY <2>1, <2>2 DEF EndsComplete
<1>2. CASE main' = [main EXCEPT !.at = "error", !.on = NoConn] /\ UNCHANGED written
  <2>1. main'.at = "error" BY <1>2 DEF MainState
  <2> QED BY <1>2, <2>1 DEF EndsRaising
<1> QED BY <1>1, <1>2 DEF Finish

\* The test of the main loop.
LEMMA MainTestStep ==
  ASSUME CInv, ~Ended, NEW done \in BOOLEAN, completed' = done, completed => done,
         running' = running, MainTest(done)
  PROVE  GoesOn \/ EndsComplete \/ EndsRaising
<1>1. main \in MainState /\ completed \in BOOLEAN /\ running BY DEF CInv, IInv, TypeOK, Unwritten
<1>2. CASE running /\ ~done
  <2>1. main' = [main EXCEPT !.at = "sleep", !.on = NoConn] /\ UNCHANGED written
    BY <1>2 DEF MainTest
  <2>2. main'.at = "sleep" BY <1>1, <2>1 DEF MainState
  <2> QED BY <1>1, <1>2, <2>1, <2>2 DEF GoesOn, Ended
<1>3. CASE done
  <2>1. done = TRUE /\ Finish(done) BY <1>1, <1>3 DEF MainTest
  <2> QED BY <1>1, <2>1, FinishEnds
<1> QED BY <1>1, <1>2, <1>3

\* Dialing or napping, download() has not ended.
LEMMA DialStep ==
  ASSUME CInv, NEW S, NEW up, DialOrNap(S, up)
  PROVE  main'.at \in {"dial", "nap"}
BY DEF DialOrNap, CInv, IInv, TypeOK, MainState

\* connect_to_peers goes on dialing, or returns to the test of the main loop.
LEMMA ConnectStep ==
  ASSUME CInv, ~Ended, NEW S, NEW up, running' = running, ConnectLoop(S, up)
  PROVE  GoesOn \/ EndsComplete \/ EndsRaising
<1>1. CASE DialOrNap(S, up) /\ UNCHANGED <<completed, written>>
  BY <1>1, DialStep DEF GoesOn, Ended
<1>2. CASE completed' = (completed \/ (main.again /\ AllDone)) /\ MainTest(completed')
  <2>1. completed \in BOOLEAN BY DEF CInv, IInv, TypeOK
  <2>2. completed' \in BOOLEAN /\ (completed => completed') BY <1>2, <2>1
  <2> QED BY <1>2, <2>2, MainTestStep
<1> QED BY <1>1, <1>2 DEF ConnectLoop

\* Every step of download() goes on, or ends it in one of three ways.
LEMMA MainCases ==
  ASSUME CInv, MainStep
  PROVE  GoesOn \/ EndsComplete \/ EndsEmpty \/ EndsRaising
<1>1. main \in MainState BY DEF CInv, IInv, TypeOK
<1>2. ASSUME NEW A \in Answers, PeersFound(A)
      PROVE  GoesOn \/ EndsComplete \/ EndsEmpty \/ EndsRaising
  <2>1. ~Ended BY <1>2 DEF PeersFound, Ended
  <2>2. CASE ConnectLoop(Found(A), active) /\ UNCHANGED running
    BY <2>1, <2>2, ConnectStep
  <2>3. CASE /\ ~main.again /\ Found(A) = {} /\ running' = FALSE
             /\ main' = [main EXCEPT !.at = "end"]
             /\ UNCHANGED <<pool, completed, written>>
    <3>1. main'.at = "end" BY <1>1, <2>3 DEF MainState
    <3>2. ~completed BY <1>2, <2>3 DEF CInv, NothingYet, FirstRound, PeersFound
    <3> QED BY <2>1, <2>3, <3>1, <3>2 DEF EndsEmpty
  <2> QED BY <1>2, <2>2, <2>3 DEF PeersFound
<1>3. CASE TrackerRaises \/ DialRaises \/ PollRaises
  <2>1. ~Ended BY <1>3 DEF TrackerRaises, DialRaises, PollRaises, Ended
  <2>2. main'.at = "error" BY <1>1, <1>3 DEF TrackerRaises, DialRaises, PollRaises, MainState
  <2> QED BY <1>3, <2>1, <2>2 DEF EndsRaising, TrackerRaises, DialRaises, PollRaises
<1>4. CASE DialOk
  <2>1. DialOrNap(pool, active') BY <1>4 DEF DialOk
  <2>2. main'.at \in {"dial", "nap"} BY <2>1, DialStep
  <2> QED BY <1>4, <2>2 DEF DialOk, GoesOn, Ended
<1>5. CASE DialFails
  <2>1. DialOrNap(pool, active) BY <1>5 DEF DialFails
  <2>2. main'.at \in {"dial", "nap"} BY <2>1, DialStep
  <2> QED BY <1>5, <2>2 DEF DialFails, GoesOn, Ended
<1>6. CASE NapOver
  <2>1. ~Ended /\ running' = running /\ ConnectLoop(pool, active') BY <1>6 DEF NapOver, Ended
  <2> QED BY <2>1, ConnectStep
<1>7. CASE SleepOver \/ ExpireDone \/ Shut \/ PollSent
  <2>1. main'.at \in {"expire", "poll"}
    BY <1>1, <1>7 DEF SleepOver, ExpireDone, Shut, PollSent, MainState
  <2>2. ~Ended /\ UNCHANGED <<running, completed, written>>
    BY <1>7 DEF SleepOver, ExpireDone, Shut, PollSent, Ended
  <2> QED BY <2>1, <2>2 DEF GoesOn, Ended
<1>8. ASSUME NEW r \in Requests, NEW k \in Keys, Expire(r, k) PROVE GoesOn
  <2>1. main'.at \in {"expire", "shut"} BY <1>1, <1>8 DEF Expire, MainState
  <2>2. ~Ended /\ UNCHANGED <<running, completed, written>> BY <1>8 DEF Expire, Ended
  <2> QED BY <2>1, <2>2 DEF GoesOn, Ended
<1>9. ASSUME NEW c \in Conns, Poll(c) PROVE GoesOn
  <2>1. main'.at \in {"poll", "drain"} BY <1>1, <1>9 DEF Poll, MainState
  <2>2. ~Ended /\ UNCHANGED <<running, completed, written>> BY <1>9 DEF Poll, Ended
  <2> QED BY <2>1, <2>2 DEF GoesOn, Ended
<1>10. CASE PollDone
  <2>1. ~Ended /\ running' = running BY <1>10 DEF PollDone, Ended
  <2>2. CASE completed' = TRUE /\ Finish(TRUE)
    BY <1>1, <2>1, <2>2, FinishEnds
  <2>3. CASE main' = [main EXCEPT !.at = "peers", !.again = TRUE] /\ UNCHANGED <<completed, written>>
    <3>1. main'.at = "peers" /\ main'.again = TRUE BY <1>1, <2>3 DEF MainState
    <3> QED BY <2>1, <2>3, <3>1 DEF GoesOn, Ended
  <2>4. CASE MainTest(completed) /\ UNCHANGED completed
    <3>1. completed \in BOOLEAN BY DEF CInv, IInv, TypeOK
    <3> QED BY <2>1, <2>4, <3>1, MainTestStep
  <2> QED BY <1>10, <2>2, <2>3, <2>4 DEF PollDone
<1> QED BY <1>2, <1>3, <1>4, <1>5, <1>6, <1>7, <1>8, <1>9, <1>10 DEF MainStep

-------------------------------------------------------------------------------
\* Stop and recheck.
UserStops ==
  /\ ~Ended /\ main'.at = "end"
  /\ running' = FALSE /\ UNCHANGED <<completed, written>>

UserRechecks ==
  /\ Ended /\ UNCHANGED <<main, running>>
  /\ completed' \in BOOLEAN /\ written' = completed'

\* Every step, as the contract sees it.
LEMMA StepCases ==
  ASSUME CInv, [Next]_vars
  PROVE  \/ /\ Aside
            /\ FirstRound => UNCHANGED <<completed, reader>>
         \/ GoesOn \/ EndsComplete \/ EndsEmpty \/ EndsRaising \/ UserStops \/ UserRechecks
<1>1. main \in MainState BY DEF CInv, IInv, TypeOK
<1>2. CASE MainStep BY <1>2, MainCases
<1>3. ASSUME NEW c \in Conns, ReaderStep(c) \/ MessageStep(c) PROVE Aside /\ ~FirstRound
  BY <1>3, ReaderAside DEF CInv, NothingYet
<1>4. CASE Surroundings
  <2>1. CASE Stop
    <3>1. main'.at = "end" BY <1>1, <2>1 DEF Stop, MainState
    <3> QED BY <2>1, <3>1 DEF Stop, UserStops
  <2>2. CASE \E ok \in Rechecks : Recheck(ok) BY <2>2 DEF Recheck, UserRechecks
  <2>3. CASE \E c \in Conns : Drop(c) BY <2>3 DEF Drop, Aside
  <2>4. CASE \E r \in Requests : Overdue(r) BY <2>4 DEF Overdue, Aside
  <2> QED BY <1>4, <2>1, <2>2, <2>3, <2>4 DEF Surroundings
<1>5. CASE UNCHANGED vars BY <1>5 DEF vars, Aside
<1> QED BY <1>2, <1>3, <1>4, <1>5 DEF Next

\* A download that has not ended is running and has written nothing, and before its first
\* peer it is not complete.
LEMMA ContractInvariant == Spec => []CInv
<1>1. Init => Unwritten /\ NothingYet
  <2> SUFFICES ASSUME Init PROVE Unwritten /\ NothingYet OBVIOUS
  <2>1. running = TRUE /\ completed = FALSE /\ written = FALSE BY DEF Init
  <2>2. \A c \in Conns : reader[c].at = "off" BY DEF Init, Idle
  <2> QED BY <2>1, <2>2 DEF Unwritten, NothingYet
<1>2. ASSUME CInv, [Next]_vars PROVE Unwritten' /\ NothingYet'
  <2>1. CASE Aside /\ (FirstRound => UNCHANGED <<completed, reader>>)
    BY <1>2, <2>1 DEF CInv, Aside, Unwritten, NothingYet, FirstRound, Ended
  <2>2. CASE GoesOn
    BY <1>2, <2>2 DEF CInv, GoesOn, Unwritten, NothingYet, FirstRound, Ended
  <2>3. CASE EndsComplete \/ EndsEmpty \/ EndsRaising \/ UserStops
    BY <2>3 DEF EndsComplete, EndsEmpty, EndsRaising, UserStops, Unwritten, NothingYet,
                FirstRound, Ended
  <2>4. CASE UserRechecks
    BY <2>4 DEF UserRechecks, Unwritten, NothingYet, FirstRound, Ended
  <2> QED BY <1>2, <2>1, <2>2, <2>3, <2>4, StepCases
<1> QED BY <1>1, <1>2, Invariant, PTL DEF Spec, CInv

-------------------------------------------------------------------------------
\* A manager, by its fields.
As(at, runs, done, wrote) ==
  [phase |-> at, running |-> runs, completed |-> done, written |-> wrote]

\* DownloadManager.download keeps its contract, for any number of pieces, peers and
\* connections, whatever goes wrong: it ends by returning complete, by returning without
\* a peer, by raising, or by a cancellation; its output is written by the first only.
THEOREM ContractHolds == Spec => ImplementsContract
<1>1. Init => Contract!Init
  <2> SUFFICES ASSUME Init PROVE Contract!Init OBVIOUS
  <2>1. ~Ended /\ running = TRUE /\ completed = FALSE /\ written = FALSE BY DEF Init, Ended
  <2> QED BY <2>1 DEF Contract!Init, Contract!Started
<1>2. ASSUME CInv, [Next]_vars PROVE [Contract!Next]_Seen
  <2> DEFINE at == IF Ended THEN main.at ELSE "running"
  <2>1. /\ Seen = As(at, running, completed, written)
        /\ Seen' = As(at', running', completed', written')
        /\ Seen.phase = at
    BY DEF Seen, As
  <2>2. at = "running" <=> ~Ended BY DEF Ended
  <2>3. /\ Contract!Completed(Seen) = As(at, running, TRUE, written)
        /\ \A d \in {completed, TRUE} : As("error", running, d, written) \in Contract!Raises(Seen)
        /\ Contract!Aborted(Seen) = As("end", FALSE, completed, written)
        /\ \A whole : Contract!Verified(Seen, whole) = As(at, running, whole, whole)
        /\ \A w \in BOOLEAN : As("end", running, TRUE, w) \in Contract!Returns(Seen)
        /\ ~completed => As("end", FALSE, completed, written) \in Contract!Returns(Seen)
    <3> HIDE DEF at
    <3>1. Seen.completed = completed BY DEF Seen
    <3>2. PICK yes : yes = TRUE OBVIOUS
    <3>3. PICK no : no = FALSE OBVIOUS
    <3>4. PICK end : end = "end" OBVIOUS
    <3>5. PICK error : error = "error" OBVIOUS
    <3>6. Contract!Completed(Seen) = As(at, running, TRUE, written)
      <4>1. [Seen EXCEPT !.completed = yes] = As(at, running, yes, written)
        BY <2>1 DEF As
      <4> QED BY <3>2, <4>1 DEF Contract!Completed
    <3>7. ASSUME NEW d \in {completed, TRUE}
          PROVE  As("error", running, d, written) \in Contract!Raises(Seen)
      <4>1. [Seen EXCEPT !.phase = error] = As(error, running, completed, written)
        BY <2>1 DEF As
      <4>2. [As(error, running, completed, written) EXCEPT !.completed = yes]
              = As(error, running, yes, written)
        BY DEF As
      <4>3. [Seen EXCEPT !.phase = "error"] = As("error", running, completed, written)
        BY <3>5, <4>1
      <4>4. [Seen EXCEPT !.phase = "error", !.completed = TRUE]
              = As("error", running, TRUE, written)
        BY <3>2, <3>5, <4>1, <4>2
      <4>5. CASE d = completed BY <4>3, <4>5, Zenon DEF Contract!Raises
      <4>6. CASE d = TRUE BY <4>4, <4>6, Zenon DEF Contract!Raises
      <4> QED BY <4>5, <4>6
    <3>8. Contract!Aborted(Seen) = As("end", FALSE, completed, written)
      <4>1. [Seen EXCEPT !.running = no] = As(at, no, completed, written)
        BY <2>1 DEF As
      <4>2. [As(at, no, completed, written) EXCEPT !.phase = end]
              = As(end, no, completed, written)
        BY DEF As
      <4> QED BY <3>3, <3>4, <4>1, <4>2 DEF Contract!Aborted
    <3>9. ASSUME NEW whole
          PROVE  Contract!Verified(Seen, whole) = As(at, running, whole, whole)
      <4>1. [Seen EXCEPT !.completed = whole] = As(at, running, whole, written)
        BY <2>1 DEF As
      <4>2. [As(at, running, whole, written) EXCEPT !.written = whole]
              = As(at, running, whole, whole)
        BY DEF As
      <4> QED BY <4>1, <4>2 DEF Contract!Verified
    <3>10. [Seen EXCEPT !.phase = end] = As(end, running, completed, written) BY <2>1 DEF As
    <3>11. ASSUME NEW w \in BOOLEAN
           PROVE  As("end", running, TRUE, w) \in Contract!Returns(Seen)
      <4>1. [As(end, running, completed, written) EXCEPT !.completed = yes]
              = As(end, running, yes, written)
        BY DEF As
      <4>2. [As(end, running, yes, written) EXCEPT !.written = w]
              = As(end, running, yes, w)
        BY DEF As
      <4>3. [Seen EXCEPT !.phase = "end", !.completed = TRUE, !.written = w]
              = As("end", running, TRUE, w)
        BY <3>2, <3>4, <3>10, <4>1, <4>2
      <4> QED BY <4>3, Zenon DEF Contract!Returns
    <3>12. ASSUME ~completed
           PROVE  As("end", FALSE, completed, written) \in Contract!Returns(Seen)
      <4>1. [As(end, running, completed, written) EXCEPT !.running = no]
              = As(end, no, completed, written)
        BY DEF As
      <4>2. [Seen EXCEPT !.phase = "end", !.running = FALSE]
              = As("end", FALSE, completed, written)
        BY <3>3, <3>4, <3>10, <4>1
      <4> QED BY <3>1, <3>12, <4>2, Zenon DEF Contract!Returns
    <3> QED BY <3>6, <3>7, <3>8, <3>9, <3>11, <3>12
  <2>4. CASE Aside
    <3>1. at' = at /\ running' = running /\ written' = written BY <2>4 DEF Aside, Ended
    <3> HIDE DEF at
    <3>2. CASE completed' = completed BY <2>1, <3>1, <3>2
    <3>3. CASE completed' = TRUE
      <4>1. Seen' = Contract!Completed(Seen) BY <2>1, <2>3, <3>1, <3>3
      <4> QED BY <4>1 DEF Contract!Next, Contract!Complete, Seen
    <3> QED BY <2>4, <3>2, <3>3 DEF Aside
  <2>5. CASE GoesOn
    <3>1. at' = at BY <2>5 DEF GoesOn
    <3> HIDE DEF at
    <3> QED BY <2>1, <2>5, <3>1 DEF GoesOn
  <2>6. CASE EndsComplete \/ EndsEmpty
    <3>1. at = "running" /\ at' = "end" BY <2>6 DEF EndsComplete, EndsEmpty, Ended
    <3> HIDE DEF at
    <3>2. Seen' \in Contract!Returns(Seen)
      <4>1. CASE EndsComplete BY <2>1, <2>3, <3>1, <4>1 DEF EndsComplete
      <4>2. CASE EndsEmpty BY <2>1, <2>3, <3>1, <4>2 DEF EndsEmpty
      <4> QED BY <2>6, <4>1, <4>2
    <3> QED BY <2>1, <3>1, <3>2 DEF Contract!Next, Contract!Return, Contract!Inside, Seen
  <2>7. CASE EndsRaising
    <3>1. at = "running" /\ at' = "error" BY <2>7 DEF EndsRaising, Ended
    <3> HIDE DEF at
    <3>2. Seen' = As("error", running, completed', written) /\ completed' \in {completed, TRUE}
      BY <2>1, <2>7, <3>1 DEF EndsRaising
    <3>3. Seen' \in Contract!Raises(Seen) BY <2>3, <3>2
    <3> QED BY <2>1, <3>1, <3>3 DEF Contract!Next, Contract!Raise, Contract!Inside, Seen
  <2>8. CASE UserStops
    <3>1. at = "running" /\ at' = "end" BY <2>8 DEF UserStops, Ended
    <3> HIDE DEF at
    <3>2. Seen' = Contract!Aborted(Seen) BY <2>1, <2>3, <2>8, <3>1 DEF UserStops
    <3> QED BY <2>1, <3>1, <3>2 DEF Contract!Next, Contract!Cancel, Contract!Inside, Seen
  <2>9. CASE UserRechecks
    <3>1. at # "running" /\ at' = at BY <2>2, <2>9 DEF UserRechecks, Ended
    <3> HIDE DEF at
    <3>2. Seen' = Contract!Verified(Seen, completed')
      BY <2>1, <2>3, <2>9, <3>1 DEF UserRechecks
    <3> QED BY <2>1, <2>9, <3>1, <3>2
        DEF UserRechecks, Contract!Next, Contract!Recheck, Contract!Inside, Seen
  <2> QED BY <1>2, <2>4, <2>5, <2>6, <2>7, <2>8, <2>9, StepCases
<1> QED BY <1>1, <1>2, ContractInvariant, PTL DEF Spec, ImplementsContract, Contract!Spec, Seen
===============================================================================
