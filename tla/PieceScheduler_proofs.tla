------------------------ MODULE PieceScheduler_proofs ------------------------
(***************************************************************************)
(* Every helper of PieceScheduler keeps the bookkeeping well-formed and      *)
(* every piece at one place.  One lemma per helper; DownloadManager_proofs   *)
(* composes them as the handlers compose the helpers.                        *)
(***************************************************************************)
EXTENDS PieceQueue, FiniteSetTheorems, SequenceTheorems, TLAPS

\* What every helper preserves on its own.
Placed(s) == s \in Scheduling /\ OnePlace(s) /\ LatePending(s)

\* What every handler preserves.
Sound(s) == Placed(s) /\ Tracked(s)

\* t differs from s in the requests in flight at most.
SamePlaces(s, t) ==
  /\ t.queue = s.queue /\ t.current = s.current /\ t.done = s.done
  /\ t.forgotten = s.forgotten

\* From s to t only peer k gets a piece.
OnlyGives(s, t, k) ==
  \A m \in Keys \ {k} : t.current[m] \in {s.current[m], NoPiece}

-------------------------------------------------------------------------------
\* Tracking depends on the places only.
LEMMA SamePlacesSound ==
  ASSUME NEW s, Sound(s), NEW t, Placed(t), SamePlaces(s, t)
  PROVE  Sound(t)
BY DEF Sound, Placed, SamePlaces, Tracked, Assigned, Forgotten

\* There are finitely many requests, so the counters count.
LEMMA RequestsFinite == IsFiniteSet(Requests)
<1>1. IsFiniteSet(Blocks)
  <2>1. NumBlocks \in Int BY BlocksAssumption
  <2> QED BY <2>1, FS_Interval DEF Blocks
<1> QED BY <1>1, PiecesAssumption, FS_Product DEF Requests

\* A counter that is lowered stays a counter.
LEMMA LoweredType ==
  ASSUME NEW s \in Scheduling, NEW R \in SUBSET Requests
  PROVE  Lowered(s, R) \in [Keys -> Nat]
<1> DEFINE dropped(k) == Cardinality(R \cap PendingOf(s, k))
<1>1. \A k \in Keys : dropped(k) \in Nat
  <2> TAKE k \in Keys
  <2>1. R \cap PendingOf(s, k) \subseteq Requests BY DEF PendingOf
  <2> QED BY <2>1, RequestsFinite, FS_Subset, FS_CardinalityType
<1>2. s.count \in [Keys -> Nat] BY DEF Scheduling
<1> HIDE DEF dropped
<1>3. [k \in Keys |-> IF dropped(k) >= s.count[k] THEN 0 ELSE s.count[k] - dropped(k)] \in [Keys -> Nat]
  BY <1>1, <1>2
<1> QED BY <1>3 DEF Lowered, dropped

\* Clearing requests changes neither the pieces nor the blocks (_clear_pending_request).
LEMMA DropSound ==
  ASSUME NEW s, Placed(s), NEW R \in SUBSET Requests
  PROVE  /\ Placed(DropPending(s, R))
         /\ SamePlaces(s, DropPending(s, R))
         /\ DropPending(s, R).blocks = s.blocks
<1> DEFINE t == DropPending(s, R)
<1>1. s \in Scheduling BY DEF Placed
<1>2. Lowered(s, R) \in [Keys -> Nat] BY <1>1, LoweredType
<1>3. t \in Scheduling BY <1>1, <1>2 DEF DropPending, Scheduling
<1>4. /\ t.queue = s.queue /\ t.current = s.current /\ t.done = s.done
      /\ t.forgotten = s.forgotten /\ t.blocks = s.blocks
      /\ t.late = s.late \ R
      /\ t.owner = [r \in Requests |-> IF r \in R THEN NoKey ELSE s.owner[r]]
  BY <1>1 DEF DropPending, Scheduling
<1> HIDE DEF t
<1>5. OnePlace(t)
  BY <1>4 DEF Placed, OnePlace, OneWorker, Assigned
<1>6. LatePending(t)
  BY <1>1, <1>4 DEF Placed, LatePending, Scheduling
<1>7. Placed(t) /\ SamePlaces(s, t) /\ t.blocks = s.blocks
  BY <1>3, <1>4, <1>5, <1>6 DEF Placed, SamePlaces
<1> QED BY <1>7 DEF t
\* A block is stored (PieceState.add_block).
LEMMA AddBlockSound ==
  ASSUME NEW s, Placed(s), NEW r \in Requests, NEW d \in Data
  PROVE  /\ Placed(AddBlock(s, r, d))
         /\ SamePlaces(s, AddBlock(s, r, d))
         /\ \A i \in Pieces \ {r[1]} : AddBlock(s, r, d).blocks[i] = s.blocks[i]
<1> DEFINE t == AddBlock(s, r, d)
           row == [s.blocks[r[1]] EXCEPT ![r[2]] = IF s.blocks[r[1]][r[2]] = "none"
                                                    THEN d ELSE s.blocks[r[1]][r[2]]]
<1>1. s \in Scheduling BY DEF Placed
<1>2. r[1] \in Pieces /\ r[2] \in Blocks BY DEF Requests
<1>3. t = [s EXCEPT !.blocks = [s.blocks EXCEPT ![r[1]] = row]]
  BY <1>1, <1>2 DEF AddBlock, Scheduling
<1>4. s.blocks \in [Pieces -> [Blocks -> Data]] BY <1>1 DEF Scheduling
<1>5. row \in [Blocks -> Data] BY <1>2, <1>4
<1> HIDE DEF row
<1>6. [s.blocks EXCEPT ![r[1]] = row] \in [Pieces -> [Blocks -> Data]] BY <1>2, <1>4, <1>5
<1> HIDE DEF t
<1>7. t \in Scheduling BY <1>1, <1>3, <1>6 DEF Scheduling
<1>8. /\ t.queue = s.queue /\ t.current = s.current /\ t.done = s.done /\ t.late = s.late
      /\ t.forgotten = s.forgotten /\ t.owner = s.owner
      /\ t.blocks = [s.blocks EXCEPT ![r[1]] = row]
  BY <1>1, <1>3 DEF Scheduling
<1>9. Placed(t)
  BY <1>7, <1>8 DEF Placed, OnePlace, OneWorker, Assigned, LatePending
<1>10. \A i \in Pieces \ {r[1]} : t.blocks[i] = s.blocks[i] BY <1>4, <1>8
<1> QED BY <1>8, <1>9, <1>10 DEF SamePlaces, t

\* A request is registered after its send (_send_block_request).
LEMMA RegisterSound ==
  ASSUME NEW s, Placed(s), NEW k \in Keys, NEW r \in Requests
  PROVE  /\ Placed(Register(s, k, r))
         /\ SamePlaces(s, Register(s, k, r))
         /\ Register(s, k, r).blocks = s.blocks
<1> DEFINE t == Register(s, k, r)
<1>1. s \in Scheduling BY DEF Placed
<1> DEFINE counts == [s.count EXCEPT ![k] = s.count[k] + 1]
           owners == [s.owner EXCEPT ![r] = k]
<1>a. counts \in [Keys -> Nat] /\ owners \in [Requests -> Keys \cup {NoKey}]
  BY <1>1 DEF Scheduling
<1>b. t = [s EXCEPT !.owner = owners, !.late = s.late \ {r}, !.count = counts]
  BY <1>1 DEF Register, Scheduling
<1> HIDE DEF counts
<1>2. t \in Scheduling
  <2> HIDE DEF owners, t
  <2> QED BY <1>1, <1>a, <1>b DEF Scheduling
<1>3. /\ t.queue = s.queue /\ t.current = s.current /\ t.done = s.done
      /\ t.forgotten = s.forgotten /\ t.blocks = s.blocks
      /\ t.late = s.late \ {r}
      /\ t.owner = [s.owner EXCEPT ![r] = k]
  BY <1>1 DEF Register, Scheduling
<1> HIDE DEF t
<1>4. OnePlace(t)
  BY <1>3 DEF Placed, OnePlace, OneWorker, Assigned
<1>5. LatePending(t)
  BY <1>1, <1>3 DEF Placed, LatePending, Scheduling
<1> QED BY <1>2, <1>3, <1>4, <1>5 DEF Placed, SamePlaces, t

\* A verified piece leaves the queue and every assignment (_write_piece).
LEMMA WritePieceSound ==
  ASSUME NEW s, Sound(s), NEW i \in Pieces
  PROVE  /\ Sound(WritePiece(s, i))
         /\ WritePiece(s, i).done = s.done \cup {i}
         /\ WritePiece(s, i).blocks = s.blocks
         /\ \A k \in Keys : WritePiece(s, i).current[k] \in {s.current[k], NoPiece}
<1> DEFINE t == WritePiece(s, i)
<1>1. s \in Scheduling /\ OnePlace(s) /\ Tracked(s) /\ LatePending(s) BY DEF Sound, Placed
<1>2. t \in Scheduling BY <1>1 DEF WritePiece, Scheduling
<1>3. /\ t.queue = s.queue \ {i} /\ t.done = s.done \cup {i}
      /\ t.current = [k \in Keys |-> IF s.current[k] = i THEN NoPiece ELSE s.current[k]]
      /\ t.forgotten = s.forgotten /\ t.blocks = s.blocks
      /\ t.late = s.late /\ t.owner = s.owner
  BY <1>1 DEF WritePiece, Scheduling
<1> HIDE DEF t
<1>4. OneWorker(t) BY <1>1, <1>3 DEF OnePlace, OneWorker
<1>5. Assigned(t) = Assigned(s) \ {i} BY <1>3, PiecesAssumption DEF Assigned
<1>6. OnePlace(t) BY <1>1, <1>3, <1>4, <1>5 DEF OnePlace
<1>7. Tracked(t) BY <1>1, <1>3, <1>5 DEF Tracked, Forgotten
<1>8. LatePending(t) BY <1>1, <1>3 DEF LatePending
<1> QED BY <1>2, <1>3, <1>6, <1>7, <1>8 DEF Sound, Placed, t
-------------------------------------------------------------------------------
(* Giving a piece back *)

\* A peer without its piece: the piece is nowhere, everything else is where it was.
LEMMA FreedPlaced ==
  ASSUME NEW s, Placed(s), NEW k \in Keys,
         NEW t, t = Freed(s, k)
  PROVE  /\ Placed(t)
         /\ Assigned(t) = Assigned(s) \ {s.current[k]}
         /\ t.queue = s.queue /\ t.done = s.done /\ t.forgotten = s.forgotten
         /\ t.blocks = s.blocks /\ t.owner = s.owner
         /\ t.current = [s.current EXCEPT ![k] = NoPiece]
<1>1. s \in Scheduling /\ OnePlace(s) /\ LatePending(s) BY DEF Placed
<1>2. [s.current EXCEPT ![k] = NoPiece] \in [Keys -> Pieces \cup {NoPiece}]
  BY <1>1 DEF Scheduling
<1>3. t = [s EXCEPT !.current = [s.current EXCEPT ![k] = NoPiece]] BY <1>1 DEF Scheduling, Freed
<1>4. t \in Scheduling BY <1>1, <1>2, <1>3 DEF Scheduling
<1>5. /\ t.queue = s.queue /\ t.done = s.done /\ t.forgotten = s.forgotten /\ t.late = s.late
      /\ t.blocks = s.blocks /\ t.owner = s.owner
      /\ t.current = [s.current EXCEPT ![k] = NoPiece]
  BY <1>1, <1>3 DEF Scheduling
<1>6. s.current \in [Keys -> Pieces \cup {NoPiece}] BY <1>1 DEF Scheduling
<1>7. OneWorker(t) BY <1>1, <1>5, <1>6 DEF OnePlace, OneWorker
<1>8. Assigned(t) = Assigned(s) \ {s.current[k]}
  BY <1>1, <1>5, <1>6, PiecesAssumption DEF OnePlace, OneWorker, Assigned
<1>9. OnePlace(t) BY <1>1, <1>5, <1>7, <1>8 DEF OnePlace
<1>10. LatePending(t) BY <1>1, <1>5 DEF LatePending
<1> QED BY <1>4, <1>5, <1>8, <1>9, <1>10 DEF Placed

\* _queue_piece puts a piece that is nowhere into the queue.
LEMMA QueuePlaced ==
  ASSUME NEW s, Placed(s), NEW i \in Pieces,
         NEW t, t = QueuePiece(s, i)
  PROVE  /\ Placed(t)
         /\ t.queue \cup t.done \cup Assigned(t) = s.queue \cup s.done \cup Assigned(s) \cup {i}
         /\ t.current = s.current /\ t.done = s.done /\ t.forgotten = s.forgotten
         /\ t.blocks = s.blocks /\ t.owner = s.owner
<1>1. s \in Scheduling /\ OnePlace(s) /\ LatePending(s) BY DEF Placed
<1>2. CASE i \in s.done \cup Assigned(s)
  <2>1. t = s BY <1>2 DEF QueuePiece
  <2> QED BY <1>1, <1>2, <2>1 DEF Placed
<1>3. CASE i \notin s.done \cup Assigned(s)
  <2>1. t = [s EXCEPT !.queue = s.queue \cup {i}] BY <1>3 DEF QueuePiece
  <2> DEFINE longer == s.queue \cup {i}
  <2>a. longer \in SUBSET Pieces BY <1>1 DEF Scheduling
  <2>b. t = [s EXCEPT !.queue = longer] BY <2>1
  <2>2. t \in Scheduling
    <3> HIDE DEF longer
    <3> QED BY <1>1, <2>a, <2>b DEF Scheduling
  <2>3. /\ t.queue = s.queue \cup {i} /\ t.done = s.done /\ t.forgotten = s.forgotten
        /\ t.late = s.late /\ t.blocks = s.blocks /\ t.owner = s.owner
        /\ t.current = s.current
    BY <1>1, <2>1 DEF Scheduling
  <2>4. Assigned(t) = Assigned(s) BY <2>3 DEF Assigned
  <2>5. OnePlace(t) BY <1>1, <1>3, <2>3, <2>4 DEF OnePlace, OneWorker
  <2>6. LatePending(t) BY <1>1, <2>3 DEF LatePending
  <2> QED BY <2>2, <2>3, <2>4, <2>5, <2>6 DEF Placed
<1> QED BY <1>2, <1>3

\* What a disconnected peer worked on is queued again (_handle_peer_disconnect).
LEMMA DisconnectedSound ==
  ASSUME NEW s, Sound(s), NEW k \in Keys,
         NEW t, t = Disconnected(s, k)
  PROVE  /\ Sound(t)
         /\ t.done = s.done /\ t.blocks = s.blocks
         /\ t.current = [s.current EXCEPT ![k] = NoPiece]
<1> DEFINE f == Freed(s, k)
           u == Release(s, k, TRUE)
           v == DropPending(u, PendingOf(s, k))
<1>0. f = Freed(s, k) /\ u = Release(s, k, TRUE) OBVIOUS
<1> HIDE DEF f, u
<1>1. Placed(s) /\ Tracked(s) BY DEF Sound
<1>2. s \in Scheduling BY <1>1 DEF Placed
<1>3. /\ Placed(f) /\ Assigned(f) = Assigned(s) \ {s.current[k]}
      /\ f.queue = s.queue /\ f.done = s.done /\ f.forgotten = s.forgotten
      /\ f.blocks = s.blocks /\ f.current = [s.current EXCEPT ![k] = NoPiece]
  BY <1>0, <1>1, FreedPlaced
<1>4. /\ Placed(u) /\ Tracked(u) /\ u.done = s.done /\ u.blocks = s.blocks
      /\ u.current = [s.current EXCEPT ![k] = NoPiece]
  <2>1. CASE s.current[k] = NoPiece
    <3>1. u = f BY <1>0, <2>1 DEF Release
    <3>2. Assigned(f) = Assigned(s) BY <1>3, <2>1, PiecesAssumption DEF Assigned
    <3> QED BY <1>1, <1>3, <3>1, <3>2 DEF Tracked, Forgotten
  <2>2. CASE s.current[k] # NoPiece
    <3>1. u = QueuePiece(f, s.current[k]) BY <1>0, <2>2 DEF Release
    <3>2. s.current[k] \in Pieces BY <1>2, <2>2 DEF Scheduling
    <3>3. /\ Placed(u)
          /\ u.queue \cup u.done \cup Assigned(u)
               = f.queue \cup f.done \cup Assigned(f) \cup {s.current[k]}
          /\ u.current = f.current /\ u.done = f.done /\ u.forgotten = f.forgotten
          /\ u.blocks = f.blocks
      BY <1>3, <3>1, <3>2, QueuePlaced
    <3>4. Tracked(u)
      <4>1. Pieces = s.done \cup s.queue \cup Assigned(s) \cup Forgotten(s) BY <1>1 DEF Tracked
      <4>2. Pieces = f.queue \cup f.done \cup Assigned(f) \cup {s.current[k]} \cup Forgotten(s)
        BY <1>3, <3>2, <4>1
      <4> QED BY <1>3, <3>3, <4>2 DEF Tracked, Forgotten
    <3> QED BY <1>3, <3>3, <3>4
  <2> QED BY <2>1, <2>2
<1>5. PendingOf(s, k) \in SUBSET Requests BY DEF PendingOf
<1>6. Placed(v) /\ SamePlaces(u, v) /\ v.blocks = u.blocks BY <1>4, <1>5, DropSound
<1>7. t = [v EXCEPT !.count[k] = 0] BY DEF Disconnected, u, v
<1> HIDE DEF v
<1>8. v \in Scheduling BY <1>6 DEF Placed
<1>9. [v.count EXCEPT ![k] = 0] \in [Keys -> Nat] BY <1>8 DEF Scheduling
<1>10. t = [v EXCEPT !.count = [v.count EXCEPT ![k] = 0]] BY <1>7, <1>8 DEF Scheduling
<1>11. t \in Scheduling BY <1>8, <1>9, <1>10 DEF Scheduling
<1>12. /\ SamePlaces(v, t) /\ t.blocks = v.blocks /\ t.owner = v.owner /\ t.late = v.late
  BY <1>8, <1>10 DEF Scheduling, SamePlaces
<1>13. Placed(t)
  BY <1>6, <1>11, <1>12 DEF Placed, SamePlaces, OnePlace, OneWorker, Assigned, LatePending
<1>14. Sound(v) BY <1>4, <1>6, SamePlacesSound DEF Sound
<1>15. Sound(t) BY <1>12, <1>13, <1>14, SamePlacesSound
<1> QED BY <1>4, <1>6, <1>12, <1>15 DEF SamePlaces
\* A corrupt piece is emptied and queued again, and what its sender worked on is tracked
\* as forgotten when it is another piece (_handle_piece_hash_failure).
LEMMA HashFailureSound ==
  ASSUME NEW s, Sound(s), NEW k \in Keys, NEW i \in Pieces,
         NEW t, t = HashFailure(s, k, i)
  PROVE  /\ Sound(t)
         /\ t.done = s.done
         /\ t.blocks = [s.blocks EXCEPT ![i] = [b \in Blocks |-> "none"]]
         /\ t.current = [s.current EXCEPT ![k] = NoPiece]
<1> DEFINE R == {i} \X Blocks
           c == DropPending(s, R)
           e == [c EXCEPT !.blocks[i] = [b \in Blocks |-> "none"]]
           f == Freed(e, k)
           q == QueuePiece(f, i)
           empty == [b \in Blocks |-> "none"]
           lost == {s.current[k]} \ {NoPiece, i}
<1>0. c = DropPending(s, R) /\ f = Freed(e, k) /\ q = QueuePiece(f, i) OBVIOUS
<1>1. t = [q EXCEPT !.count[k] = 0, !.forgotten[k] = q.forgotten[k] \cup lost]
  BY DEF HashFailure, Release
<1>2. R \in SUBSET Requests BY DEF Requests
<1>3. e = [c EXCEPT !.blocks[i] = empty] OBVIOUS
<1>4. empty \in [Blocks -> Data] BY DEF Data
<1> HIDE DEF R, c, e, f, q, empty
<1>5. Placed(s) /\ Tracked(s) BY DEF Sound
<1>6. Placed(c) /\ SamePlaces(s, c) /\ c.blocks = s.blocks BY <1>0, <1>2, <1>5, DropSound
<1>7. c \in Scheduling /\ OnePlace(c) /\ LatePending(c) BY <1>6 DEF Placed
<1>8. [c.blocks EXCEPT ![i] = empty] \in [Pieces -> [Blocks -> Data]] BY <1>4, <1>7 DEF Scheduling
<1>9. e = [c EXCEPT !.blocks = [c.blocks EXCEPT ![i] = empty]] BY <1>3, <1>7 DEF Scheduling
<1>10. e \in Scheduling BY <1>7, <1>8, <1>9 DEF Scheduling
<1>11. /\ SamePlaces(c, e) /\ e.owner = c.owner /\ e.late = c.late
       /\ e.blocks = [c.blocks EXCEPT ![i] = empty]
  BY <1>7, <1>9 DEF Scheduling, SamePlaces
<1>12. Placed(e)
  BY <1>7, <1>10, <1>11 DEF Placed, SamePlaces, OnePlace, OneWorker, Assigned, LatePending
<1>13. /\ Placed(f) /\ Assigned(f) = Assigned(e) \ {e.current[k]}
       /\ f.queue = e.queue /\ f.done = e.done /\ f.forgotten = e.forgotten
       /\ f.blocks = e.blocks /\ f.current = [e.current EXCEPT ![k] = NoPiece]
  BY <1>0, <1>12, FreedPlaced
<1>14. /\ Placed(q)
       /\ q.queue \cup q.done \cup Assigned(q) = f.queue \cup f.done \cup Assigned(f) \cup {i}
       /\ q.current = f.current /\ q.done = f.done /\ q.blocks = f.blocks
       /\ q.forgotten = f.forgotten
  BY <1>0, <1>13, QueuePlaced
<1>15. q \in Scheduling /\ OnePlace(q) /\ LatePending(q) BY <1>14 DEF Placed
<1>16. /\ s.current[k] \in Pieces \cup {NoPiece} /\ s.forgotten \in [Keys -> SUBSET Pieces]
       /\ q.forgotten = s.forgotten
  BY <1>5, <1>6, <1>11, <1>13, <1>14 DEF Placed, Scheduling, SamePlaces
<1> DEFINE forgets == [s.forgotten EXCEPT ![k] = s.forgotten[k] \cup lost]
<1>17. forgets \in [Keys -> SUBSET Pieces] BY <1>16
<1>18. [q.count EXCEPT ![k] = 0] \in [Keys -> Nat] BY <1>15 DEF Scheduling
<1>19. t = [q EXCEPT !.count = [q.count EXCEPT ![k] = 0], !.forgotten = forgets]
  BY <1>1, <1>15, <1>16 DEF Scheduling
<1>20. lost = {s.current[k]} \ {NoPiece, i} OBVIOUS
<1>g. \A j \in Pieces : j \in forgets[k] <=> j \in s.forgotten[k] \/ j \in lost
  BY <1>16
<1>h. \A m \in Keys \ {k} : forgets[m] = s.forgotten[m] BY <1>16
<1> HIDE DEF lost, forgets
<1>21. t \in Scheduling BY <1>15, <1>17, <1>18, <1>19 DEF Scheduling
<1>22. /\ t.queue = q.queue /\ t.current = q.current /\ t.done = q.done /\ t.owner = q.owner
       /\ t.late = q.late /\ t.blocks = q.blocks /\ t.forgotten = forgets
  BY <1>15, <1>19 DEF Scheduling
<1>23. Assigned(t) = Assigned(q) BY <1>22 DEF Assigned
<1>24. Placed(t)
  BY <1>15, <1>21, <1>22, <1>23 DEF Placed, OnePlace, OneWorker, LatePending
<1>25. Tracked(t)
  <2>1. Pieces = s.done \cup s.queue \cup Assigned(s) \cup Forgotten(s) BY <1>5 DEF Tracked
  <2>2. Assigned(e) = Assigned(s) /\ e.current = s.current /\ e.queue = s.queue /\ e.done = s.done
    BY <1>6, <1>11 DEF SamePlaces, Assigned
  <2>3. t.queue \cup t.done \cup Assigned(t)
          = s.queue \cup s.done \cup (Assigned(s) \ {s.current[k]}) \cup {i}
    BY <1>13, <1>14, <1>22, <1>23, <2>2
  <2>4. NoPiece \notin Pieces BY PiecesAssumption
  <2>5. t.queue \subseteq Pieces /\ t.done \subseteq Pieces BY <1>21 DEF Scheduling
  <2>7. Forgotten(t) = Forgotten(s) \cup (lost \cap Pieces)
    BY <1>22, <1>g, <1>h DEF Forgotten
  <2>6. Assigned(t) \subseteq Pieces BY DEF Assigned
  <2> QED BY <1>20, <2>1, <2>3, <2>4, <2>5, <2>6, <2>7 DEF Tracked
<1>26. t.done = s.done /\ t.current = [s.current EXCEPT ![k] = NoPiece]
  BY <1>6, <1>11, <1>13, <1>14, <1>22 DEF SamePlaces
<1>27. t.blocks = [s.blocks EXCEPT ![i] = empty] BY <1>6, <1>11, <1>13, <1>14, <1>22
<1> QED BY <1>24, <1>25, <1>26, <1>27 DEF Sound, empty
-------------------------------------------------------------------------------
(* Handing out a piece *)

\* A queued piece that nobody has goes to a peer that has none (_pop_next_piece_for_peer).
LEMMA TakesSound ==
  ASSUME NEW s, Sound(s), NEW k \in Keys, s.current[k] = NoPiece,
         NEW i \in s.queue, i \notin s.done, \A j \in Keys \ {k} : s.current[j] # i,
         NEW t, t = Takes(s, k, i)
  PROVE  /\ Sound(t)
         /\ t.done = s.done /\ t.blocks = s.blocks
         /\ t.current = [s.current EXCEPT ![k] = i]
<1>1. s \in Scheduling /\ OnePlace(s) /\ Tracked(s) /\ LatePending(s) BY DEF Sound, Placed
<1>2. i \in Pieces BY <1>1 DEF Scheduling
<1>3. [s.current EXCEPT ![k] = i] \in [Keys -> Pieces \cup {NoPiece}] BY <1>1, <1>2 DEF Scheduling
<1>4. t = [s EXCEPT !.queue = s.queue \ {i}, !.current = [s.current EXCEPT ![k] = i]]
  BY <1>1 DEF Takes, Scheduling
<1>5. t \in Scheduling BY <1>1, <1>3, <1>4 DEF Scheduling
<1>6. /\ t.queue = s.queue \ {i} /\ t.current = [s.current EXCEPT ![k] = i] /\ t.done = s.done
      /\ t.forgotten = s.forgotten /\ t.blocks = s.blocks /\ t.owner = s.owner /\ t.late = s.late
  BY <1>1, <1>4 DEF Scheduling
<1>7. s.current \in [Keys -> Pieces \cup {NoPiece}] BY <1>1 DEF Scheduling
<1>8. OneWorker(t) BY <1>1, <1>6, <1>7 DEF OnePlace, OneWorker
<1>9. Assigned(t) = Assigned(s) \cup {i}
  BY <1>2, <1>6, <1>7, PiecesAssumption DEF Assigned
<1>10. OnePlace(t) BY <1>1, <1>6, <1>8, <1>9 DEF OnePlace
<1>11. Tracked(t) BY <1>1, <1>2, <1>6, <1>9 DEF Tracked, Forgotten, Scheduling
<1>12. LatePending(t) BY <1>1, <1>6 DEF LatePending
<1> QED BY <1>5, <1>6, <1>10, <1>11, <1>12 DEF Sound, Placed

\* Whatever _request_next_block chooses, only the peer it is called for gets a piece, and
\* the request is for a block of the torrent.
LEMMA NextRequestSound ==
  ASSUME NEW s, Sound(s), NEW k \in Keys, NEW has, NEW o \in NextRequest(s, k, has)
  PROVE  /\ Sound(o.s)
         /\ o.s.done = s.done /\ o.s.blocks = s.blocks
         /\ OnlyGives(s, o.s, k)
         /\ o.req \in Requests \cup {NoReq}
<1>1. s \in Scheduling /\ OnePlace(s) /\ Tracked(s) /\ LatePending(s) BY DEF Sound, Placed
<1>2. s.current \in [Keys -> Pieces \cup {NoPiece}] BY <1>1 DEF Scheduling
<1>3. CASE s.current[k] # NoPiece /\ s.current[k] \notin s.done
  <2>1. s.current[k] \in Pieces BY <1>2, <1>3
  <2>2. o \in Continues(s, k) BY <1>3 DEF NextRequest
  <2>3. o.s = s /\ o.req \in Requests \cup {NoReq}
    <3> DEFINE i == s.current[k]
    <3>1. NextMissing(s, i) \subseteq Blocks BY DEF NextMissing, Missing
    <3>2. CASE s.count[k] < MaxPipelined /\ Missing(s, i) # {}
      <4>1. PICK b \in NextMissing(s, i) : o = Outcome(s, <<i, b>>) BY <2>2, <3>2 DEF Continues
      <4>2. <<i, b>> \in Requests BY <2>1, <3>1, <4>1 DEF Requests
      <4> QED BY <4>1, <4>2 DEF Outcome
    <3>3. CASE ~(s.count[k] < MaxPipelined /\ Missing(s, i) # {})
      BY <2>2, <3>3 DEF Continues, Outcome
    <3> QED BY <3>2, <3>3
  <2> QED BY <2>3 DEF OnlyGives
<1>4. CASE ~(s.current[k] # NoPiece /\ s.current[k] \notin s.done)
  <2> DEFINE f == Freed(s, k)
  <2>0. f = Freed(s, k) OBVIOUS
  <2>1. o \in Starts(f, k, has) BY <1>4 DEF NextRequest, Release
  <2> HIDE DEF f
  <2>2. s.current[k] = NoPiece BY <1>1, <1>2, <1>4 DEF OnePlace, Assigned
  <2>3. /\ Placed(f) /\ Assigned(f) = Assigned(s) \ {s.current[k]}
        /\ f.queue = s.queue /\ f.done = s.done /\ f.forgotten = s.forgotten
        /\ f.blocks = s.blocks /\ f.current = [s.current EXCEPT ![k] = NoPiece]
    BY <2>0, FreedPlaced DEF Sound
  <2>4. f.current = s.current BY <1>2, <2>2, <2>3
  <2>5. Sound(f) BY <2>3, <2>4, SamePlacesSound DEF SamePlaces
  <2>6. f \in Scheduling /\ OnePlace(f) /\ f.current[k] = NoPiece
    BY <2>2, <2>4, <2>5 DEF Sound, Placed
  <2>7. CASE Eligible(f, k, has) = {}
    <3> DEFINE g == [f EXCEPT !.queue = f.queue \ f.done]
    <3>1. o.s = g /\ o.req = NoReq BY <2>1, <2>7 DEF Starts, Outcome
    <3>2. f.queue \ f.done = f.queue BY <2>6 DEF OnePlace
    <3>3. g = f BY <2>6, <3>2 DEF Scheduling
    <3> QED BY <2>3, <2>4, <2>5, <3>1, <3>3 DEF OnlyGives
  <2>8. CASE Eligible(f, k, has) # {}
    <3>1. PICK r \in Requests : r[1] \in Eligible(f, k, has) /\ o = Outcome(Takes(f, k, r[1]), r)
      BY <2>1, <2>8 DEF Starts
    <3>2. /\ r[1] \in f.queue /\ r[1] \notin f.done
          /\ \A j \in Keys \ {k} : f.current[j] # r[1]
      BY <3>1 DEF Eligible, Suitable
    <3>3. o.s = Takes(f, k, r[1]) /\ o.req = r BY <3>1 DEF Outcome
    <3>4. /\ Sound(o.s) /\ o.s.done = f.done /\ o.s.blocks = f.blocks
          /\ o.s.current = [f.current EXCEPT ![k] = r[1]]
      BY <2>5, <2>6, <3>2, <3>3, TakesSound
    <3>5. OnlyGives(s, o.s, k) BY <1>2, <2>4, <3>4 DEF OnlyGives
    <3> QED BY <2>3, <3>3, <3>4, <3>5
  <2> QED BY <2>7, <2>8
<1> QED BY <1>3, <1>4

\* A recheck puts every piece at its place.
LEMMA RecheckedSound ==
  ASSUME NEW ok \in SUBSET Pieces
  PROVE  LET t == Rechecked(ok) IN
         Sound(t) /\ DoneVerified(t) /\ t.done = ok /\ t.current = [k \in Keys |-> NoPiece]
<1> DEFINE t == Rechecked(ok)
<1>1. /\ t.queue = Pieces \ ok /\ t.current = [k \in Keys |-> NoPiece] /\ t.done = ok
      /\ t.forgotten = [k \in Keys |-> {}] /\ t.late = {}
      /\ t.blocks = [i \in Pieces |-> [b \in Blocks |-> IF i \in ok THEN "good" ELSE "none"]]
  BY DEF Rechecked
<1>2. t \in Scheduling BY DEF Rechecked, Scheduling, Data
<1> HIDE DEF t
<1>3. Assigned(t) = {} BY <1>1, PiecesAssumption DEF Assigned
<1>4. OnePlace(t) /\ Tracked(t) /\ LatePending(t)
  BY <1>1, <1>3 DEF OnePlace, OneWorker, Tracked, Forgotten, LatePending
<1>5. 1 \in Blocks BY BlocksAssumption DEF Blocks
<1>6. DoneVerified(t) BY <1>1, <1>5 DEF DoneVerified, Verifies
<1> QED BY <1>1, <1>2, <1>4, <1>6 DEF Sound, Placed, t

-------------------------------------------------------------------------------
(* The queue as a list (PieceQueue) *)

\* Every set of numbers that is not empty has a least element: an induction over a list is a
\* look at the first place where it goes wrong.
LEMMA LeastPlace ==
  ASSUME NEW T \in SUBSET Nat, T # {}
  PROVE  \E x \in T : \A y \in T : x <= y
<1> DEFINE Below == {0..y : y \in T}
<1>1. Below \subseteq FiniteSubsetsOf(Nat)
  <2>1. \A y \in T : IsFiniteSet(0..y) BY FS_Interval
  <2> QED BY <2>1 DEF FiniteSubsetsOf
<1>2. PICK b \in Below : \A c \in Below : <<c, b>> \notin StrictSubsetOrdering(Nat)
  <2>1. Below # {} OBVIOUS
  <2> HIDE DEF Below
  <2> QED BY <1>1, <2>1, FS_StrictSubsetOrderingWellFounded, WFMin
<1>3. PICK x \in T : b = 0..x OBVIOUS
<1>4. ASSUME NEW y \in T, y < x
      PROVE  FALSE
  <2>1. <<0..y, 0..x>> \in StrictSubsetOrdering(Nat) BY <1>4 DEF StrictSubsetOrdering
  <2> QED BY <2>1, <1>2, <1>3
<1> QED BY <1>4

\* f is what a pass does with the first n pieces of q.
FirstPasses(f, q, drop, pick, n) ==
  f = [k \in 0..n |-> IF k = 0 THEN PassStart ELSE PassStep(f[k - 1], q[k], drop, pick)]

LEMMA FirstPassesExist ==
  ASSUME NEW q, NEW drop, NEW pick, NEW n \in Nat
  PROVE  \E f : FirstPasses(f, q, drop, pick, n)
<1> DEFINE T == {k \in Nat : ~ \E f : FirstPasses(f, q, drop, pick, k)}
<1> SUFFICES ASSUME T # {} PROVE FALSE OBVIOUS
<1>1. PICK k \in T : \A j \in T : k <= j
  <2>1. T \in SUBSET Nat OBVIOUS
  <2> HIDE DEF T
  <2> QED BY <2>1, LeastPlace
<1>2. k # 0
  <2>1. FirstPasses([j \in 0..0 |-> PassStart], q, drop, pick, 0) BY DEF FirstPasses
  <2> QED BY <2>1
<1>3. PICK g : FirstPasses(g, q, drop, pick, k - 1) BY <1>1, <1>2
<1> DEFINE f == [j \in 0..k |-> IF j < k THEN g[j] ELSE PassStep(g[k - 1], q[k], drop, pick)]
<1>4. FirstPasses(f, q, drop, pick, k)
  <2>1. ASSUME NEW j \in 0..k
        PROVE  f[j] = IF j = 0 THEN PassStart ELSE PassStep(f[j - 1], q[j], drop, pick)
    <3>1. CASE j < k
      <4>1. g[j] = IF j = 0 THEN PassStart ELSE PassStep(g[j - 1], q[j], drop, pick)
        BY <1>3, <3>1 DEF FirstPasses
      <4>2. j # 0 => j - 1 \in 0..k /\ j - 1 < k OBVIOUS
      <4> QED BY <3>1, <4>1, <4>2
    <3>2. CASE j = k
      BY <1>2, <3>2
    <3> QED BY <3>1, <3>2
  <2> HIDE DEF f
  <2>2. f = [j \in 0..k |-> f[j]] BY DEF f
  <2> QED BY <2>1, <2>2 DEF FirstPasses
<1> QED BY <1>1, <1>4

LEMMA FirstPassesAgree ==
  ASSUME NEW q, NEW drop, NEW pick, NEW n \in Nat, NEW m \in Nat, NEW f, NEW g,
         FirstPasses(f, q, drop, pick, n), FirstPasses(g, q, drop, pick, m),
         NEW i \in 0..n, i <= m
  PROVE  f[i] = g[i]
<1> DEFINE T == {k \in 0..i : f[k] # g[k]}
<1> SUFFICES ASSUME T # {} PROVE FALSE OBVIOUS
<1>1. PICK k \in T : \A j \in T : k <= j
  <2>1. T \in SUBSET Nat OBVIOUS
  <2> HIDE DEF T
  <2> QED BY <2>1, LeastPlace
<1>2. /\ f[k] = IF k = 0 THEN PassStart ELSE PassStep(f[k - 1], q[k], drop, pick)
      /\ g[k] = IF k = 0 THEN PassStart ELSE PassStep(g[k - 1], q[k], drop, pick)
  BY DEF FirstPasses
<1>3. k # 0 BY <1>2
<1>4. k - 1 \notin T /\ k - 1 \in 0..i BY <1>1, <1>3
<1> QED BY <1>2, <1>3, <1>4

\* Passing is the function that its definition describes.
LEMMA PassingSteps ==
  ASSUME NEW q, NEW drop, NEW pick
  PROVE  /\ Passing(q, drop, pick)[0] = PassStart
         /\ \A n \in Nat : Passing(q, drop, pick)[n + 1]
                             = PassStep(Passing(q, drop, pick)[n], q[n + 1], drop, pick)
<1> DEFINE Steps(f) ==
             f = [n \in Nat |-> IF n = 0 THEN PassStart ELSE PassStep(f[n - 1], q[n], drop, pick)]
           upto(n) == CHOOSE f : FirstPasses(f, q, drop, pick, n)
           all == [n \in Nat |-> upto(n)[n]]
           P == Passing(q, drop, pick)
<1>1. \A n \in Nat : FirstPasses(upto(n), q, drop, pick, n) BY FirstPassesExist
<1> HIDE DEF upto
<1>2. ASSUME NEW n \in Nat
      PROVE  all[n] = IF n = 0 THEN PassStart ELSE PassStep(all[n - 1], q[n], drop, pick)
  <2>1. upto(n)[n] = IF n = 0 THEN PassStart ELSE PassStep(upto(n)[n - 1], q[n], drop, pick)
    BY <1>1 DEF FirstPasses
  <2>2. n # 0 => upto(n)[n - 1] = upto(n - 1)[n - 1]
    <3>1. ASSUME n # 0
          PROVE  n - 1 \in Nat /\ n - 1 \in 0..n /\ n - 1 <= n - 1
      BY <3>1
    <3> QED BY <1>1, <3>1, FirstPassesAgree
  <2>3. n # 0 => n - 1 \in Nat OBVIOUS
  <2> QED BY <2>1, <2>2, <2>3
<1>3. Steps(all)
  <2> HIDE DEF all
  <2>1. all = [n \in Nat |-> all[n]] BY DEF all
  <2> QED BY <1>2, <2>1
<1>4. Steps(CHOOSE f : Steps(f)) BY <1>3, Zenon
<1>5. P = CHOOSE f : Steps(f) BY Zenon DEF Passing
<1> HIDE DEF P
<1>6. \A n \in Nat : P[n] = IF n = 0 THEN PassStart ELSE PassStep(P[n - 1], q[n], drop, pick)
  BY <1>4, <1>5
<1>7. \A n \in Nat : n + 1 \in Nat /\ n + 1 # 0 /\ (n + 1) - 1 = n OBVIOUS
<1>8. P[0] = PassStart /\ \A n \in Nat : P[n + 1] = PassStep(P[n], q[n + 1], drop, pick)
  BY <1>6, <1>7
<1> QED BY <1>8 DEF P

\* Something new at the end of a list.
LEMMA OrderedAppend ==
  ASSUME NEW S, NEW q, Ordered(q, S), NEW i, i \notin S
  PROVE  Ordered(Append(q, i), S \cup {i})
<1> DEFINE r == Append(q, i)
           U == S \cup {i}
<1>1. q \in Seq(U) /\ IsInjective(q) /\ Range(q) = S BY DEF Ordered
<1>2. /\ r \in Seq(U) /\ Len(r) = Len(q) + 1 /\ Len(q) \in Nat
      /\ \A n \in 1..Len(q) : r[n] = q[n]
      /\ r[Len(q) + 1] = i
      /\ DOMAIN r = 1..(Len(q) + 1) /\ DOMAIN q = 1..Len(q)
  BY <1>1
<1> HIDE DEF r
<1>3. \A n \in 1..Len(q) : q[n] \in S BY <1>1, <1>2 DEF Range
<1>4. IsInjective(r)
  <2>1. ASSUME NEW a \in 1..(Len(q) + 1), NEW b \in 1..(Len(q) + 1), r[a] = r[b]
        PROVE  a = b
    <3>1. a \in 1..Len(q) \/ a = Len(q) + 1 BY <1>2
    <3>2. b \in 1..Len(q) \/ b = Len(q) + 1 BY <1>2
    <3>3. CASE a \in 1..Len(q) /\ b \in 1..Len(q)
      BY <1>1, <1>2, <2>1, <3>3 DEF IsInjective
    <3>4. CASE a = Len(q) + 1 \/ b = Len(q) + 1
      BY <1>2, <1>3, <2>1, <3>1, <3>2, <3>4
    <3> QED BY <3>1, <3>2, <3>3, <3>4
  <2> QED BY <1>2, <2>1 DEF IsInjective
<1>5. Range(r) = U
  <2>1. \A n \in 1..(Len(q) + 1) : r[n] \in U
    BY <1>2, <1>3
  <2>2. \A x \in S : \E n \in 1..Len(q) : r[n] = x
    BY <1>1, <1>2 DEF Range
  <2>3. \A n \in 1..Len(q) : n \in 1..(Len(q) + 1) BY <1>2
  <2>4. \A x \in U : \E n \in 1..(Len(q) + 1) : r[n] = x
    BY <1>2, <2>2, <2>3
  <2> QED BY <1>2, <2>1, <2>4 DEF Range
<1> QED BY <1>2, <1>4, <1>5 DEF Ordered, r

\* One list after another one that has nothing in common with it.
LEMMA OrderedConcat ==
  ASSUME NEW S, NEW T, NEW q, NEW r, Ordered(q, S), Ordered(r, T), S \cap T = {}
  PROVE  Ordered(q \o r, S \cup T)
<1> DEFINE c == q \o r
           U == S \cup T
<1>1. q \in Seq(U) /\ r \in Seq(U) /\ IsInjective(q) /\ IsInjective(r) /\ Range(q) = S /\ Range(r) = T
  BY DEF Ordered
<1>2. Range(c) = U BY <1>1, RangeConcatenation
<1>3. /\ c \in Seq(U) /\ Len(c) = Len(q) + Len(r) /\ Len(q) \in Nat /\ Len(r) \in Nat
      /\ \A n \in 1..Len(q) : c[n] = q[n]
      /\ \A n \in 1..Len(r) : c[Len(q) + n] = r[n]
      /\ DOMAIN c = 1..(Len(q) + Len(r)) /\ DOMAIN q = 1..Len(q) /\ DOMAIN r = 1..Len(r)
  BY <1>1
<1> HIDE DEF c
<1>4. \A n \in 1..Len(q) : c[n] \in S BY <1>1, <1>3 DEF Range
<1>5. \A n \in (Len(q) + 1)..(Len(q) + Len(r)) :
        n - Len(q) \in 1..Len(r) /\ c[n] = r[n - Len(q)] /\ c[n] \in T
  <2> TAKE n \in (Len(q) + 1)..(Len(q) + Len(r))
  <2>1. n - Len(q) \in 1..Len(r) /\ Len(q) + (n - Len(q)) = n BY <1>3
  <2>2. c[n] = r[n - Len(q)] BY <1>3, <2>1
  <2> QED BY <1>1, <1>3, <2>1, <2>2 DEF Range
<1>6. ASSUME NEW a \in 1..(Len(q) + Len(r)), NEW b \in 1..(Len(q) + Len(r)), c[a] = c[b]
      PROVE  a = b
  <2>1. a \in 1..Len(q) \/ a \in (Len(q) + 1)..(Len(q) + Len(r)) BY <1>3
  <2>2. b \in 1..Len(q) \/ b \in (Len(q) + 1)..(Len(q) + Len(r)) BY <1>3
  <2>3. CASE a \in 1..Len(q) /\ b \in 1..Len(q)
    BY <1>1, <1>3, <1>6, <2>3 DEF IsInjective
  <2>4. CASE a \in (Len(q) + 1)..(Len(q) + Len(r)) /\ b \in (Len(q) + 1)..(Len(q) + Len(r))
    <3>1. a - Len(q) = b - Len(q)
      BY <1>1, <1>3, <1>5, <1>6, <2>4 DEF IsInjective
    <3> QED BY <1>3, <3>1
  <2>5. ~(a \in 1..Len(q) /\ b \in (Len(q) + 1)..(Len(q) + Len(r)))
    BY <1>4, <1>5, <1>6
  <2>6. ~(b \in 1..Len(q) /\ a \in (Len(q) + 1)..(Len(q) + Len(r)))
    BY <1>4, <1>5, <1>6
  <2> QED BY <2>1, <2>2, <2>3, <2>4, <2>5, <2>6
<1>7. IsInjective(c) BY <1>3, <1>6 DEF IsInjective
<1> QED BY <1>2, <1>3, <1>7 DEF Ordered, c

\* m is where a pass is that has come by the pieces D: it has lost none of them, but for those of
\* drop, and has none twice.
PassedBy(m, D, drop, pick) ==
  /\ m = [kept |-> m.kept, selected |-> m.selected, left |-> m.left]
  /\ Ordered(m.kept, Range(m.kept)) /\ Ordered(m.left, Range(m.left))
  /\ Range(m.kept) \cap Range(m.left) = {}
  /\ m.selected = NoPiece =>
       /\ m.left = <<>>
       /\ Range(m.kept) = D \ drop
       /\ Range(m.kept) \cap pick = {}
  /\ m.selected # NoPiece =>
       /\ m.selected \in (D \cap pick) \ drop
       /\ D \ drop \subseteq Range(m.kept) \cup Range(m.left) \cup {m.selected}
       /\ Range(m.kept) \cup Range(m.left) \subseteq D \ {m.selected}

LEMMA PassStepKeeps ==
  ASSUME NEW D, D \subseteq Pieces, NEW i \in Pieces \ D, NEW drop, NEW pick,
         NEW m, PassedBy(m, D, drop, pick)
  PROVE  PassedBy(PassStep(m, i, drop, pick), D \cup {i}, drop, pick)
<1> DEFINE n == PassStep(m, i, drop, pick)
           K == Range(m.kept)
           L == Range(m.left)
<1>1. /\ m = [kept |-> m.kept, selected |-> m.selected, left |-> m.left]
      /\ Ordered(m.kept, K) /\ Ordered(m.left, L) /\ K \cap L = {}
      /\ m.selected = NoPiece => m.left = <<>> /\ K = D \ drop /\ K \cap pick = {}
      /\ m.selected # NoPiece => /\ m.selected \in (D \cap pick) \ drop
                                 /\ D \ drop \subseteq K \cup L \cup {m.selected}
                                 /\ K \cup L \subseteq D \ {m.selected}
  BY DEF PassedBy
<1>2. i \notin K /\ i # NoPiece BY <1>1, PiecesAssumption
<1>3. CASE m.selected = NoPiece /\ i \in drop
  <2>1. n = m BY <1>3 DEF PassStep
  <2> QED BY <1>1, <1>3, <2>1 DEF PassedBy
<1>4. CASE m.selected = NoPiece /\ i \notin drop /\ i \in pick
  <2>1. n = [m EXCEPT !.selected = i] BY <1>2, <1>4 DEF PassStep
  <2>2. n.kept = m.kept /\ n.left = m.left /\ n.selected = i
        /\ n = [kept |-> n.kept, selected |-> n.selected, left |-> n.left]
    BY <1>1, <2>1
  <2>3. L = {} BY <1>1, <1>4 DEF Range
  <2>4. Range(n.kept) = K /\ Range(n.left) = L BY <2>2
  <2> HIDE DEF n, K, L
  <2>5. /\ i \in ((D \cup {i}) \cap pick) \ drop
        /\ (D \cup {i}) \ drop \subseteq K \cup L \cup {i}
        /\ K \cup L \subseteq (D \cup {i}) \ {i}
    BY <1>1, <1>2, <1>4, <2>3
  <2>6. PassedBy(n, D \cup {i}, drop, pick) BY <1>1, <1>2, <2>2, <2>4, <2>5 DEF PassedBy
  <2> QED BY <2>6 DEF n
<1>5. CASE m.selected = NoPiece /\ i \notin drop /\ i \notin pick
  <2>1. n = [m EXCEPT !.kept = Append(m.kept, i)] BY <1>2, <1>5 DEF PassStep
  <2>2. n.kept = Append(m.kept, i) /\ n.left = m.left /\ n.selected = NoPiece
        /\ n = [kept |-> n.kept, selected |-> n.selected, left |-> n.left]
    BY <1>1, <1>5, <2>1
  <2>3. L = {} BY <1>1, <1>5 DEF Range
  <2>4. Ordered(n.kept, K \cup {i}) BY <1>1, <1>2, <2>2, OrderedAppend
  <2>5. Range(n.kept) = K \cup {i} /\ Range(n.left) = L BY <2>2, <2>4 DEF Ordered
  <2> HIDE DEF n, K, L
  <2>6. /\ K \cup {i} = (D \cup {i}) \ drop
        /\ (K \cup {i}) \cap pick = {}
        /\ n.left = <<>>
    BY <1>1, <1>5, <2>2
  <2>7. PassedBy(n, D \cup {i}, drop, pick) BY <1>1, <2>2, <2>3, <2>4, <2>5, <2>6 DEF PassedBy
  <2> QED BY <2>7 DEF n
<1>6. CASE m.selected # NoPiece
  <2>1. n = [m EXCEPT !.left = Append(m.left, i)] BY <1>2, <1>6 DEF PassStep
  <2>2. n.kept = m.kept /\ n.left = Append(m.left, i) /\ n.selected = m.selected
        /\ n = [kept |-> n.kept, selected |-> n.selected, left |-> n.left]
    BY <1>1, <2>1
  <2>3. i \notin L BY <1>1, <1>6
  <2>4. Ordered(n.left, L \cup {i}) BY <1>1, <2>2, <2>3, OrderedAppend
  <2>5. Range(n.left) = L \cup {i} /\ Range(n.kept) = K BY <2>2, <2>4 DEF Ordered
  <2> HIDE DEF n, K, L
  <2>6. /\ m.selected \in ((D \cup {i}) \cap pick) \ drop
        /\ (D \cup {i}) \ drop \subseteq K \cup (L \cup {i}) \cup {m.selected}
        /\ K \cup (L \cup {i}) \subseteq (D \cup {i}) \ {m.selected}
        /\ K \cap (L \cup {i}) = {}
    BY <1>1, <1>2, <1>6
  <2>7. PassedBy(n, D \cup {i}, drop, pick) BY <1>1, <1>6, <2>2, <2>4, <2>5, <2>6 DEF PassedBy
  <2> QED BY <2>7 DEF n
<1> QED BY <1>3, <1>4, <1>5, <1>6

\* A whole pass over a list.
LEMMA PassKeeps ==
  ASSUME NEW S \in SUBSET Pieces, NEW q, Ordered(q, S), NEW drop, NEW pick
  PROVE  PassedBy(Pass(q, drop, pick), S, drop, pick)
<1> DEFINE P == Passing(q, drop, pick)
           Seen(n) == {q[j] : j \in 1..n}
           T == {n \in 0..Len(q) : ~PassedBy(P[n], Seen(n), drop, pick)}
<1>1. q \in Seq(S) /\ IsInjective(q) /\ Range(q) = S /\ Len(q) \in Nat /\ DOMAIN q = 1..Len(q)
  BY DEF Ordered
<1>2. Seen(Len(q)) = S BY <1>1 DEF Range
<1>3. T = {}
  <2> SUFFICES ASSUME T # {} PROVE FALSE OBVIOUS
  <2>1. PICK n \in T : \A j \in T : n <= j
    <3>1. T \in SUBSET Nat BY <1>1
    <3> HIDE DEF T
    <3> QED BY <3>1, LeastPlace
  <2>2. n # 0
    <3>1. P[0] = PassStart BY PassingSteps
    <3>2. Seen(0) = {} OBVIOUS
    <3>3. Ordered(<<>>, {}) /\ Range(<<>>) = {} BY DEF Ordered, IsInjective, Range
    <3>4. PassedBy(PassStart, {}, drop, pick) BY <3>3 DEF PassedBy, PassStart
    <3> HIDE DEF Seen, P
    <3> QED BY <3>1, <3>2, <3>4
  <2>3. /\ n - 1 \in 0..Len(q) /\ n - 1 \notin T /\ (n - 1) + 1 = n
        /\ n \in 1..Len(q) /\ n - 1 \in Nat
    <3>1. n \in 0..Len(q) OBVIOUS
    <3>2. n - 1 \in 0..Len(q) /\ (n - 1) + 1 = n /\ n \in 1..Len(q) /\ ~(n <= n - 1) /\ n - 1 \in Nat
      BY <1>1, <2>2, <3>1
    <3> HIDE DEF T
    <3> QED BY <2>1, <3>2
  <2>4. PassedBy(P[n - 1], Seen(n - 1), drop, pick) BY <2>3
  <2>5. P[n] = PassStep(P[n - 1], q[n], drop, pick) BY <2>3, PassingSteps
  <2>6. Seen(n - 1) \subseteq Pieces
    <3>1. \A j \in 1..(n - 1) : j \in 1..Len(q) BY <2>3
    <3> QED BY <1>1, <3>1
  <2>7. q[n] \in Pieces \ Seen(n - 1)
    <3>1. \A j \in 1..(n - 1) : j \in 1..Len(q) /\ j # n BY <2>3
    <3> QED BY <1>1, <2>3, <3>1 DEF IsInjective
  <2>8. Seen(n) = Seen(n - 1) \cup {q[n]}
    <3>1. 1..n = 1..(n - 1) \cup {n} BY <2>3
    <3> QED BY <3>1
  <2> HIDE DEF Seen, P
  <2>9. PassedBy(P[n], Seen(n), drop, pick) BY <2>4, <2>5, <2>6, <2>7, <2>8, PassStepKeeps
  <2> QED BY <2>1, <2>9
<1>4. PassedBy(P[Len(q)], Seen(Len(q)), drop, pick)
  <2>1. Len(q) \in 0..Len(q) BY <1>1
  <2> HIDE DEF P, Seen
  <2> QED BY <1>3, <2>1
<1> HIDE DEF Seen
<1> QED BY <1>2, <1>4 DEF Pass

\* What a pass leaves of the list.
LEMMA RemainingOrdered ==
  ASSUME NEW S \in SUBSET Pieces, NEW q, Ordered(q, S), NEW drop, NEW pick
  PROVE  LET m == Pass(q, drop, pick)
         IN  /\ Ordered(Remaining(m), Range(m.kept) \cup Range(m.left))
             /\ PassedBy(m, S, drop, pick)
<1> DEFINE m == Pass(q, drop, pick)
<1>1. PassedBy(m, S, drop, pick) BY PassKeeps
<1> HIDE DEF m
<1>2. Ordered(Remaining(m), Range(m.kept) \cup Range(m.left))
  BY <1>1, OrderedConcat DEF PassedBy, Remaining
<1> QED BY <1>1, <1>2 DEF m

\* The set is the right abstraction of the list, wherever every piece is at one place.
LEMMA ListIsSetWherePlaced ==
  ASSUME NEW s, Placed(s)
  PROVE  ListIsSet(s)
<1>1. s \in Scheduling /\ OnePlace(s) /\ s.queue \in SUBSET Pieces /\ s.queue \cap s.done = {}
  BY DEF Placed, Scheduling, OnePlace
<1> SUFFICES ASSUME NEW q \in Orders(s.queue)
             PROVE  /\ \A i \in Pieces :
                         /\ Ordered(Queued(s, q, i), QueuePiece(s, i).queue)
                         /\ Ordered(Removed(q, i), WritePiece(s, i).queue)
                    /\ \A k \in {k \in Keys : s.current[k] = NoPiece}, has \in SUBSET Pieces :
                         LET m == Popped(s, q, k, has) IN
                         \E o \in Starts(s, k, has) :
                           o.s.current[k] = m.selected /\ Ordered(Remaining(m), o.s.queue)
  BY DEF ListIsSet
<1>2. Ordered(q, s.queue) BY DEF Orders
<1>3. ASSUME NEW i \in Pieces
      PROVE  Ordered(Queued(s, q, i), QueuePiece(s, i).queue)
  <2>1. Range(q) = s.queue BY <1>2 DEF Ordered
  <2>2. CASE i \in s.done \cup Assigned(s)
    BY <1>2, <2>2 DEF Queued, QueuePiece
  <2>3. CASE i \notin s.done \cup Assigned(s)
    <3>1. QueuePiece(s, i).queue = s.queue \cup {i} BY <1>1, <2>3 DEF QueuePiece, Scheduling
    <3>2. CASE i \in s.queue
      <4>1. Queued(s, q, i) = q /\ s.queue \cup {i} = s.queue BY <2>1, <3>2 DEF Queued
      <4> QED BY <1>2, <3>1, <4>1
    <3>3. CASE i \notin s.queue
      <4>1. Queued(s, q, i) = Append(q, i) BY <2>1, <2>3, <3>3 DEF Queued
      <4> QED BY <1>2, <3>1, <3>3, <4>1, OrderedAppend
    <3> QED BY <3>2, <3>3
  <2> QED BY <2>2, <2>3
<1>4. ASSUME NEW i \in Pieces
      PROVE  Ordered(Removed(q, i), WritePiece(s, i).queue)
  <2> DEFINE m == Pass(q, {i}, {})
  <2>1. Ordered(Remaining(m), Range(m.kept) \cup Range(m.left)) /\ PassedBy(m, s.queue, {i}, {})
    BY <1>1, <1>2, RemainingOrdered
  <2>2. Removed(q, i) = Remaining(m) BY DEF Removed
  <2> HIDE DEF m
  <2>3. Range(m.kept) \cup Range(m.left) = s.queue \ {i}
    <3>1. Range(<<>>) = {} BY DEF Range
    <3> QED BY <2>1, <3>1 DEF PassedBy
  <2>4. WritePiece(s, i).queue = s.queue \ {i} BY <1>1 DEF WritePiece, Scheduling
  <2> QED BY <2>1, <2>2, <2>3, <2>4
<1>5. ASSUME NEW k \in Keys, s.current[k] = NoPiece, NEW has \in SUBSET Pieces
      PROVE  \E o \in Starts(s, k, has) :
               /\ o.s.current[k] = Popped(s, q, k, has).selected
               /\ Ordered(Remaining(Popped(s, q, k, has)), o.s.queue)
  <2> DEFINE m == Popped(s, q, k, has)
             pick == Suitable(s, k, has)
  <2>1. Ordered(Remaining(m), Range(m.kept) \cup Range(m.left)) /\ PassedBy(m, s.queue, s.done, pick)
    BY <1>1, <1>2, RemainingOrdered DEF Popped
  <2> HIDE DEF m
  <2>2. Range(<<>>) = {} BY DEF Range
  <2>3. CASE m.selected = NoPiece
    <3>1. Range(m.kept) \cup Range(m.left) = s.queue \ s.done BY <2>1, <2>2, <2>3 DEF PassedBy
    <3>2. Eligible(s, k, has) = {} BY <2>1, <2>3 DEF PassedBy, Eligible
    <3> DEFINE t == [s EXCEPT !.queue = s.queue \ s.done]
    <3>3. Outcome(t, NoReq) \in Starts(s, k, has) BY <3>2 DEF Starts
    <3>4. Outcome(t, NoReq).s = t BY DEF Outcome
    <3>5. t.queue = s.queue \ s.done /\ t.current[k] = NoPiece BY <1>1, <1>5 DEF Scheduling
    <3> HIDE DEF t
    <3> QED BY <2>1, <2>3, <3>1, <3>3, <3>4, <3>5 DEF m
  <2>4. CASE m.selected # NoPiece
    <3> DEFINE i == m.selected
    <3>1. i \in s.queue /\ i \in pick /\ i \notin s.done BY <2>1, <2>4 DEF PassedBy
    <3>2. Range(m.kept) \cup Range(m.left) = s.queue \ {i}
      <4>1. s.queue \ s.done = s.queue BY <1>1
      <4> QED BY <2>1, <2>4, <4>1 DEF PassedBy
    <3>3. i \in Eligible(s, k, has) /\ i \in Pieces BY <1>1, <3>1 DEF Eligible
    <3>4. PICK b : b \in NextMissing(s, i) /\ b \in Blocks
      <4>1. Missing(s, i) # {} BY <3>1 DEF Suitable
      <4>2. Missing(s, i) \in SUBSET Nat /\ Missing(s, i) \subseteq Blocks
        BY BlocksAssumption DEF Missing, Blocks
      <4> QED BY <4>1, <4>2, LeastPlace DEF NextMissing
    <3> DEFINE r == <<i, b>>
    <3>5. r \in Requests /\ r[1] = i /\ r[2] = b BY <3>3, <3>4 DEF Requests
    <3>6. Outcome(Takes(s, k, i), r) \in Starts(s, k, has)
      <4>1. Eligible(s, k, has) # {} BY <3>3
      <4>2. Outcome(Takes(s, k, r[1]), r) \in Starts(s, k, has)
        BY <3>3, <3>4, <3>5, <4>1 DEF Starts
      <4> QED BY <3>5, <4>2
    <3>7. Outcome(Takes(s, k, i), r).s = Takes(s, k, i) BY DEF Outcome
    <3>8. Takes(s, k, i).queue = s.queue \ {i} /\ Takes(s, k, i).current[k] = i
      BY <1>1 DEF Takes, Scheduling
    <3> QED BY <2>1, <3>2, <3>6, <3>7, <3>8 DEF m
  <2> QED BY <2>3, <2>4
<1> QED BY <1>3, <1>4, <1>5
===============================================================================
