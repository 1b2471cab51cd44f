------------------------ MODULE DownloadRequests_proofs ------------------------
(***************************************************************************)
(* What a download has asked for: the requests in flight, the counters of    *)
(* the peers' windows, and the answers that are still on their way.          *)
(*                                                                          *)
(* Accounted is what every handler keeps true of the requests as long as no  *)
(* send waits in drain(); OwedOnce ties the answers on their way to the      *)
(* requests in flight, as long as no request has timed out.                  *)
(***************************************************************************)
EXTENDS DownloadManager_proofs

\* The counters, as PendingCountMatches has them.
Counted(s) ==
  \A k \in Keys :
    /\ s.count[k] <= Cardinality(PendingOf(s, k))
    /\ s.forgotten[k] = {} => s.count[k] = Cardinality(PendingOf(s, k))

Accounted(s) == InFlightOfPiece(s) /\ Counted(s)

-------------------------------------------------------------------------------
(* The helpers of PieceScheduler *)

\* The requests of a peer can be counted.
LEMMA PendingFinite ==
  ASSUME NEW s, NEW k
  PROVE  IsFiniteSet(PendingOf(s, k)) /\ Cardinality(PendingOf(s, k)) \in Nat
BY RequestsFinite, FS_Subset, FS_CardinalityType DEF PendingOf

\* Bookkeeping that differs in who works on what, and keeps every peer that has requests
\* in flight for a piece on that piece.
LEMMA ReassignedAccounted ==
  ASSUME NEW s, Accounted(s), NEW t,
         t.owner = s.owner, t.blocks = s.blocks, t.count = s.count, t.forgotten = s.forgotten,
         \A k \in Keys : \/ t.current[k] = s.current[k]
                         \/ \A r \in PendingOf(s, k) : r[1] # s.current[k],
         \A r \in Requests : s.owner[r] \in Keys \cup {NoKey}
  PROVE  Accounted(t)
<1>1. \A k \in Keys : PendingOf(t, k) = PendingOf(s, k) BY DEF PendingOf
<1>2. Counted(t) BY <1>1 DEF Accounted, Counted
<1>3. InFlightOfPiece(t)
  <2> SUFFICES ASSUME NEW r \in Requests, t.owner[r] # NoKey
               PROVE  /\ t.blocks[r[1]][r[2]] = "none"
                      /\ r[1] = t.current[t.owner[r]] \/ r[1] \in t.forgotten[t.owner[r]]
    BY DEF InFlightOfPiece
  <2>1. s.owner[r] \in Keys /\ r \in PendingOf(s, s.owner[r]) BY DEF PendingOf
  <2> QED BY <2>1 DEF Accounted, InFlightOfPiece
<1> QED BY <1>2, <1>3 DEF Accounted

\* _clear_pending_request: every counter is lowered by what its peer loses.
LEMMA DropCounted ==
  ASSUME NEW s \in Scheduling, Counted(s), NEW R \in SUBSET Requests,
         NEW t, t = DropPending(s, R)
  PROVE  /\ Counted(t)
         /\ t.owner = [r \in Requests |-> IF r \in R THEN NoKey ELSE s.owner[r]]
         /\ t.count \in [Keys -> Nat]
         /\ t.blocks = s.blocks /\ t.current = s.current /\ t.forgotten = s.forgotten
         /\ \A k \in Keys : PendingOf(t, k) = PendingOf(s, k) \ R
<1>1. /\ t.owner = [r \in Requests |-> IF r \in R THEN NoKey ELSE s.owner[r]]
      /\ t.blocks = s.blocks /\ t.current = s.current /\ t.forgotten = s.forgotten
      /\ t.count = Lowered(s, R)
  BY DEF DropPending, Scheduling
<1>2. \A k \in Keys : PendingOf(t, k) = PendingOf(s, k) \ R BY <1>1, KeysAssumption DEF PendingOf
<1>3. ASSUME NEW k \in Keys
      PROVE  /\ t.count[k] <= Cardinality(PendingOf(t, k))
             /\ t.forgotten[k] = {} => t.count[k] = Cardinality(PendingOf(t, k))
  <2> DEFINE P == PendingOf(s, k)
             dropped == Cardinality(R \cap P)
  <2>1. IsFiniteSet(P) /\ Cardinality(P) \in Nat BY PendingFinite
  <2>2. IsFiniteSet(R \cap P) /\ dropped \in Nat /\ dropped <= Cardinality(P)
    BY <2>1, FS_Subset, FS_CardinalityType
  <2>3. Cardinality(P \ R) = Cardinality(P) - dropped
    <3>1. Cardinality(P \ R) = Cardinality(P) - Cardinality(P \cap R) BY <2>1, FS_Difference
    <3>2. P \cap R = R \cap P OBVIOUS
    <3> QED BY <3>1, <3>2
  <2>4. t.count[k] = IF dropped >= s.count[k] THEN 0 ELSE s.count[k] - dropped
    BY <1>1 DEF Lowered
  <2>5. s.count[k] \in Nat BY DEF Scheduling
  <2>6. /\ s.count[k] <= Cardinality(P)
        /\ s.forgotten[k] = {} => s.count[k] = Cardinality(P)
    BY DEF Counted
  <2>7. Cardinality(PendingOf(t, k)) = Cardinality(P) - dropped BY <1>2, <2>3
  <2> HIDE DEF P, dropped
  <2> QED BY <1>1, <2>1, <2>2, <2>4, <2>5, <2>6, <2>7
<1>4. t.count \in [Keys -> Nat] BY <1>1, LoweredType
<1> QED BY <1>1, <1>2, <1>3, <1>4 DEF Counted

\* Clearing requests leaves the others as they were.
LEMMA DropAccounted ==
  ASSUME NEW s \in Scheduling, Accounted(s), NEW R \in SUBSET Requests,
         NEW t, t = DropPending(s, R)
  PROVE  Accounted(t)
<1>1. /\ Counted(t)
      /\ t.owner = [r \in Requests |-> IF r \in R THEN NoKey ELSE s.owner[r]]
      /\ t.blocks = s.blocks /\ t.current = s.current /\ t.forgotten = s.forgotten
  BY DropCounted DEF Accounted
<1>2. InFlightOfPiece(t) BY <1>1 DEF Accounted, InFlightOfPiece
<1> QED BY <1>1, <1>2 DEF Accounted

\* A block that is not in flight any more is stored.
LEMMA AddBlockAccounted ==
  ASSUME NEW s \in Scheduling, Accounted(s), NEW r \in Requests, s.owner[r] = NoKey,
         NEW d, NEW t, t = AddBlock(s, r, d)
  PROVE  Accounted(t) /\ t.owner = s.owner /\ t.current = s.current /\ t.forgotten = s.forgotten
<1> DEFINE row == [s.blocks[r[1]] EXCEPT ![r[2]] = IF s.blocks[r[1]][r[2]] = "none"
                                                    THEN d ELSE s.blocks[r[1]][r[2]]]
<1>1. r[1] \in Pieces /\ r[2] \in Blocks /\ r = <<r[1], r[2]>> BY DEF Requests
<1>2. s.blocks \in [Pieces -> [Blocks -> Data]] BY DEF Scheduling
<1>3. t = [s EXCEPT !.blocks = [s.blocks EXCEPT ![r[1]] = row]] BY <1>1, <1>2 DEF AddBlock, Scheduling
<1>4. /\ t.owner = s.owner /\ t.current = s.current /\ t.forgotten = s.forgotten
      /\ t.count = s.count /\ t.blocks = [s.blocks EXCEPT ![r[1]] = row]
  BY <1>3 DEF Scheduling
<1>5. ASSUME NEW q \in Requests, q # r PROVE t.blocks[q[1]][q[2]] = s.blocks[q[1]][q[2]]
  <2>1. q[1] \in Pieces /\ q[2] \in Blocks /\ q = <<q[1], q[2]>> BY DEF Requests
  <2>2. CASE q[1] = r[1]
    <3>1. q[2] # r[2] BY <1>1, <1>5, <2>1, <2>2
    <3>2. t.blocks[q[1]] = row BY <1>1, <1>2, <1>4, <2>2
    <3> QED BY <1>1, <1>2, <2>1, <2>2, <3>1, <3>2
  <2>3. CASE q[1] # r[1] BY <1>2, <1>4, <2>1, <2>3
  <2> QED BY <2>2, <2>3
<1>6. InFlightOfPiece(t) BY <1>4, <1>5 DEF Accounted, InFlightOfPiece
<1>7. Counted(t)
  <2>1. \A k \in Keys : PendingOf(t, k) = PendingOf(s, k) BY <1>4 DEF PendingOf
  <2> QED BY <1>4, <2>1 DEF Accounted, Counted
<1> QED BY <1>4, <1>6, <1>7 DEF Accounted

\* A request that is sent without waiting is registered by the step that chose it.
LEMMA RegisterAccounted ==
  ASSUME NEW s \in Scheduling, Accounted(s), NEW k \in Keys, NEW r \in Requests,
         s.owner[r] = NoKey, s.blocks[r[1]][r[2]] = "none", r[1] = s.current[k],
         NEW t, t = Register(s, k, r)
  PROVE  /\ Accounted(t) /\ t.owner = [s.owner EXCEPT ![r] = k]
         /\ t.forgotten = s.forgotten /\ t.current = s.current
<1>1. s.owner \in [Requests -> Keys \cup {NoKey}] /\ s.count \in [Keys -> Nat] BY DEF Scheduling
<1>2. /\ t.owner = [s.owner EXCEPT ![r] = k] /\ t.count = [s.count EXCEPT ![k] = s.count[k] + 1]
      /\ t.blocks = s.blocks /\ t.current = s.current /\ t.forgotten = s.forgotten
  BY DEF Register, Scheduling
<1>3. InFlightOfPiece(t) BY <1>1, <1>2 DEF Accounted, InFlightOfPiece
<1>4. PendingOf(t, k) = PendingOf(s, k) \cup {r} /\ r \notin PendingOf(s, k)
  BY <1>1, <1>2, KeysAssumption DEF PendingOf
<1>5. Cardinality(PendingOf(t, k)) = Cardinality(PendingOf(s, k)) + 1
  BY <1>4, PendingFinite, FS_AddElement
<1>6. \A m \in Keys \ {k} : PendingOf(t, m) = PendingOf(s, m)
  BY <1>1, <1>2, KeysAssumption DEF PendingOf
<1>7. Counted(t)
  <2>1. ASSUME NEW m \in Keys
        PROVE  /\ t.count[m] <= Cardinality(PendingOf(t, m))
               /\ t.forgotten[m] = {} => t.count[m] = Cardinality(PendingOf(t, m))
    <3>1. /\ s.count[m] <= Cardinality(PendingOf(s, m))
          /\ s.forgotten[m] = {} => s.count[m] = Cardinality(PendingOf(s, m))
      BY DEF Accounted, Counted
    <3>2. s.count[m] \in Nat /\ Cardinality(PendingOf(s, m)) \in Nat BY <1>1, PendingFinite
    <3>3. CASE m = k BY <1>1, <1>2, <1>5, <3>1, <3>2, <3>3
    <3>4. CASE m # k BY <1>1, <1>2, <1>6, <3>1, <3>4
    <3> QED BY <3>3, <3>4
  <2> QED BY <2>1 DEF Counted
<1> QED BY <1>2, <1>3, <1>7 DEF Accounted

\* A piece with all its blocks has nothing in flight.
LEMMA NothingInFlight ==
  ASSUME NEW s, InFlightOfPiece(s), NEW i, \A b \in Blocks : s.blocks[i][b] # "none",
         NEW r \in Requests, r[1] = i
  PROVE  s.owner[r] = NoKey
<1>1. r[2] \in Blocks BY DEF Requests
<1> QED BY <1>1 DEF InFlightOfPiece

\* A verified piece leaves its peer, which has nothing in flight for it (_write_piece).
LEMMA WritePieceAccounted ==
  ASSUME NEW s \in Scheduling, Accounted(s), NEW i \in Pieces, Verifies(s, i),
         NEW t, t = WritePiece(s, i)
  PROVE  Accounted(t) /\ t.owner = s.owner /\ t.forgotten = s.forgotten
<1>1. /\ t.owner = s.owner /\ t.blocks = s.blocks /\ t.count = s.count
      /\ t.forgotten = s.forgotten
      /\ t.current = [k \in Keys |-> IF s.current[k] = i THEN NoPiece ELSE s.current[k]]
  BY DEF WritePiece, Scheduling
<1>2. \A r \in Requests : r[1] = i => s.owner[r] = NoKey
  BY NothingInFlight DEF Accounted, Verifies
<1>3. \A k \in Keys : \/ t.current[k] = s.current[k]
                      \/ \A r \in PendingOf(s, k) : r[1] # s.current[k]
  BY <1>1, <1>2, KeysAssumption DEF PendingOf
<1>4. \A r \in Requests : s.owner[r] \in Keys \cup {NoKey} BY DEF Scheduling
<1> QED BY <1>1, <1>3, <1>4, ReassignedAccounted

\* A counter that is set to 0 is right when nothing of its peer is left in flight.
LEMMA ZeroCounted ==
  ASSUME NEW s, Counted(s), NEW k \in Keys, NEW t,
         t.owner = s.owner, t.count = [s.count EXCEPT ![k] = 0], s.count \in [Keys -> Nat],
         \A m \in Keys \ {k} : t.forgotten[m] = s.forgotten[m],
         t.forgotten[k] = {} => PendingOf(t, k) = {}
  PROVE  Counted(t)
<1>1. \A m \in Keys : PendingOf(t, m) = PendingOf(s, m) BY DEF PendingOf
<1>2. ASSUME NEW m \in Keys
      PROVE  /\ t.count[m] <= Cardinality(PendingOf(t, m))
             /\ t.forgotten[m] = {} => t.count[m] = Cardinality(PendingOf(t, m))
  <2>1. CASE m = k
    <3>1. t.count[k] = 0 /\ Cardinality(PendingOf(t, k)) \in Nat BY PendingFinite
    <3>2. PendingOf(t, k) = {} => Cardinality(PendingOf(t, k)) = 0 BY FS_EmptySet
    <3> QED BY <2>1, <3>1, <3>2
  <2>2. CASE m # k
    <3>1. t.count[m] = s.count[m] /\ t.forgotten[m] = s.forgotten[m] BY <2>2
    <3> QED BY <1>1, <3>1 DEF Counted
  <2> QED BY <2>1, <2>2
<1> QED BY <1>2 DEF Counted

\* A disconnect drops all that its peer has in flight (_handle_peer_disconnect).
LEMMA DisconnectedAccounted ==
  ASSUME NEW s, Sound(s), Accounted(s), NEW k \in Keys, NEW t, t = Disconnected(s, k)
  PROVE  /\ Accounted(t) /\ t.forgotten = s.forgotten
         /\ t.owner = [r \in Requests |-> IF s.owner[r] = k THEN NoKey ELSE s.owner[r]]
<1> DEFINE f == Freed(s, k)
           u == Release(s, k, TRUE)
           v == DropPending(u, PendingOf(s, k))
<1>1. f = Freed(s, k) /\ u = Release(s, k, TRUE) OBVIOUS
<1>2. v = DropPending(u, PendingOf(s, k)) OBVIOUS
<1>3. t = [v EXCEPT !.count[k] = 0] BY DEF Disconnected
<1> HIDE DEF f, u, v
<1>4. Placed(s) /\ s \in Scheduling BY DEF Sound, Placed
<1>5. /\ Placed(f) /\ f.owner = s.owner /\ f.blocks = s.blocks /\ f.forgotten = s.forgotten
      /\ f.current = [s.current EXCEPT ![k] = NoPiece] /\ f.count = s.count
  BY <1>1, <1>4, FreedPlaced DEF Freed, Scheduling
<1>6. /\ Placed(u) /\ u.owner = f.owner /\ u.blocks = f.blocks /\ u.forgotten = f.forgotten
      /\ u.current = f.current /\ u.count = f.count
  <2>1. CASE s.current[k] # NoPiece
    <3>1. u = QueuePiece(f, s.current[k]) BY <1>1, <2>1 DEF Release
    <3>2. s.current[k] \in Pieces BY <1>4, <2>1 DEF Scheduling
    <3>3. u.count = f.count BY <1>5, <3>1 DEF QueuePiece, Placed, Scheduling
    <3> QED BY <1>5, <3>1, <3>2, <3>3, QueuePlaced
  <2>2. CASE s.current[k] = NoPiece
    <3>1. u = f BY <1>1, <2>2 DEF Release
    <3> QED BY <1>5, <3>1
  <2> QED BY <2>1, <2>2
<1>7. \A m \in Keys : PendingOf(u, m) = PendingOf(s, m) BY <1>5, <1>6 DEF PendingOf
<1>8. Counted(u) BY <1>5, <1>6, <1>7 DEF Accounted, Counted
<1>9. PendingOf(s, k) \in SUBSET Requests BY DEF PendingOf
<1>10. /\ Counted(v) /\ v.count \in [Keys -> Nat]
       /\ v.owner = [r \in Requests |-> IF r \in PendingOf(s, k) THEN NoKey ELSE u.owner[r]]
       /\ v.blocks = u.blocks /\ v.current = u.current /\ v.forgotten = u.forgotten
       /\ PendingOf(v, k) = PendingOf(u, k) \ PendingOf(s, k)
  BY <1>2, <1>6, <1>8, <1>9, DropCounted DEF Placed
<1>11. v \in Scheduling BY <1>2, <1>6, <1>9, DropSound DEF Placed
<1>12. /\ t.owner = v.owner /\ t.blocks = v.blocks /\ t.current = v.current
       /\ t.forgotten = v.forgotten /\ t.count = [v.count EXCEPT ![k] = 0]
  BY <1>3, <1>11 DEF Scheduling
<1>13. PendingOf(t, k) = {} BY <1>7, <1>10, <1>12 DEF PendingOf
<1>14. Counted(t) BY <1>10, <1>12, <1>13, ZeroCounted
<1>15. t.owner = [r \in Requests |-> IF s.owner[r] = k THEN NoKey ELSE s.owner[r]]
  BY <1>5, <1>6, <1>10, <1>12 DEF PendingOf
<1>16. s.current \in [Keys -> Pieces \cup {NoPiece}] BY <1>4 DEF Scheduling
<1>17. InFlightOfPiece(t)
  BY <1>5, <1>6, <1>10, <1>12, <1>15, <1>16, <1>4 DEF Accounted, InFlightOfPiece, Scheduling
<1> QED BY <1>5, <1>6, <1>10, <1>12, <1>14, <1>15, <1>17 DEF Accounted

\* A hash failure drops what is in flight of its piece, and takes the sender's piece.
LEMMA HashFailureAccounted ==
  ASSUME NEW s, Sound(s), Accounted(s), NEW k \in Keys, NEW i \in Pieces,
         NEW t, t = HashFailure(s, k, i)
  PROVE  /\ Accounted(t)
         /\ t.owner = [r \in Requests |-> IF r[1] = i THEN NoKey ELSE s.owner[r]]
         /\ t.forgotten = [s.forgotten EXCEPT ![k] = @ \cup ({s.current[k]} \ {NoPiece, i})]
<1> DEFINE R == {i} \X Blocks
           c == DropPending(s, R)
           e == [c EXCEPT !.blocks[i] = [b \in Blocks |-> "none"]]
           f == Freed(e, k)
           q == QueuePiece(f, i)
           empty == [b \in Blocks |-> "none"]
           lost == {s.current[k]} \ {NoPiece, i}
<1>0. c = DropPending(s, R) /\ R = {i} \X Blocks OBVIOUS
<1>1. t = [q EXCEPT !.count[k] = 0, !.forgotten[k] = q.forgotten[k] \cup lost]
  BY DEF HashFailure, Release
<1>2. R \in SUBSET Requests /\ \A r \in Requests : r \in R <=> r[1] = i BY DEF Requests
<1>3. e = [c EXCEPT !.blocks[i] = empty] OBVIOUS
<1>4. f = [e EXCEPT !.current[k] = NoPiece] BY DEF Freed
<1>5. q = f \/ q = [f EXCEPT !.queue = f.queue \cup {i}] BY DEF QueuePiece
<1>e. empty = [b \in Blocks |-> "none"] OBVIOUS
<1> HIDE DEF R, c, e, f, q, empty
<1>6. s \in Scheduling /\ Placed(s) BY DEF Sound, Placed
<1>a. c = DropPending(s, R) /\ R \in SUBSET Requests /\ Counted(s) /\ s \in Scheduling
  BY <1>0, <1>2, <1>6 DEF Accounted
<1>7. /\ Counted(c) /\ c.count \in [Keys -> Nat]
      /\ c.owner = [r \in Requests |-> IF r \in R THEN NoKey ELSE s.owner[r]]
      /\ c.blocks = s.blocks /\ c.current = s.current /\ c.forgotten = s.forgotten
  BY ONLY <1>a, DropCounted
<1>8. c \in Scheduling BY <1>0, <1>2, <1>6, DropSound DEF Placed
<1>9. /\ e.owner = c.owner /\ e.count = c.count /\ e.current = c.current
      /\ e.forgotten = c.forgotten /\ e.blocks = [c.blocks EXCEPT ![i] = empty]
      /\ e \in Scheduling
  <2>1. c.blocks \in [Pieces -> [Blocks -> Data]] BY <1>8 DEF Scheduling
  <2>2. empty \in [Blocks -> Data] BY <1>e DEF Data
  <2> DEFINE cleared == [c.blocks EXCEPT ![i] = empty]
  <2>3. cleared \in [Pieces -> [Blocks -> Data]] BY <2>1, <2>2
  <2>4. e = [c EXCEPT !.blocks = cleared] BY <1>3, <1>8 DEF Scheduling
  <2> HIDE DEF cleared
  <2>5. /\ e \in Scheduling /\ e.owner = c.owner /\ e.count = c.count /\ e.current = c.current
        /\ e.forgotten = c.forgotten /\ e.blocks = cleared
    BY <1>8, <2>3, <2>4 DEF Scheduling
  <2> QED BY <2>5 DEF cleared
<1>10. /\ f.owner = c.owner /\ f.count = c.count /\ f.forgotten = c.forgotten
       /\ f.blocks = e.blocks /\ f.current = [c.current EXCEPT ![k] = NoPiece]
       /\ f \in Scheduling
  <2> DEFINE nobody == [e.current EXCEPT ![k] = NoPiece]
  <2>1. nobody \in [Keys -> Pieces \cup {NoPiece}] BY <1>9 DEF Scheduling
  <2>2. f = [e EXCEPT !.current = nobody] BY <1>4, <1>9 DEF Scheduling
  <2>3. nobody = [c.current EXCEPT ![k] = NoPiece] BY <1>9
  <2> HIDE DEF nobody
  <2> QED BY <1>9, <2>1, <2>2, <2>3 DEF Scheduling
<1>11. /\ q.owner = c.owner /\ q.count = c.count /\ q.forgotten = c.forgotten
       /\ q.blocks = e.blocks /\ q.current = f.current /\ q \in Scheduling
  <2> DEFINE longer == f.queue \cup {i}
  <2>1. longer \in SUBSET Pieces BY <1>10 DEF Scheduling
  <2>2. q = f \/ q = [f EXCEPT !.queue = longer] BY <1>5
  <2> HIDE DEF longer
  <2> QED BY <1>10, <2>1, <2>2 DEF Scheduling
<1>12. /\ t.owner = c.owner /\ t.count = [c.count EXCEPT ![k] = 0]
       /\ t.forgotten = [s.forgotten EXCEPT ![k] = s.forgotten[k] \cup lost]
       /\ t.blocks = [s.blocks EXCEPT ![i] = empty]
       /\ t.current = [s.current EXCEPT ![k] = NoPiece]
  <2> DEFINE forgets == [q.forgotten EXCEPT ![k] = q.forgotten[k] \cup lost]
             counts == [q.count EXCEPT ![k] = 0]
  <2>1. t = [q EXCEPT !.count = counts, !.forgotten = forgets] BY <1>1, <1>11 DEF Scheduling
  <2>2. forgets = [s.forgotten EXCEPT ![k] = s.forgotten[k] \cup lost] BY <1>7, <1>11
  <2>3. counts = [c.count EXCEPT ![k] = 0] BY <1>11
  <2> HIDE DEF forgets, counts
  <2>4. /\ t.owner = q.owner /\ t.count = counts /\ t.forgotten = forgets
        /\ t.blocks = q.blocks /\ t.current = q.current
    BY <1>11, <2>1 DEF Scheduling
  <2> QED BY <1>7, <1>9, <1>10, <1>11, <2>2, <2>3, <2>4
<1>13. /\ s.current \in [Keys -> Pieces \cup {NoPiece}] /\ s.forgotten \in [Keys -> SUBSET Pieces]
       /\ s.blocks \in [Pieces -> [Blocks -> Data]] /\ s.owner \in [Requests -> Keys \cup {NoKey}]
  BY <1>6 DEF Scheduling
<1>14. t.owner = [r \in Requests |-> IF r[1] = i THEN NoKey ELSE s.owner[r]]
  BY <1>2, <1>7, <1>12
<1>15. t.forgotten[k] = s.forgotten[k] \cup lost /\ \A m \in Keys \ {k} : t.forgotten[m] = s.forgotten[m]
  BY <1>12, <1>13
<1>16. InFlightOfPiece(t)
  <2> SUFFICES ASSUME NEW r \in Requests, t.owner[r] # NoKey
               PROVE  /\ t.blocks[r[1]][r[2]] = "none"
                      /\ r[1] = t.current[t.owner[r]] \/ r[1] \in t.forgotten[t.owner[r]]
    BY DEF InFlightOfPiece
  <2>1. r[1] # i /\ t.owner[r] = s.owner[r] /\ s.owner[r] \in Keys /\ r[1] \in Pieces
    BY <1>13, <1>14 DEF Requests
  <2>2. /\ s.blocks[r[1]][r[2]] = "none"
        /\ r[1] = s.current[s.owner[r]] \/ r[1] \in s.forgotten[s.owner[r]]
    BY <2>1 DEF Accounted, InFlightOfPiece
  <2>3. t.blocks[r[1]][r[2]] = "none" BY <1>12, <1>13, <2>1, <2>2
  <2>4. CASE s.owner[r] = k
    <3>1. r[1] # NoPiece BY <2>1, PiecesAssumption
    <3> QED BY <1>15, <2>1, <2>2, <2>3, <2>4, <3>1
  <2>5. CASE s.owner[r] # k BY <1>12, <1>13, <1>15, <2>1, <2>2, <2>3, <2>5
  <2> QED BY <2>4, <2>5
<1>17. t.forgotten[k] = {} => PendingOf(t, k) = {}
  <2> SUFFICES ASSUME t.forgotten[k] = {}, NEW r \in PendingOf(t, k) PROVE FALSE OBVIOUS
  <2>1. r \in Requests /\ t.owner[r] = k BY DEF PendingOf
  <2>2. r[1] # i /\ s.owner[r] = k /\ r[1] \in Pieces BY <1>14, <2>1, KeysAssumption DEF Requests
  <2>3. s.forgotten[k] = {} /\ lost = {} BY <1>15
  <2>4. r[1] = s.current[k] BY <2>1, <2>2, <2>3, KeysAssumption DEF Accounted, InFlightOfPiece
  <2> QED BY <2>2, <2>3, <2>4, PiecesAssumption
<1>18. \A m \in Keys \ {k} : t.forgotten[m] = c.forgotten[m] BY <1>7, <1>15
<1>19. Counted(t)
  <2>1. /\ Counted(c) /\ c.count \in [Keys -> Nat] /\ t.owner = c.owner
        /\ t.count = [c.count EXCEPT ![k] = 0] /\ k \in Keys
    BY <1>7, <1>12
  <2> QED BY ONLY <2>1, <1>17, <1>18, ZeroCounted
<1> QED BY <1>12, <1>14, <1>16, <1>19 DEF Accounted

\* What _request_next_block chooses is neither in flight nor received, and of the piece
\* that the peer has then.
LEMMA NextRequestAccounted ==
  ASSUME NEW s, Sound(s), Accounted(s), NEW k \in Keys, NEW has, NEW o \in NextRequest(s, k, has)
  PROVE  /\ Accounted(o.s) /\ o.s.owner = s.owner /\ o.s.forgotten = s.forgotten
         /\ o.s \in Scheduling
         /\ o.req # NoReq => /\ o.req \in Requests /\ s.owner[o.req] = NoKey
                             /\ o.s.blocks[o.req[1]][o.req[2]] = "none"
                             /\ o.req[1] = o.s.current[k]
<1>1. s \in Scheduling /\ OnePlace(s) /\ Placed(s) BY DEF Sound, Placed
<1>2. s.current \in [Keys -> Pieces \cup {NoPiece}] BY <1>1 DEF Scheduling
<1>3. o.s \in Scheduling BY NextRequestSound DEF Sound, Placed
<1>4. CASE s.current[k] # NoPiece /\ s.current[k] \notin s.done
  <2>1. s.current[k] \in Pieces BY <1>2, <1>4
  <2>2. o \in Continues(s, k) BY <1>4 DEF NextRequest
  <2> DEFINE i == s.current[k]
  <2>3. CASE s.count[k] < MaxPipelined /\ Missing(s, i) # {}
    <3>1. PICK b \in NextMissing(s, i) : o = Outcome(s, <<i, b>>) BY <2>2, <2>3 DEF Continues
    <3>2. b \in Blocks /\ s.blocks[i][b] = "none" /\ s.owner[<<i, b>>] = NoKey
      BY <3>1 DEF NextMissing, Missing
    <3>3. o.s = s /\ o.req = <<i, b>> /\ <<i, b>> \in Requests
      BY <2>1, <3>1, <3>2 DEF Outcome, Requests
    <3> QED BY <1>1, <3>2, <3>3
  <2>4. CASE ~(s.count[k] < MaxPipelined /\ Missing(s, i) # {})
    <3>1. o.s = s /\ o.req = NoReq BY <2>2, <2>4 DEF Continues, Outcome
    <3> QED BY <1>1, <3>1
  <2> QED BY <2>3, <2>4
<1>5. CASE ~(s.current[k] # NoPiece /\ s.current[k] \notin s.done)
  <2> DEFINE f == Freed(s, k)
  <2>0. f = Freed(s, k) OBVIOUS
  <2>1. o \in Starts(f, k, has) BY <1>5 DEF NextRequest, Release
  <2>a. s.current[k] = NoPiece BY <1>1, <1>2, <1>5 DEF OnePlace, Assigned
  <2> HIDE DEF f
  <2>2. /\ f.owner = s.owner /\ f.blocks = s.blocks /\ f.count = s.count /\ f.forgotten = s.forgotten
        /\ f.current = s.current /\ f.done = s.done /\ f \in Scheduling
    <3>1. [s.current EXCEPT ![k] = NoPiece] = s.current BY <1>2, <2>a
    <3> QED BY <1>1, <2>0, <3>1 DEF Freed, Scheduling
  <2>3. \A r \in Requests : s.owner[r] \in Keys \cup {NoKey} BY <1>1 DEF Scheduling
  <2>4. CASE Eligible(f, k, has) = {}
    <3>1. o.s = [f EXCEPT !.queue = f.queue \ f.done] /\ o.req = NoReq
      BY <2>1, <2>4 DEF Starts, Outcome
    <3>2. /\ o.s.owner = s.owner /\ o.s.blocks = s.blocks /\ o.s.count = s.count
          /\ o.s.forgotten = s.forgotten /\ o.s.current = s.current
      BY <2>2, <3>1 DEF Scheduling
    <3>3. Accounted(o.s) BY <2>3, <3>2, ReassignedAccounted
    <3> QED BY <1>3, <3>1, <3>2, <3>3
  <2>5. CASE Eligible(f, k, has) # {}
    <3>1. PICK r \in Requests : /\ r[1] \in Eligible(f, k, has) /\ r[2] \in NextMissing(f, r[1])
                                /\ o = Outcome(Takes(f, k, r[1]), r)
      BY <2>1, <2>5 DEF Starts
    <3>2. o.s = Takes(f, k, r[1]) /\ o.req = r BY <3>1 DEF Outcome
    <3>3. r[1] \in Pieces /\ r[2] \in Blocks /\ r = <<r[1], r[2]>> BY DEF Requests
    <3>4. s.blocks[r[1]][r[2]] = "none" /\ s.owner[r] = NoKey
      BY <2>2, <3>1, <3>3 DEF NextMissing, Missing
    <3>5. /\ o.s.owner = s.owner /\ o.s.blocks = s.blocks /\ o.s.count = s.count
          /\ o.s.forgotten = s.forgotten /\ o.s.current = [s.current EXCEPT ![k] = r[1]]
      BY <2>2, <3>2 DEF Takes, Scheduling
    <3>6. \A m \in Keys : \/ o.s.current[m] = s.current[m]
                          \/ \A q \in PendingOf(s, m) : q[1] # s.current[m]
      <4>1. \A q \in Requests : q[1] # NoPiece BY PiecesAssumption DEF Requests
      <4> QED BY <1>2, <2>a, <3>5, <4>1 DEF PendingOf
    <3>7. Accounted(o.s) BY <2>3, <3>5, <3>6, ReassignedAccounted
    <3> QED BY <1>2, <1>3, <3>2, <3>4, <3>5, <3>7
  <2> QED BY <2>4, <2>5
<1> QED BY <1>4, <1>5

\* After a recheck nothing is in flight.
LEMMA RecheckedAccounted ==
  ASSUME NEW ok \in SUBSET Pieces
  PROVE  /\ Accounted(Rechecked(ok))
         /\ Rechecked(ok).forgotten = [k \in Keys |-> {}]
<1> DEFINE t == Rechecked(ok)
<1>1. /\ t.owner = [r \in Requests |-> NoKey] /\ t.count = [k \in Keys |-> 0]
      /\ t.forgotten = [k \in Keys |-> {}]
  BY DEF Rechecked
<1> HIDE DEF t
<1>2. InFlightOfPiece(t) BY <1>1 DEF InFlightOfPiece
<1>3. \A k \in Keys : PendingOf(t, k) = {} BY <1>1, KeysAssumption DEF PendingOf
<1>4. Counted(t) BY <1>1, <1>3, FS_EmptySet DEF Counted
<1> QED BY <1>1, <1>2, <1>4 DEF Accounted, t

-------------------------------------------------------------------------------
(* The handlers *)

\* No connection has a write buffer that fills.
NoSendWaits == \A c \in Conns : "slow" \notin Faults[c]

\* What _request_next_block does when no send waits: the block that is asked for is in
\* flight from now on, and the peer owes it if the request has left.
LEMMA AsksAccounted ==
  ASSUME NoSendWaits, NEW s, Sound(s), Accounted(s), NEW c \in Conns, NEW p,
         NEW a \in Asks(s, c, p)
  PROVE  /\ Accounted(a.s) /\ a.s.forgotten = s.forgotten
         /\ \/ a.s.owner = s.owner /\ a.p = p
            \/ \E r \in Requests : /\ s.owner[r] = NoKey
                                   /\ a.s.owner = [s.owner EXCEPT ![r] = KeyOf[c]]
                                   /\ a.p = p \/ a.p = Owes(p, r)
<1>0. KeyOf[c] \in Keys BY ConnsAssumption
<1>1. CASE p.choking \/ ~p.known
  <2>1. a = [s |-> s, p |-> p, link |-> conn[c], req |-> NoReq] BY <1>1 DEF Asks
  <2> QED BY <2>1
<1>2. CASE ~(p.choking \/ ~p.known)
  <2>1. PICK o \in NextRequest(s, KeyOf[c], p.bits) :
          \/ /\ o.req = NoReq
             /\ a = [s |-> o.s, p |-> p, link |-> conn[c], req |-> NoReq]
          \/ /\ o.req # NoReq
             /\ \E w \in Sends(c) :
                  a = [s    |-> IF w.waits THEN o.s ELSE Register(o.s, KeyOf[c], o.req),
                       p    |-> IF w.sent THEN Owes(p, o.req) ELSE p,
                       link |-> w.link,
                       req  |-> IF w.waits THEN o.req ELSE NoReq]
    BY <1>2 DEF Asks
  <2>2. /\ Accounted(o.s) /\ o.s.owner = s.owner /\ o.s.forgotten = s.forgotten
        /\ o.s \in Scheduling
        /\ o.req # NoReq => /\ o.req \in Requests /\ s.owner[o.req] = NoKey
                            /\ o.s.blocks[o.req[1]][o.req[2]] = "none"
                            /\ o.req[1] = o.s.current[KeyOf[c]]
    BY <1>0, NextRequestAccounted
  <2>3. CASE o.req = NoReq
    <3>1. a = [s |-> o.s, p |-> p, link |-> conn[c], req |-> NoReq] BY <2>1, <2>3
    <3> QED BY <2>2, <3>1
  <2>4. CASE o.req # NoReq
    <3>1. PICK w \in Sends(c) :
            a = [s    |-> IF w.waits THEN o.s ELSE Register(o.s, KeyOf[c], o.req),
                 p    |-> IF w.sent THEN Owes(p, o.req) ELSE p,
                 link |-> w.link,
                 req  |-> IF w.waits THEN o.req ELSE NoReq]
      BY <2>1, <2>4
    <3>2. w.waits = FALSE \/ (w.waits = TRUE /\ w.sent = FALSE)
      <4>1. \/ w = [link |-> conn[c], sent |-> conn[c] = "up", waits |-> FALSE]
            \/ w = [link |-> "closing", sent |-> FALSE, waits |-> TRUE]
        BY DEF Sends, NoSendWaits
      <4>2. CASE w = [link |-> conn[c], sent |-> conn[c] = "up", waits |-> FALSE] BY <4>2
      <4>3. CASE w = [link |-> "closing", sent |-> FALSE, waits |-> TRUE] BY <4>3
      <4> QED BY <4>1, <4>2, <4>3
    <3>3. CASE w.waits
      <4>1. a.s = o.s /\ a.p = p BY <3>1, <3>2, <3>3
      <4> QED BY <2>2, <4>1
    <3>4. CASE ~w.waits
      <4>1. a.s = Register(o.s, KeyOf[c], o.req) /\ (a.p = p \/ a.p = Owes(p, o.req))
        BY <3>1, <3>4
      <4>2. /\ Accounted(a.s) /\ a.s.owner = [o.s.owner EXCEPT ![o.req] = KeyOf[c]]
            /\ a.s.forgotten = o.s.forgotten
        BY <1>0, <2>2, <2>4, <4>1, RegisterAccounted
      <4> QED BY <2>2, <2>4, <4>1, <4>2
    <3> QED BY <3>2, <3>3, <3>4
  <2> QED BY <2>3, <2>4
<1> QED BY <1>1, <1>2

\* No peer is dialed a second time.
NoRedial == \A c, e \in Conns : KeyOf[c] = KeyOf[e] => c = e

\* No request has timed out, and the job has not been rechecked after its end.
Fresh ==
  /\ \A k \in Keys : timeouts[k] = 0
  /\ Ended => Rechecks = {}

\* An answer on its way, on a connection with peer states P and readers R, is the only
\* one, and to a request that bookkeeping s has in flight from its peer.
OnItsWay(s, P, R) ==
  \A c \in Conns, r \in Requests :
    R[c].at # "off" /\ P[c].asked[r] > 0 => s.owner[r] = KeyOf[c] /\ P[c].asked[r] = 1

\* Nothing is on its way from a peer that is being banned.
Silenced(c) == conn[c] # "up" /\ \A r \in Requests : peer[c].asked[r] = 0

\* What holds of the answers on their way as long as the job is fresh.
OwedOnce ==
  /\ main.at # "shut"
  /\ \A k \in Keys : sched.forgotten[k] = {}
  /\ OnItsWay(sched, peer, reader)
  /\ \A c \in Conns : reader[c].at = "ban" => Silenced(c)

\* A connection that was never dialed.
Untouched ==
  \A c \in Conns : conn[c] = "new" =>
    /\ reader[c].at = "off" /\ c \notin active
    /\ \A r \in Requests : peer[c].asked[r] = 0

\* Only connections that were never dialed wait to be dialed, and no such connection is
\* being closed.
ToDial ==
  /\ \A c \in pool : conn[c] = "new"
  /\ main.at = "dial" => conn[main.on] = "new" /\ main.on \notin pool
  /\ main.at = "shut" => conn[main.on] # "new"

RInv ==
  /\ Accounted(sched)
  /\ Untouched
  /\ ToDial
  /\ NoRedial /\ Fresh => OwedOnce

\* A job does not become fresh again.
LEMMA FreshBefore ==
  ASSUME timeouts' = timeouts, Ended => Ended', Fresh'
  PROVE  Fresh
BY DEF Fresh

\* A step of download() that leaves the bookkeeping, the readers and the peers alone.
LEMMA MainMovesRequests ==
  ASSUME RInv, ReadersRest, UNCHANGED reader, main'.at # "shut" \/ main' = main,
         Ended => Ended', \A c \in Conns : conn'[c] = "new" => conn[c] = "new",
         \A c \in Conns : conn'[c] = "up" => conn[c] = "up",
         active' \subseteq active, ToDial'
  PROVE  RInv'
<1> USE DEF ReadersRest
<1>1. Accounted(sched)' BY DEF RInv
<1>2. Untouched' BY DEF RInv, Untouched
<1>3. NoRedial' /\ Fresh' => OwedOnce'
  <2> SUFFICES ASSUME NoRedial, Fresh' PROVE OwedOnce' BY DEF NoRedial
  <2>1. OwedOnce BY FreshBefore DEF RInv
  <2> QED BY <2>1 DEF OwedOnce, OnItsWay, Silenced
<1> QED BY <1>1, <1>2, <1>3 DEF RInv

\* A step of the reader of c.
LEMMA ReaderMovesRequests ==
  ASSUME IInv, RInv, NEW c \in Conns, reader[c].at # "off",
         NEW p, NEW n, peer' = [peer EXCEPT ![c] = p], reader' = [reader EXCEPT ![c] = n],
         MainRests, UNCHANGED timeouts, active' \subseteq active,
         \A d \in Conns : conn'[d] = "new" <=> conn[d] = "new",
         Accounted(sched'),
         NoRedial /\ OwedOnce => OwedOnce'
  PROVE  RInv'
<1> USE DEF MainRests
<1>1. Untouched' BY DEF RInv, Untouched, IInv, TypeOK
<1>2. ToDial' BY DEF RInv, ToDial, IInv, Suspended, TypeOK
<1>3. NoRedial' /\ Fresh' => OwedOnce'
  <2>1. (Ended => Ended') /\ (NoRedial' => NoRedial) BY DEF Ended, NoRedial
  <2> QED BY <2>1, FreshBefore DEF RInv
<1> QED BY <1>1, <1>2, <1>3 DEF RInv

\* What is asked for is owed once.
LEMMA AsksOnItsWay ==
  ASSUME NoSendWaits, NEW s, Sound(s), Accounted(s), NEW c \in Conns,
         NEW P \in [Conns -> PeerState], NEW R, OnItsWay(s, P, R), R[c].at # "off",
         NEW a \in Asks(s, c, P[c])
  PROVE  OnItsWay(a.s, [P EXCEPT ![c] = a.p], R)
<1>1. \/ a.s.owner = s.owner /\ a.p = P[c]
      \/ \E r \in Requests : /\ s.owner[r] = NoKey
                             /\ a.s.owner = [s.owner EXCEPT ![r] = KeyOf[c]]
                             /\ a.p = P[c] \/ a.p = Owes(P[c], r)
  BY AsksAccounted
<1>2. s.owner \in [Requests -> Keys \cup {NoKey}] BY DEF Sound, Placed, Scheduling
<1>3. \A d \in Conns : KeyOf[d] \in Keys BY ConnsAssumption
<1>4. CASE a.s.owner = s.owner /\ a.p = P[c] BY <1>4 DEF OnItsWay
<1>5. ASSUME NEW r \in Requests, s.owner[r] = NoKey,
             a.s.owner = [s.owner EXCEPT ![r] = KeyOf[c]],
             a.p = P[c] \/ a.p = Owes(P[c], r)
      PROVE  OnItsWay(a.s, [P EXCEPT ![c] = a.p], R)
  <2> DEFINE Q == [P EXCEPT ![c] = a.p]
  <2>1. \A d \in Conns : R[d].at # "off" => ~(P[d].asked[r] > 0)
    BY <1>3, <1>5, KeysAssumption DEF OnItsWay
  <2>2. \A d \in Conns : P[d].asked \in [Requests -> 0..MaxAsked] BY DEF PeerState
  <2>3. P[c].asked[r] = 0 BY <2>1, <2>2, LimitsAssumption
  <2>4. a.p.asked = P[c].asked \/ a.p.asked = [P[c].asked EXCEPT ![r] = 1]
    BY <1>5, <2>3, LimitsAssumption DEF Owes, PeerState
  <2>5. \A q \in Requests \ {r} : a.p.asked[q] = P[c].asked[q] /\ a.s.owner[q] = s.owner[q]
    BY <1>2, <1>5, <2>2, <2>4
  <2>6. a.s.owner[r] = KeyOf[c] /\ a.p.asked[r] \in {0, 1} BY <1>2, <1>5, <2>2, <2>3, <2>4
  <2>7. Q[c] = a.p /\ \A d \in Conns \ {c} : Q[d] = P[d] OBVIOUS
  <2> HIDE DEF Q
  <2>8. OnItsWay(a.s, Q, R)
    <3> SUFFICES ASSUME NEW d \in Conns, NEW q \in Requests, R[d].at # "off", Q[d].asked[q] > 0
                 PROVE  a.s.owner[q] = KeyOf[d] /\ Q[d].asked[q] = 1
      BY DEF OnItsWay
    <3>1. CASE q = r
      <4>1. d = c BY <2>1, <2>7, <3>1
      <4> QED BY <2>6, <2>7, <3>1, <4>1
    <3>2. CASE q # r BY <2>5, <2>7, <3>2 DEF OnItsWay
    <3> QED BY <3>1, <3>2
  <2> QED BY <2>8 DEF Q
<1> QED BY <1>1, <1>4, <1>5

\* The readers matter only by being off or not.
LEMMA OtherReaders ==
  ASSUME NEW s, NEW P, NEW R, OnItsWay(s, P, R),
         NEW Q, \A c \in Conns : Q[c].at # "off" => R[c].at # "off"
  PROVE  OnItsWay(s, P, Q)
BY DEF OnItsWay

\* A connection that asks is not a new one.
LEMMA AsksLink ==
  ASSUME NEW s, NEW c \in Conns, NEW p, NEW a \in Asks(s, c, p)
  PROVE  a.link \in {conn[c], "closing", "up"}
<1>1. \A w \in Sends(c) : w.link \in {conn[c], "closing", "up"} BY DEF Sends
<1> QED BY <1>1 DEF Asks

\* The reader of c ends its handler by asking for the next block.
LEMMA ReaderAsksRequests ==
  ASSUME NoSendWaits, IInv, RInv, NEW c \in Conns, reader[c].at # "off",
         NEW s, Sound(s), Accounted(s), NEW p \in PeerState, ReaderAsks(c, s, p),
         MainRests, UNCHANGED active, UNCHANGED penalties,
         NoRedial /\ OwedOnce => /\ \A k \in Keys : s.forgotten[k] = {}
                                 /\ OnItsWay(s, [peer EXCEPT ![c] = p], reader)
  PROVE  RInv'
<1>1. PICK a \in Asks(s, c, p) :
        /\ sched' = a.s
        /\ peer' = [peer EXCEPT ![c] = a.p]
        /\ conn' = [conn EXCEPT ![c] = a.link]
        /\ reader' = [reader EXCEPT ![c] =
             IF a.req = NoReq THEN Reading ELSE [Idle EXCEPT !.at = "drain", !.req = a.req]]
  BY DEF ReaderAsks
<1> DEFINE next == IF a.req = NoReq THEN Reading ELSE [Idle EXCEPT !.at = "drain", !.req = a.req]
<1>2. next.at \in {"read", "drain"} BY DEF Reading, Idle
<1>3. reader' = [reader EXCEPT ![c] = next] BY <1>1
<1> HIDE DEF next
<1>4. /\ conn \in [Conns -> Links] /\ peer \in [Conns -> PeerState]
      /\ reader \in [Conns -> ReaderState]
  BY DEF IInv, TypeOK
<1>5. Accounted(a.s) /\ a.s.forgotten = s.forgotten BY AsksAccounted
<1>6. \A d \in Conns : conn'[d] = "new" <=> conn[d] = "new"
  <2>1. conn[c] # "new" BY DEF RInv, Untouched
  <2>2. a.link # "new" BY <2>1, AsksLink
  <2> QED BY <1>1, <1>4, <2>1, <2>2
<1>7. ASSUME NoRedial, OwedOnce PROVE OwedOnce'
  <2> DEFINE P == [peer EXCEPT ![c] = p]
  <2>1. P \in [Conns -> PeerState] /\ P[c] = p /\ [P EXCEPT ![c] = a.p] = [peer EXCEPT ![c] = a.p]
    BY <1>4
  <2>2. OnItsWay(s, P, reader) BY <1>7
  <2> HIDE DEF P
  <2>3. OnItsWay(a.s, [P EXCEPT ![c] = a.p], reader) BY <2>1, <2>2, AsksOnItsWay
  <2>4. \A d \in Conns : reader'[d].at # "off" => reader[d].at # "off" BY <1>2, <1>3, <1>4
  <2>5. OnItsWay(a.s, [P EXCEPT ![c] = a.p], reader') BY <2>3, <2>4, OtherReaders
  <2>6. \A d \in Conns : reader'[d].at = "ban" => Silenced(d)'
    BY <1>1, <1>2, <1>3, <1>4, <1>7 DEF OwedOnce, Silenced
  <2>7. main'.at # "shut" /\ \A k \in Keys : sched'.forgotten[k] = {}
    BY <1>1, <1>5, <1>7 DEF OwedOnce, MainRests
  <2>8. OnItsWay(sched, peer, reader)' BY <1>1, <2>1, <2>5
  <2> QED BY <2>6, <2>7, <2>8 DEF OwedOnce
<1>8. timeouts' = timeouts BY DEF penalties
<1>9. Accounted(sched') BY <1>1, <1>5
<1> QED BY <1>1, <1>3, <1>6, <1>7, <1>8, <1>9, ReaderMovesRequests

\* A block has arrived: it is not in flight any more.
LEMMA ReceivedAccounted ==
  ASSUME IInv, Accounted(sched), NEW r \in Requests, NEW d \in Data,
         NEW got, got = Received(r, d)
  PROVE  /\ Sound(got) /\ got \in Scheduling /\ Accounted(got)
         /\ got.owner = [sched.owner EXCEPT ![r] = NoKey]
         /\ got.current = sched.current /\ got.forgotten = sched.forgotten
<1> DEFINE t == DropPending(sched, {r})
<1>1. t = DropPending(sched, {r}) /\ got = AddBlock(t, r, d) BY DEF Received
<1> HIDE DEF t
<1>2. sched \in Scheduling /\ Placed(sched) BY DEF IInv, Sound, Placed
<1>3. t \in Scheduling BY <1>1, <1>2, DropSound DEF Placed
<1>4. Counted(sched) /\ {r} \in SUBSET Requests BY DEF Accounted
<1>5. /\ t.owner = [q \in Requests |-> IF q \in {r} THEN NoKey ELSE sched.owner[q]]
      /\ t.current = sched.current /\ t.forgotten = sched.forgotten
  BY <1>1, <1>2, <1>4, DropCounted
<1>6. Accounted(t) BY <1>1, <1>2, <1>4, DropAccounted
<1>7. Accounted(got) /\ got.owner = t.owner /\ got.current = t.current /\ got.forgotten = t.forgotten
  BY <1>1, <1>3, <1>5, <1>6, AddBlockAccounted
<1>8. t.owner = [sched.owner EXCEPT ![r] = NoKey]
  BY <1>2, <1>5 DEF Scheduling
<1>9. Sound(got) BY ReceivedSound DEF IInv
<1> QED BY <1>5, <1>7, <1>8, <1>9 DEF Sound, Placed

\* The answer that has arrived was the only one to its request, and to a request of its
\* own peer for the piece that this peer works on.
LEMMA ReceivedOnItsWay ==
  ASSUME IInv, Accounted(sched), NoRedial, OwedOnce, NEW c \in Conns, NEW r \in Requests,
         NEW d \in Data, Owed(c, r), NEW got, got = Received(r, d)
  PROVE  /\ OnItsWay(got, [peer EXCEPT ![c] = Answered(c, r)], reader)
         /\ \A k \in Keys : got.forgotten[k] = {}
         /\ r[1] = got.current[KeyOf[c]]
<1>1. /\ got.owner = [sched.owner EXCEPT ![r] = NoKey]
      /\ got.current = sched.current /\ got.forgotten = sched.forgotten
  BY ReceivedAccounted
<1>2. /\ peer \in [Conns -> PeerState] /\ peer[c].asked \in [Requests -> 0..MaxAsked]
      /\ sched.owner \in [Requests -> Keys \cup {NoKey}]
  BY DEF IInv, TypeOK, PeerState, Scheduling
<1>3. reader[c].at # "off" /\ peer[c].asked[r] > 0 BY DEF Owed
<1>4. sched.owner[r] = KeyOf[c] /\ peer[c].asked[r] = 1 BY <1>3 DEF OwedOnce, OnItsWay
<1>5. KeyOf[c] \in Keys BY ConnsAssumption
<1>6. r[1] = sched.current[KeyOf[c]]
  BY <1>4, <1>5, KeysAssumption DEF OwedOnce, Accounted, InFlightOfPiece
<1> DEFINE P == [peer EXCEPT ![c] = Answered(c, r)]
<1>7. P[c].asked = [peer[c].asked EXCEPT ![r] = 0]
  <2>1. Answered(c, r).asked = [peer[c].asked EXCEPT ![r] = peer[c].asked[r] - 1]
    BY <1>2 DEF Answered, PeerState
  <2> QED BY <1>2, <1>4, <2>1
<1>8. \A e \in Conns \ {c} : P[e] = peer[e] OBVIOUS
<1> HIDE DEF P
<1>9. OnItsWay(got, P, reader)
  <2> SUFFICES ASSUME NEW e \in Conns, NEW q \in Requests, reader[e].at # "off", P[e].asked[q] > 0
               PROVE  got.owner[q] = KeyOf[e] /\ P[e].asked[q] = 1
    BY DEF OnItsWay
  <2>1. CASE q = r
    <3>1. e # c BY <1>2, <1>7, <2>1
    <3>2. sched.owner[r] = KeyOf[e] BY <1>8, <2>1, <3>1 DEF OwedOnce, OnItsWay
    <3> QED BY <1>4, <3>1, <3>2 DEF NoRedial
  <2>2. CASE q # r
    <3>1. P[e].asked[q] = peer[e].asked[q] BY <1>2, <1>7, <1>8, <2>2
    <3>2. got.owner[q] = sched.owner[q] BY <1>1, <1>2, <2>2
    <3> QED BY <3>1, <3>2 DEF OwedOnce, OnItsWay
  <2> QED BY <2>1, <2>2
<1> QED BY <1>1, <1>6, <1>9 DEF P, OwedOnce

\* _handle_message: UNCHOKE.
LEMMA UnchokeRequests ==
  ASSUME NoSendWaits, IInv, RInv, NEW c \in Conns, Unchoke(c)
  PROVE  RInv'
<1> DEFINE p == [peer[c] EXCEPT !.choking = FALSE]
<1>1. peer \in [Conns -> PeerState] /\ p \in PeerState /\ p.asked = peer[c].asked
  BY DEF IInv, TypeOK, PeerState
<1>2. reader[c].at # "off" /\ ReaderAsks(c, sched, p) BY DEF Unchoke
<1> HIDE DEF p
<1>3. OwedOnce => OnItsWay(sched, [peer EXCEPT ![c] = p], reader)
  BY <1>1 DEF OwedOnce, OnItsWay
<1>4. OwedOnce => \A k \in Keys : sched.forgotten[k] = {} BY DEF OwedOnce
<1>5. Sound(sched) /\ Accounted(sched) BY DEF IInv, RInv
<1> QED BY <1>1, <1>2, <1>3, <1>4, <1>5, ReaderAsksRequests DEF Unchoke

\* A message after which the peer owes no more than before.
LEMMA OwesLessRequests ==
  ASSUME IInv, RInv, NEW c \in Conns, reader[c].at = "read",
         NEW p, peer' = [peer EXCEPT ![c] = p],
         \A r \in Requests : p.asked[r] \in {peer[c].asked[r], 0},
         UNCHANGED <<sched, conn, reader, active>>, MainRests, UNCHANGED timeouts
  PROVE  RInv'
<1>1. peer \in [Conns -> PeerState] /\ reader \in [Conns -> ReaderState] BY DEF IInv, TypeOK
<1>2. OwedOnce => OwedOnce'
  <2> SUFFICES ASSUME OwedOnce PROVE OwedOnce' OBVIOUS
  <2>1. OnItsWay(sched, peer, reader)' BY <1>1 DEF OwedOnce, OnItsWay
  <2>2. \A d \in Conns : reader'[d].at = "ban" => Silenced(d)'
    BY <1>1 DEF OwedOnce, Silenced
  <2> QED BY <2>1, <2>2 DEF OwedOnce, MainRests
<1>3. reader' = [reader EXCEPT ![c] = reader[c]] BY <1>1
<1>4. Accounted(sched') BY DEF RInv
<1>5. \A d \in Conns : conn'[d] = "new" <=> conn[d] = "new" OBVIOUS
<1> QED BY <1>2, <1>3, <1>4, <1>5, ReaderMovesRequests

\* _handle_message: CHOKE, BITFIELD and HAVE; a block of a complete piece.
LEMMA AboutPeerRequests ==
  ASSUME IInv, RInv, NEW c \in Conns,
         \/ Choke(c) \/ Bitfield(c) \/ (\E i \in Pieces : Have(c, i))
         \/ \E r \in Requests : DeliverLate(c, r)
  PROVE  RInv'
<1>1. peer \in [Conns -> PeerState] BY DEF IInv, TypeOK
<1> DEFINE Said(p) == peer' = [peer EXCEPT ![c] = p]
<1>2. CASE Choke(c)
  <2> DEFINE p == [peer[c] EXCEPT !.choking = TRUE, !.asked = [r \in Requests |-> 0]]
  <2>1. Said(p) /\ \A r \in Requests : p.asked[r] \in {peer[c].asked[r], 0}
    BY <1>1, <1>2 DEF Choke, PeerState
  <2>2. /\ reader[c].at = "read" /\ UNCHANGED <<sched, conn, reader, active>> /\ MainRests
        /\ timeouts' = timeouts
    BY <1>2 DEF Choke, penalties
  <2> HIDE DEF p
  <2> QED BY <2>1, <2>2, OwesLessRequests
<1>3. CASE Bitfield(c)
  <2> DEFINE p == [peer[c] EXCEPT !.known = TRUE, !.bits = BitsOf[c],
                                  !.interested = BitsOf[c] \ sched.done # {}]
  <2>1. Said(p) /\ p.asked = peer[c].asked BY <1>1, <1>3 DEF Bitfield, PeerState
  <2> HIDE DEF p
  <2> QED BY <1>3, <2>1, OwesLessRequests DEF Bitfield, penalties
<1>4. ASSUME NEW i \in Pieces, Have(c, i) PROVE RInv'
  <2> DEFINE p == [peer[c] EXCEPT !.bits = peer[c].bits \cup {i}]
  <2>1. Said(p) /\ p.asked = peer[c].asked BY <1>1, <1>4 DEF Have, PeerState
  <2> HIDE DEF p
  <2> QED BY <1>4, <2>1, OwesLessRequests DEF Have, penalties
<1>5. ASSUME NEW r \in Requests, DeliverLate(c, r) PROVE RInv'
  <2>1. reader[c].at = "read" /\ peer[c].asked[r] > 0 /\ peer[c].asked \in [Requests -> 0..MaxAsked]
    BY <1>1, <1>5 DEF DeliverLate, Owed, PeerState
  <2> DEFINE p == Answered(c, r)
  <2>2. p.asked = [peer[c].asked EXCEPT ![r] = peer[c].asked[r] - 1]
    BY <1>1 DEF Answered, PeerState
  <2>3. Said(p) /\ UNCHANGED <<sched, conn, reader, active, completed>> /\ MainRests
        /\ UNCHANGED penalties
    BY <1>5 DEF DeliverLate
  <2> HIDE DEF p
  <2>4. NoRedial /\ OwedOnce => OwedOnce'
    <3> SUFFICES ASSUME OwedOnce PROVE OwedOnce' OBVIOUS
    <3>1. peer[c].asked[r] = 1 BY <2>1 DEF OwedOnce, OnItsWay
    <3>2. \A q \in Requests : p.asked[q] \in {peer[c].asked[q], 0} BY <2>1, <2>2, <3>1
    <3>3. OnItsWay(sched, peer, reader)' BY <1>1, <2>3, <3>2 DEF OwedOnce, OnItsWay
    <3>4. \A d \in Conns : reader'[d].at = "ban" => Silenced(d)'
      BY <1>1, <2>1, <2>3 DEF OwedOnce, Silenced
    <3> QED BY <2>3, <3>3, <3>4 DEF OwedOnce, MainRests
  <2>5. reader \in [Conns -> ReaderState] BY DEF IInv, TypeOK
  <2>6. reader' = [reader EXCEPT ![c] = reader[c]] BY <2>3, <2>5
  <2>7. Accounted(sched') BY <2>3 DEF RInv
  <2>8. \A d \in Conns : conn'[d] = "new" <=> conn[d] = "new" BY <2>3
  <2>9. timeouts' = timeouts /\ active' \subseteq active BY <2>3 DEF penalties
  <2> QED BY <2>1, <2>3, <2>4, <2>6, <2>7, <2>8, <2>9, ReaderMovesRequests
<1> QED BY <1>2, <1>3, <1>4, <1>5

\* _handle_piece_data for a block that leaves its piece incomplete.
LEMMA DeliverBlockRequests ==
  ASSUME NoSendWaits, IInv, RInv, NEW c \in Conns, NEW r \in Requests,
         NEW d \in DataFrom(c), DeliverBlock(c, r, d)
  PROVE  RInv'
<1> DEFINE got == Received(r, d)
<1>1. /\ Owed(c, r) /\ reader[c].at # "off" /\ peer[c].asked[r] > 0
      /\ ReaderAsks(c, got, Answered(c, r))
      /\ MainRests /\ UNCHANGED active /\ UNCHANGED penalties
  BY DEF DeliverBlock, Owed
<1>2. Answered(c, r) \in PeerState BY <1>1, AnsweredType DEF IInv
<1>3. d \in Data /\ Accounted(sched) /\ got = Received(r, d) BY DataType DEF RInv
<1> HIDE DEF got
<1>4. Sound(got) /\ Accounted(got) BY <1>3, ReceivedAccounted
<1>5. NoRedial /\ OwedOnce => /\ \A k \in Keys : got.forgotten[k] = {}
                              /\ OnItsWay(got, [peer EXCEPT ![c] = Answered(c, r)], reader)
  BY <1>1, <1>3, ReceivedOnItsWay
<1> QED BY <1>1, <1>2, <1>4, <1>5, ReaderAsksRequests

\* The reader of c waits in the HAVE loop of _handle_piece_data.
LEMMA WaitsForHaveRequests ==
  ASSUME IInv, RInv, NEW c \in Conns, reader[c].at # "off", NEW e \in Fragile,
         NEW s, Accounted(s), NEW p, WaitsForHave(c, e, s, p),
         MainRests, UNCHANGED active, UNCHANGED penalties,
         NoRedial /\ OwedOnce => /\ \A k \in Keys : s.forgotten[k] = {}
                                 /\ OnItsWay(s, [peer EXCEPT ![c] = p], reader)
  PROVE  RInv'
<1> DEFINE next == [Idle EXCEPT !.at = "have", !.on = e]
<1>1. /\ sched' = s /\ peer' = [peer EXCEPT ![c] = p] /\ reader' = [reader EXCEPT ![c] = next]
      /\ \E w \in Sends(e) : conn' = [conn EXCEPT ![e] = w.link]
  BY DEF WaitsForHave
<1>2. next.at = "have" BY DEF Idle
<1> HIDE DEF next
<1>3. /\ conn \in [Conns -> Links] /\ peer \in [Conns -> PeerState]
      /\ reader \in [Conns -> ReaderState] /\ e \in Conns /\ conn[e] = "up"
  BY DEF IInv, TypeOK, Fragile
<1>4. \A d \in Conns : conn'[d] = "new" <=> conn[d] = "new"
  <2>1. PICK w \in Sends(e) : conn' = [conn EXCEPT ![e] = w.link] BY <1>1
  <2>2. w.link \in {"up", "closing"} BY <1>3 DEF Sends
  <2> QED BY <1>3, <2>1, <2>2
<1>5. ASSUME NoRedial, OwedOnce PROVE OwedOnce'
  <2>1. \A d \in Conns : reader'[d].at # "off" => reader[d].at # "off" BY <1>1, <1>2, <1>3
  <2>2. OnItsWay(s, [peer EXCEPT ![c] = p], reader') BY <1>5, <2>1, OtherReaders
  <2>3. OnItsWay(sched, peer, reader)' BY <1>1, <2>2
  <2>4. \A d \in Conns : reader'[d].at = "ban" => Silenced(d)'
    BY <1>1, <1>2, <1>3, <1>5 DEF OwedOnce, Silenced
  <2>5. main'.at # "shut" /\ \A k \in Keys : sched'.forgotten[k] = {}
    BY <1>1, <1>5 DEF OwedOnce, MainRests
  <2> QED BY <2>3, <2>4, <2>5 DEF OwedOnce
<1>6. timeouts' = timeouts /\ Accounted(sched') BY <1>1 DEF penalties
<1> QED BY <1>1, <1>4, <1>5, <1>6, ReaderMovesRequests

\* _handle_piece_data for the last block of a piece that verifies.
LEMMA DeliverPieceRequests ==
  ASSUME NoSendWaits, IInv, RInv, NEW c \in Conns, NEW r \in Requests,
         NEW d \in DataFrom(c), DeliverPiece(c, r, d)
  PROVE  RInv'
<1> DEFINE got == Received(r, d)
           s == WritePiece(got, r[1])
           p == Answered(c, r)
<1>1. /\ Owed(c, r) /\ reader[c].at # "off" /\ peer[c].asked[r] > 0
      /\ Verifies(got, r[1])
      /\ ReaderAsks(c, s, p) \/ \E e \in Fragile : WaitsForHave(c, e, s, p)
      /\ MainRests /\ UNCHANGED active /\ UNCHANGED penalties
  BY DEF DeliverPiece, Owed
<1>2. p \in PeerState BY <1>1, AnsweredType DEF IInv
<1>3. d \in Data /\ Accounted(sched) /\ got = Received(r, d) /\ s = WritePiece(got, r[1])
      /\ p = Answered(c, r) /\ r[1] \in Pieces
  BY DataType DEF RInv, Requests
<1> HIDE DEF got, s, p
<1>4. Sound(got) /\ got \in Scheduling /\ Accounted(got) BY <1>3, ReceivedAccounted
<1>5. Accounted(s) /\ s.owner = got.owner /\ s.forgotten = got.forgotten
  BY <1>1, <1>3, <1>4, WritePieceAccounted
<1>6. Sound(s) BY <1>3, <1>4, WritePieceSound
<1>7. ASSUME NoRedial, OwedOnce
      PROVE  /\ \A k \in Keys : s.forgotten[k] = {}
             /\ OnItsWay(s, [peer EXCEPT ![c] = p], reader)
  <2>1. /\ \A k \in Keys : got.forgotten[k] = {}
        /\ OnItsWay(got, [peer EXCEPT ![c] = p], reader)
    BY <1>1, <1>3, <1>7, ReceivedOnItsWay
  <2> QED BY <1>5, <2>1 DEF OnItsWay
<1>8. CASE ReaderAsks(c, s, p) BY <1>1, <1>2, <1>5, <1>6, <1>7, <1>8, ReaderAsksRequests
<1>9. CASE \E e \in Fragile : WaitsForHave(c, e, s, p)
  BY <1>1, <1>5, <1>7, <1>9, WaitsForHaveRequests
<1> QED BY <1>1, <1>8, <1>9

\* _handle_piece_hash_failure: what the other blocks of the piece were on their way for is
\* gone with their requests, and nothing else is taken from the sender.
LEMMA FailureOnItsWay ==
  ASSUME NEW got, Sound(got), Accounted(got), NEW c \in Conns, NEW i \in Pieces,
         NEW P, NEW R, OnItsWay(got, P, R), \A k \in Keys : got.forgotten[k] = {},
         i = got.current[KeyOf[c]], \A b \in Blocks : got.blocks[i][b] # "none",
         R[c].at # "off", \A r \in Requests : P[c].asked[r] \in Nat,
         NEW s, s = HashFailure(got, KeyOf[c], i)
  PROVE  /\ OnItsWay(s, P, R)
         /\ \A k \in Keys : s.forgotten[k] = {}
         /\ \A r \in Requests : P[c].asked[r] = 0
<1>1. KeyOf[c] \in Keys BY ConnsAssumption
<1>2. /\ s.owner = [r \in Requests |-> IF r[1] = i THEN NoKey ELSE got.owner[r]]
      /\ s.forgotten = [got.forgotten EXCEPT ![KeyOf[c]] = @ \cup ({got.current[KeyOf[c]]} \ {NoPiece, i})]
  BY <1>1, HashFailureAccounted
<1>3. got.forgotten \in [Keys -> SUBSET Pieces] BY DEF Sound, Placed, Scheduling
<1>4. \A k \in Keys : s.forgotten[k] = {} BY <1>1, <1>2, <1>3
<1>5. \A r \in Requests : r[1] = i => got.owner[r] = NoKey BY NothingInFlight DEF Accounted
<1>6. \A d \in Conns : KeyOf[d] # NoKey BY ConnsAssumption, KeysAssumption
<1>7. \A d \in Conns, r \in Requests : R[d].at # "off" /\ P[d].asked[r] > 0 => r[1] # i
  BY <1>5, <1>6 DEF OnItsWay
<1>8. OnItsWay(s, P, R) BY <1>2, <1>7 DEF OnItsWay
<1>9. ASSUME NEW r \in Requests PROVE P[c].asked[r] = 0
  <2>1. SUFFICES ASSUME P[c].asked[r] > 0 PROVE FALSE OBVIOUS
  <2>2. got.owner[r] = KeyOf[c] /\ r[1] # i BY <1>7, <2>1 DEF OnItsWay
  <2>3. r[1] = got.current[KeyOf[c]] BY <1>1, <1>6, <2>2 DEF Accounted, InFlightOfPiece
  <2> QED BY <2>2, <2>3
<1> QED BY <1>4, <1>8, <1>9

\* A disconnect leaves what other peers have on their way.
LEMMA DisconnectedOnItsWay ==
  ASSUME NoRedial, NEW s, Sound(s), Accounted(s), NEW c \in Conns,
         NEW P, NEW R, OnItsWay(s, P, R),
         R[c].at = "off" \/ \A r \in Requests : P[c].asked[r] = 0,
         NEW t, t = Disconnected(s, KeyOf[c])
  PROVE  OnItsWay(t, P, R)
<1>1. KeyOf[c] \in Keys BY ConnsAssumption
<1>2. t.owner = [r \in Requests |-> IF s.owner[r] = KeyOf[c] THEN NoKey ELSE s.owner[r]]
  BY <1>1, DisconnectedAccounted
<1> QED BY <1>2 DEF OnItsWay, NoRedial

\* _handle_piece_data for the last block of a piece that does not verify.
LEMMA DeliverCorruptRequests ==
  ASSUME IInv, RInv, NEW c \in Conns, NEW r \in Requests, NEW d \in DataFrom(c),
         DeliverCorrupt(c, r, d)
  PROVE  RInv'
<1> DEFINE got == Received(r, d)
           k == KeyOf[c]
           s == HashFailure(got, k, r[1])
           p == Answered(c, r)
           away == [Idle EXCEPT !.at = "ban"]
<1>1. /\ Owed(c, r) /\ reader[c].at = "read" /\ peer[c].asked[r] > 0
      /\ Full(got, r[1])
      /\ peer' = [peer EXCEPT ![c] = p]
      /\ \/ /\ sched' = s
            /\ UNCHANGED <<conn, reader, active>>
         \/ /\ sched' = Disconnected(s, k)
            /\ active' = active \ {c}
            /\ UNCHANGED <<conn, reader>>
         \/ /\ sched' = s
            /\ conn' = [conn EXCEPT ![c] = "closing"]
            /\ reader' = [reader EXCEPT ![c] = away]
            /\ UNCHANGED active
      /\ MainRests /\ timeouts' = timeouts
  BY DEF DeliverCorrupt, Owed
<1>2. /\ d \in Data /\ Accounted(sched) /\ got = Received(r, d) /\ s = HashFailure(got, k, r[1])
      /\ k = KeyOf[c] /\ k \in Keys /\ p = Answered(c, r) /\ r[1] \in Pieces
  BY DataType, ConnsAssumption DEF RInv, Requests
<1>3. away.at = "ban" BY DEF Idle
<1>4. p \in PeerState BY <1>1, <1>2, AnsweredType DEF IInv
<1> HIDE DEF got, s, p, k, away
<1>5. Sound(got) /\ Accounted(got) BY <1>2, ReceivedAccounted
<1>6. /\ Sound(s)
      /\ s.done = got.done
      /\ s.blocks = [got.blocks EXCEPT ![r[1]] = [b \in Blocks |-> "none"]]
      /\ s.current = [got.current EXCEPT ![k] = NoPiece]
  BY <1>2, <1>5, HashFailureSound
<1>7. Accounted(s)
  <2>1. /\ Accounted(s)
        /\ s.owner = [q \in Requests |-> IF q[1] = r[1] THEN NoKey ELSE got.owner[q]]
        /\ s.forgotten = [got.forgotten EXCEPT ![k] = @ \cup ({got.current[k]} \ {NoPiece, r[1]})]
    BY <1>2, <1>5, HashFailureAccounted
  <2> QED BY <2>1
<1> DEFINE u == Disconnected(s, k)
<1>8. u = Disconnected(s, k) OBVIOUS
<1> HIDE DEF u
<1>9. /\ Accounted(u) /\ u.forgotten = s.forgotten
      /\ u.owner = [q \in Requests |-> IF s.owner[q] = k THEN NoKey ELSE s.owner[q]]
  BY <1>2, <1>6, <1>7, <1>8, DisconnectedAccounted
<1>10. sched' \in {s, u} BY <1>1, <1>8
<1>11. /\ conn \in [Conns -> Links] /\ reader \in [Conns -> ReaderState]
       /\ peer \in [Conns -> PeerState]
  BY DEF IInv, TypeOK
<1>12. \E n : reader' = [reader EXCEPT ![c] = n]
  <2>1. reader = [reader EXCEPT ![c] = reader[c]] BY <1>11
  <2> QED BY <1>1, <2>1
<1>13. \A e \in Conns : conn'[e] = "new" <=> conn[e] = "new"
  <2>1. conn[c] # "new" BY <1>1 DEF RInv, Untouched
  <2> QED BY <1>1, <1>11, <2>1
<1>14. ASSUME NoRedial, OwedOnce PROVE OwedOnce'
  <2> DEFINE P == [peer EXCEPT ![c] = p]
  <2>1. P = [peer EXCEPT ![c] = p] OBVIOUS
  <2>2. P[c] = p /\ \A e \in Conns \ {c} : P[e] = peer[e] BY <1>11
  <2> HIDE DEF P
  <2>3. /\ OnItsWay(got, P, reader) /\ r[1] = got.current[KeyOf[c]]
        /\ \A m \in Keys : got.forgotten[m] = {}
    <3>1. P = [peer EXCEPT ![c] = Answered(c, r)] BY <1>2, <2>1
    <3>2. /\ OnItsWay(got, [peer EXCEPT ![c] = Answered(c, r)], reader)
          /\ \A m \in Keys : got.forgotten[m] = {}
          /\ r[1] = got.current[KeyOf[c]]
      <4>1. Owed(c, r) /\ d \in Data /\ Accounted(sched) /\ got = Received(r, d) BY <1>1, <1>2
      <4> QED BY <4>1, <1>14, ReceivedOnItsWay
    <3> QED BY <3>1, <3>2
  <2>4. \A b \in Blocks : got.blocks[r[1]][b] # "none" BY <1>1 DEF Full
  <2>5. \A q \in Requests : P[c].asked[q] \in Nat BY <1>4, <2>2, LimitsAssumption DEF PeerState
  <2>6. reader[c].at # "off" BY <1>1
  <2>7. /\ OnItsWay(s, P, reader) /\ \A m \in Keys : s.forgotten[m] = {}
        /\ \A q \in Requests : P[c].asked[q] = 0
    BY <1>2, <1>5, <2>3, <2>4, <2>5, <2>6, FailureOnItsWay
  <2>8. OnItsWay(u, P, reader)
    BY <1>2, <1>6, <1>7, <1>8, <1>14, <2>7, DisconnectedOnItsWay
  <2>9. \A e \in Conns : reader'[e].at # "off" => reader[e].at # "off"
    BY <1>1, <1>3, <1>11
  <2>10. OnItsWay(s, P, reader') /\ OnItsWay(u, P, reader')
    BY <2>7, <2>8, <2>9, OtherReaders
  <2>11. OnItsWay(sched, peer, reader)' BY <1>1, <1>10, <2>1, <2>10
  <2>12. \A e \in Conns : reader'[e].at = "ban" => Silenced(e)'
    BY <1>1, <1>11, <1>14, <2>1, <2>2, <2>7 DEF OwedOnce, Silenced
  <2>13. main'.at # "shut" /\ \A m \in Keys : sched'.forgotten[m] = {}
    BY <1>1, <1>9, <1>10, <1>14, <2>7 DEF OwedOnce, MainRests
  <2> QED BY <2>11, <2>12, <2>13 DEF OwedOnce
<1>15. Accounted(sched') BY <1>7, <1>9, <1>10
<1>16. active' \subseteq active BY <1>1
<1>17. reader[c].at # "off" BY <1>1
<1> QED BY <1>1, <1>12, <1>13, <1>14, <1>15, <1>16, <1>17, ReaderMovesRequests

\* A disconnect is over: nothing of the peer is in flight any more.
LEMMA GoneRequests ==
  ASSUME IInv, RInv, NEW c \in Conns, reader[c].at # "off", Gone(c),
         NEW next, reader' = [reader EXCEPT ![c] = next], next.at \in {"off", "read"},
         next.at = "off" \/ reader[c].at = "ban",
         UNCHANGED peer, MainRests, UNCHANGED timeouts
  PROVE  RInv'
<1>1. /\ conn \in [Conns -> Links] /\ reader \in [Conns -> ReaderState]
      /\ peer \in [Conns -> PeerState] /\ KeyOf[c] \in Keys
  BY ConnsAssumption DEF IInv, TypeOK
<1>2. sched' = Disconnected(sched, KeyOf[c]) /\ active' = active \ {c}
      /\ conn' = [conn EXCEPT ![c] = "down"]
  BY DEF Gone
<1>3. Sound(sched) /\ Accounted(sched) BY DEF IInv, RInv
<1> DEFINE t == Disconnected(sched, KeyOf[c])
<1>t. t = Disconnected(sched, KeyOf[c]) OBVIOUS
<1> HIDE DEF t
<1>a. /\ Accounted(t) /\ t.forgotten = sched.forgotten
      /\ t.owner = [r \in Requests |-> IF sched.owner[r] = KeyOf[c] THEN NoKey ELSE sched.owner[r]]
  BY <1>1, <1>3, <1>t, DisconnectedAccounted
<1>4. Accounted(sched') /\ sched'.forgotten = sched.forgotten BY <1>2, <1>t, <1>a
<1>5. \A e \in Conns : conn'[e] = "new" <=> conn[e] = "new"
  <2>1. conn[c] # "new" BY DEF RInv, Untouched
  <2> QED BY <1>1, <1>2, <2>1
<1>6. ASSUME NoRedial, OwedOnce PROVE OwedOnce'
  <2>1. \A e \in Conns : reader'[e].at # "off" => reader[e].at # "off" BY <1>1
  <2>2. OnItsWay(sched, peer, reader') BY <1>6, <2>1, OtherReaders DEF OwedOnce
  <2>3. reader'[c].at = "off" \/ \A r \in Requests : peer[c].asked[r] = 0
    BY <1>1, <1>6 DEF OwedOnce, Silenced
  <2>4. OnItsWay(sched', peer, reader')
    BY <1>2, <1>3, <1>6, <2>2, <2>3, DisconnectedOnItsWay
  <2>5. OnItsWay(sched, peer, reader)' BY <2>4
  <2>6. \A e \in Conns : reader'[e].at = "ban" => Silenced(e)'
    BY <1>1, <1>2, <1>6 DEF OwedOnce, Silenced
  <2>7. main'.at # "shut" /\ \A k \in Keys : sched'.forgotten[k] = {}
    BY <1>4, <1>6 DEF OwedOnce, MainRests
  <2> QED BY <2>5, <2>6, <2>7 DEF OwedOnce
<1>7. peer' = [peer EXCEPT ![c] = peer[c]] BY <1>1
<1>8. active' \subseteq active BY <1>2
<1> QED BY <1>4, <1>5, <1>6, <1>7, <1>8, ReaderMovesRequests

\* A read loop that ends disconnects first.
LEMMA LeaveLoopRequests ==
  ASSUME IInv, RInv, NEW c \in Conns, reader[c].at # "off", LeaveLoop(c),
         UNCHANGED peer, MainRests, UNCHANGED timeouts
  PROVE  RInv'
<1>1. CASE Gone(c) /\ reader' = [reader EXCEPT ![c] = Idle]
  <2>1. Idle.at = "off" BY DEF Idle
  <2> QED BY <1>1, <2>1, GoneRequests
<1>2. CASE /\ conn[c] # "down"
           /\ conn' = [conn EXCEPT ![c] = "closing"]
           /\ reader' = [reader EXCEPT ![c] = [Idle EXCEPT !.at = "close"]]
           /\ UNCHANGED <<sched, active>>
  <2> DEFINE next == [Idle EXCEPT !.at = "close"]
  <2>1. next.at = "close" /\ reader' = [reader EXCEPT ![c] = next] BY <1>2 DEF Idle
  <2> HIDE DEF next
  <2>2. /\ conn \in [Conns -> Links] /\ reader \in [Conns -> ReaderState]
        /\ peer \in [Conns -> PeerState]
    BY DEF IInv, TypeOK
  <2>3. \A e \in Conns : conn'[e] = "new" <=> conn[e] = "new"
    <3>1. conn[c] # "new" BY DEF RInv, Untouched
    <3> QED BY <1>2, <2>2, <3>1
  <2>4. ASSUME OwedOnce PROVE OwedOnce'
    <3>1. \A e \in Conns : reader'[e].at # "off" => reader[e].at # "off" BY <2>1, <2>2
    <3>2. OnItsWay(sched, peer, reader') BY <2>4, <3>1, OtherReaders DEF OwedOnce
    <3>3. \A e \in Conns : reader'[e].at = "ban" => reader[e].at = "ban" BY <2>1, <2>2
    <3> QED BY <1>2, <2>4, <3>2, <3>3 DEF OwedOnce, Silenced, MainRests
  <2>5. peer' = [peer EXCEPT ![c] = peer[c]] BY <2>2
  <2>6. Accounted(sched') /\ active' \subseteq active BY <1>2 DEF RInv
  <2> QED BY <2>1, <2>3, <2>4, <2>5, <2>6, ReaderMovesRequests
<1> QED BY <1>1, <1>2 DEF LeaveLoop

\* What the read loop of c does, on its own or with a message.
LEMMA ReaderRequests ==
  ASSUME NoSendWaits, IInv, RInv, NEW c \in Conns, ReaderStep(c) \/ MessageStep(c)
  PROVE  RInv'
<1>1. CASE RequestSent(c) BY <1>1 DEF RequestSent, DrainReturns, NoSendWaits
<1>2. CASE HaveSent(c) BY <1>2 DEF HaveSent, DrainReturns, NoSendWaits, IInv, Suspended
<1>3. CASE ReaderSendFails(c) BY <1>3, LeaveLoopRequests DEF ReaderSendFails, penalties
<1>4. CASE ReaderExit(c) BY <1>4, LeaveLoopRequests DEF ReaderExit, penalties
<1>5. CASE BanDone(c)
  <2>1. Reading.at = "read" BY DEF Reading, Idle
  <2> QED BY <1>5, <2>1, GoneRequests DEF BanDone, penalties
<1>6. CASE CloseDone(c)
  <2>1. Idle.at = "off" BY DEF Idle
  <2> QED BY <1>6, <2>1, GoneRequests DEF CloseDone, penalties
<1>7. CASE MessageStep(c)
  <2>1. ASSUME NEW r \in Requests, NEW d \in DataFrom(c), Deliver(c, r, d) PROVE RInv'
    BY <2>1, DeliverBlockRequests, DeliverPieceRequests, DeliverCorruptRequests DEF Deliver
  <2> QED BY <1>7, <2>1, UnchokeRequests, AboutPeerRequests DEF MessageStep
<1> QED BY <1>1, <1>2, <1>3, <1>4, <1>5, <1>6, <1>7 DEF ReaderStep

-------------------------------------------------------------------------------
(* The main task *)

\* The inner loop of connect_to_peers takes a peer out of the pool before it dials it.
LEMMA DialOrNapToDial ==
  ASSUME main \in MainState, NEW S, NEW up, DialOrNap(S, up), \A c \in S : conn'[c] = "new"
  PROVE  ToDial' /\ main'.at \in {"dial", "nap"}
<1>1. ASSUME NEW c \in S, pool' = S \ {c}, main' = [main EXCEPT !.at = "dial", !.on = c]
      PROVE  ToDial' /\ main'.at = "dial"
  <2>1. main'.at = "dial" /\ main'.on = c BY <1>1 DEF MainState
  <2> QED BY <1>1, <2>1 DEF ToDial
<1>2. CASE pool' = S /\ main' = [main EXCEPT !.at = "nap", !.on = NoConn]
  <2>1. main'.at = "nap" BY <1>2 DEF MainState
  <2> QED BY <1>2, <2>1 DEF ToDial
<1> QED BY <1>1, <1>2 DEF DialOrNap

\* The main loop tests, and download() may return.
LEMMA MainTestAt ==
  ASSUME main \in MainState, NEW done, MainTest(done) \/ Finish(done)
  PROVE  main'.at \in {"sleep", "end", "error"}
<1>1. main'.at \in {"sleep", "end", "error"} \/ Finish(done)
  BY DEF MainTest, MainState
<1>2. Finish(done) => main'.at \in {"end", "error"} BY DEF Finish, MainState
<1> QED BY <1>1, <1>2

\* connect_to_peers, from the test of its outer loop.
LEMMA ConnectLoopToDial ==
  ASSUME main \in MainState, NEW S, NEW up, ConnectLoop(S, up), \A c \in S : conn'[c] = "new"
  PROVE  ToDial' /\ main'.at # "shut"
<1>1. CASE DialOrNap(S, up) BY <1>1, DialOrNapToDial
<1>2. CASE pool' = S /\ MainTest(completed')
  <2>1. main'.at \in {"sleep", "end", "error"} BY <1>2, MainTestAt
  <2> QED BY <1>2, <2>1 DEF ToDial
<1> QED BY <1>1, <1>2 DEF ConnectLoop

\* The steps of connect_to_peers other than a dial that succeeds.
LEMMA ConnectRequests ==
  ASSUME IInv, RInv, (\E A \in Answers : PeersFound(A)) \/ DialFails \/ DialRaises \/ NapOver
  PROVE  RInv'
<1>1. main \in MainState /\ conn \in [Conns -> Links] BY DEF IInv, TypeOK
<1>2. ASSUME NEW A \in Answers, PeersFound(A) PROVE RInv'
  <2>1. /\ ReadersRest /\ UNCHANGED reader /\ ~Ended /\ conn' = conn /\ active' = active
    BY <1>2 DEF PeersFound, Ended
  <2>2. ToDial' /\ main'.at # "shut"
    <3>1. CASE ConnectLoop(Found(A), active)
      <4>1. \A c \in Found(A) : conn'[c] = "new" BY <2>1 DEF Found
      <4> QED BY <1>1, <3>1, <4>1, ConnectLoopToDial
    <3>2. CASE main' = [main EXCEPT !.at = "end"] /\ pool' = pool
      <4>1. main'.at = "end" BY <1>1, <3>2 DEF MainState
      <4> QED BY <2>1, <3>2, <4>1 DEF ToDial, RInv
    <3> QED BY <1>2, <3>1, <3>2 DEF PeersFound
  <2> QED BY <2>1, <2>2, MainMovesRequests
<1>3. CASE DialFails \/ DialRaises
  <2>1. /\ ReadersRest /\ UNCHANGED reader /\ ~Ended /\ active' = active
        /\ conn' = [conn EXCEPT ![main.on] = "down"]
    BY <1>3 DEF DialFails, DialRaises, Ended
  <2>2. /\ main.on \in Conns /\ conn[main.on] = "new" /\ main.on \notin pool
        /\ \A c \in pool : c \in Conns /\ conn[c] = "new"
    BY <1>3 DEF IInv, Suspended, TypeOK, DialFails, DialRaises, RInv, ToDial
  <2>3. \A c \in pool : conn'[c] = "new" BY <1>1, <2>1, <2>2
  <2>4. \A c \in Conns : conn'[c] = "new" => conn[c] = "new" BY <1>1, <2>1
  <2>5. ToDial' /\ main'.at # "shut"
    <3>1. CASE DialFails BY <1>1, <2>3, <3>1, DialOrNapToDial DEF DialFails
    <3>2. CASE DialRaises
      <4>1. main'.at = "error" /\ pool' = pool BY <1>1, <3>2 DEF DialRaises, MainState
      <4> QED BY <2>3, <4>1 DEF ToDial
    <3> QED BY <1>3, <3>1, <3>2
  <2> QED BY <2>1, <2>4, <2>5, MainMovesRequests
<1>4. CASE NapOver
  <2>1. /\ ReadersRest /\ UNCHANGED reader /\ ~Ended /\ conn' = conn /\ active' \subseteq active
        /\ ConnectLoop(pool, active')
    BY <1>4 DEF NapOver, Ended
  <2>2. \A c \in pool : conn'[c] = "new" BY <2>1 DEF RInv, ToDial
  <2>3. ToDial' /\ main'.at # "shut" BY <1>1, <2>1, <2>2, ConnectLoopToDial
  <2> QED BY <2>1, <2>3, MainMovesRequests
<1> QED BY <1>2, <1>3, <1>4

\* The connection that is up now has never asked for anything.
LEMMA DialOkRequests ==
  ASSUME IInv, RInv, DialOk
  PROVE  RInv'
<1>1. /\ main \in MainState /\ conn \in [Conns -> Links] /\ reader \in [Conns -> ReaderState]
  BY DEF IInv, TypeOK
<1>2. /\ main.on \in Conns /\ conn[main.on] = "new" /\ main.on \notin pool
      /\ \A c \in pool : c \in Conns /\ conn[c] = "new"
  BY DEF IInv, Suspended, TypeOK, DialOk, RInv, ToDial
<1>3. /\ active' = active \cup {main.on} /\ conn' = [conn EXCEPT ![main.on] = "up"]
      /\ reader' = [reader EXCEPT ![main.on] = Reading]
      /\ DialOrNap(pool, active') /\ sched' = sched /\ peer' = peer /\ timeouts' = timeouts
      /\ ~Ended
  BY DEF DialOk, ReadersRest, Ended
<1>4. Reading.at = "read" BY DEF Reading, Idle
<1>5. \A r \in Requests : peer[main.on].asked[r] = 0 BY <1>2 DEF RInv, Untouched
<1>6. \A c \in pool : conn'[c] = "new" BY <1>1, <1>2, <1>3
<1>7. ToDial' /\ main'.at \in {"dial", "nap"} BY <1>1, <1>3, <1>6, DialOrNapToDial
<1>8. Accounted(sched)' BY <1>3 DEF RInv
<1>9. Untouched' BY <1>1, <1>2, <1>3 DEF RInv, Untouched
<1>10. NoRedial' /\ Fresh' => OwedOnce'
  <2> SUFFICES ASSUME NoRedial, Fresh' PROVE OwedOnce' BY DEF NoRedial
  <2>1. OwedOnce BY <1>3, FreshBefore DEF RInv
  <2>2. \A c \in Conns, r \in Requests : reader'[c].at # "off" /\ peer'[c].asked[r] > 0 => c # main.on
    BY <1>3, <1>5
  <2>3. OnItsWay(sched, peer, reader)'
    BY <1>1, <1>3, <2>1, <2>2 DEF OwedOnce, OnItsWay
  <2>4. \A c \in Conns : reader'[c].at = "ban" => reader[c].at = "ban" /\ c # main.on
    BY <1>1, <1>2, <1>3, <1>4
  <2> QED BY <1>1, <1>2, <1>3, <1>7, <2>1, <2>3, <2>4 DEF OwedOnce, Silenced
<1> QED BY <1>7, <1>8, <1>9, <1>10 DEF RInv

\* A round of the main loop, where it touches no request; the end of the job; a lost
\* connection.
LEMMA RoundRequests ==
  ASSUME IInv, RInv,
         \/ SleepOver \/ ExpireDone \/ PollRaises \/ TrackerRaises \/ PollDone \/ Stop
         \/ \E c \in Conns : Drop(c)
  PROVE  RInv'
<1>1. main \in MainState /\ conn \in [Conns -> Links] /\ pool \subseteq Conns BY DEF IInv, TypeOK
<1>2. /\ ReadersRest /\ UNCHANGED <<reader, active, pool>>
  BY DEF SleepOver, ExpireDone, PollRaises, TrackerRaises, PollDone, Stop, Drop
<1>3. CASE SleepOver \/ ExpireDone \/ PollRaises \/ TrackerRaises \/ PollDone \/ Stop
  <2>1. conn' = conn /\ ~Ended
    BY <1>3 DEF SleepOver, ExpireDone, PollRaises, TrackerRaises, PollDone, Stop, Ended
  <2>2. main'.at \in {"expire", "poll", "error", "peers", "sleep", "end"}
    <3>1. CASE PollDone
      <4>1. CASE Finish(TRUE) \/ MainTest(completed) BY <1>1, <4>1, MainTestAt
      <4>2. CASE main' = [main EXCEPT !.at = "peers", !.again = TRUE] BY <1>1, <4>2 DEF MainState
      <4> QED BY <3>1, <4>1, <4>2 DEF PollDone
    <3>2. CASE SleepOver \/ ExpireDone \/ PollRaises \/ TrackerRaises \/ Stop
      BY <1>1, <3>2 DEF SleepOver, ExpireDone, PollRaises, TrackerRaises, Stop, MainState
    <3> QED BY <1>3, <3>1, <3>2
  <2>3. ToDial' BY <1>2, <2>1, <2>2 DEF RInv, ToDial
  <2> QED BY <1>2, <2>1, <2>2, <2>3, MainMovesRequests
<1>4. ASSUME NEW c \in Conns, Drop(c) PROVE RInv'
  <2>1. main' = main /\ conn[c] = "up" /\ conn' = [conn EXCEPT ![c] = "closing"] BY <1>4 DEF Drop
  <2>2. \A e \in Conns : conn'[e] = "new" <=> conn[e] = "new" BY <1>1, <2>1
  <2>3. ToDial' BY <1>1, <1>2, <2>1, <2>2 DEF RInv, ToDial, IInv, Suspended
  <2>4. Ended => Ended' BY <2>1 DEF Ended
  <2> QED BY <1>2, <2>1, <2>2, <2>3, <2>4, MainMovesRequests
<1> QED BY <1>3, <1>4

\* A request has timed out: the job is not fresh any more.
LEMMA ExpireRequests ==
  ASSUME IInv, RInv, NEW r \in Requests, NEW k \in Keys, Expire(r, k)
  PROVE  RInv'
<1> DEFINE late == IF timeouts[k] < MaxTimeouts THEN timeouts[k] + 1 ELSE MaxTimeouts
           s == DropPending(sched, {r})
           u == Disconnected(s, k)
           rest == [main EXCEPT !.expired = @ \ {<<r, k>>}]
<1>1. /\ main \in MainState /\ conn \in [Conns -> Links] /\ pool \subseteq Conns /\ active \subseteq Conns
      /\ timeouts \in [Keys -> 0..MaxTimeouts]
  BY DEF IInv, TypeOK
<1>2. /\ main.at = "expire" /\ timeouts' = [timeouts EXCEPT ![k] = late]
      /\ UNCHANGED <<peer, reader, pool>>
      /\ \/ main' = rest /\ sched' = s /\ UNCHANGED <<conn, active>>
         \/ \E c \in active :
              \/ /\ main' = rest /\ sched' = u
                 /\ active' = active \ {c} /\ UNCHANGED conn
              \/ /\ main' = [rest EXCEPT !.at = "shut", !.on = c] /\ sched' = s
                 /\ conn' = [conn EXCEPT ![c] = "closing"] /\ UNCHANGED active
  BY DEF Expire
<1>3. late # 0 BY <1>1, LimitsAssumption
<1>4. s = DropPending(sched, {r}) /\ u = Disconnected(s, k) OBVIOUS
<1>5. rest \in MainState /\ rest.at = "expire" BY <1>1, <1>2 DEF MainState
<1> HIDE DEF late, s, u, rest
<1>6. Accounted(s)
  <2>1. sched \in Scheduling /\ Accounted(sched) /\ {r} \in SUBSET Requests
    BY DEF IInv, TypeOK, RInv
  <2> QED BY <1>4, <2>1, DropAccounted
<1>7. Sound(s)
  <2>1. Placed(s) /\ SamePlaces(sched, s) BY <1>4, DropSound DEF IInv, Sound
  <2> QED BY <2>1, SamePlacesSound DEF IInv
<1>8. /\ Accounted(u) /\ u.forgotten = s.forgotten
      /\ u.owner = [q \in Requests |-> IF s.owner[q] = k THEN NoKey ELSE s.owner[q]]
  <2>1. u = Disconnected(s, k) BY <1>4
  <2> QED BY ONLY <1>6, <1>7, <2>1, k \in Keys, DisconnectedAccounted
<1>9. sched' = s \/ sched' = u BY <1>2
<1>10. Accounted(sched') BY <1>6, <1>8, <1>9
<1>11. timeouts'[k] # 0 BY <1>1, <1>2, <1>3
<1>12. ~Fresh' BY <1>11 DEF Fresh
<1>13. \A c \in Conns : conn'[c] = "new" <=> conn[c] = "new"
  <2>1. ASSUME NEW c \in active, conn' = [conn EXCEPT ![c] = "closing"] PROVE <1>13
    <3>1. conn[c] # "new" BY <1>1 DEF RInv, Untouched
    <3> QED BY <1>1, <2>1, <3>1
  <2> QED BY <1>2, <2>1
<1>14. /\ active' \subseteq active /\ main'.at \in {"expire", "shut"}
       /\ main'.at = "shut" => conn'[main'.on] # "new"
  <2>1. CASE main' = rest BY <1>2, <1>5, <2>1
  <2>2. ASSUME NEW c \in active, main' = [rest EXCEPT !.at = "shut", !.on = c],
               conn' = [conn EXCEPT ![c] = "closing"]
        PROVE  main'.at = "shut" /\ conn'[main'.on] # "new"
    BY <1>1, <1>5, <2>2 DEF MainState
  <2> QED BY <1>2, <1>5, <2>1, <2>2
<1>15. Untouched' BY <1>2, <1>13, <1>14 DEF RInv, Untouched
<1>16. ToDial' BY <1>1, <1>2, <1>13, <1>14 DEF RInv, ToDial
<1> QED BY <1>10, <1>12, <1>15, <1>16 DEF RInv

\* A disconnect of _check_request_timeouts comes after a timeout.
LEMMA ShutRequests ==
  ASSUME IInv, RInv, Shut
  PROVE  RInv'
<1>1. /\ main \in MainState /\ conn \in [Conns -> Links] /\ pool \subseteq Conns
      /\ main.on \in Conns /\ KeyOf[main.on] \in Keys
  BY ConnsAssumption DEF IInv, TypeOK, Suspended, Shut
<1>2. /\ main.at = "shut" /\ main'.at = "expire"
      /\ sched' = Disconnected(sched, KeyOf[main.on])
      /\ conn' = [conn EXCEPT ![main.on] = "down"] /\ active' = active \ {main.on}
      /\ UNCHANGED <<peer, reader, pool, timeouts>>
  BY <1>1 DEF Shut, Gone, penalties, MainState
<1> DEFINE t == Disconnected(sched, KeyOf[main.on])
<1>3. t = Disconnected(sched, KeyOf[main.on]) OBVIOUS
<1> HIDE DEF t
<1>4. Sound(sched) /\ Accounted(sched) BY DEF IInv, RInv
<1>5. /\ Accounted(t) /\ t.forgotten = sched.forgotten
      /\ t.owner = [r \in Requests |-> IF sched.owner[r] = KeyOf[main.on] THEN NoKey ELSE sched.owner[r]]
  BY <1>1, <1>3, <1>4, DisconnectedAccounted
<1>6. Accounted(sched') BY <1>2, <1>3, <1>5
<1>7. \A c \in Conns : conn'[c] = "new" => conn[c] = "new" BY <1>1, <1>2
<1>8. Untouched' BY <1>2, <1>7 DEF RInv, Untouched
<1>9. ToDial'
  <2>1. conn[main.on] # "new" BY <1>2 DEF RInv, ToDial
  <2> QED BY <1>1, <1>2, <2>1 DEF RInv, ToDial
<1>10. ~(NoRedial /\ Fresh)' BY <1>2 DEF RInv, OwedOnce, Fresh, Ended, NoRedial
<1> QED BY <1>6, <1>8, <1>9, <1>10 DEF RInv

\* The loop over the connections asks like a reader does.
LEMMA PollRequests ==
  ASSUME NoSendWaits, IInv, RInv, NEW c \in Conns, Poll(c)
  PROVE  RInv'
<1>1. /\ main \in MainState /\ conn \in [Conns -> Links] /\ peer \in [Conns -> PeerState]
      /\ pool \subseteq Conns
  BY DEF IInv, TypeOK
<1>2. main.at = "poll" /\ ~Ended /\ UNCHANGED <<reader, pool, active, timeouts>>
  BY DEF Poll, penalties, Ended
<1>3. CASE main' = [main EXCEPT !.poll = @ \ {c}] /\ UNCHANGED <<sched, conn, peer>>
  <2>1. main'.at = "poll" BY <1>1, <1>2, <1>3 DEF MainState
  <2>2. ToDial' BY <1>2, <1>3, <2>1 DEF RInv, ToDial
  <2>3. Accounted(sched)' /\ Untouched' BY <1>2, <1>3 DEF RInv, Untouched
  <2>4. NoRedial' /\ Fresh' => OwedOnce'
    <3> SUFFICES ASSUME NoRedial, Fresh' PROVE OwedOnce' BY DEF NoRedial
    <3>1. OwedOnce BY <1>2, FreshBefore DEF RInv
    <3> QED BY <1>2, <1>3, <2>1, <3>1 DEF OwedOnce, Silenced, OnItsWay
  <2> QED BY <2>2, <2>3, <2>4 DEF RInv
<1>4. ASSUME conn[c] = "up", NEW a \in Asks(sched, c, peer[c]),
             sched' = a.s, peer' = [peer EXCEPT ![c] = a.p], conn' = [conn EXCEPT ![c] = a.link],
             main' = IF a.req = NoReq THEN [main EXCEPT !.poll = @ \ {c}]
                     ELSE [main EXCEPT !.poll = @ \ {c}, !.at = "drain", !.on = c, !.req = a.req]
      PROVE  RInv'
  <2>1. Sound(sched) /\ Accounted(sched) BY DEF IInv, RInv
  <2>2. Accounted(a.s) /\ a.s.forgotten = sched.forgotten BY <2>1, AsksAccounted
  <2>3. main'.at \in {"poll", "drain"} BY <1>1, <1>2, <1>4 DEF MainState
  <2>4. \A d \in Conns : conn'[d] = "new" <=> conn[d] = "new"
    <3>1. a.link # "new" BY <1>4, AsksLink
    <3> QED BY <1>1, <1>4, <3>1
  <2>5. reader[c].at # "off" BY <1>4 DEF IInv, UpIsServed
  <2>6. Untouched'
    <3>1. \A d \in Conns : conn[d] = "new" => peer'[d] = peer[d] BY <1>1, <1>4
    <3> QED BY <1>2, <2>4, <3>1 DEF RInv, Untouched
  <2>7. ToDial' BY <1>1, <1>2, <2>3, <2>4 DEF RInv, ToDial
  <2>8. NoRedial' /\ Fresh' => OwedOnce'
    <3> SUFFICES ASSUME NoRedial, Fresh' PROVE OwedOnce' BY DEF NoRedial
    <3>1. OwedOnce BY <1>2, FreshBefore DEF RInv
    <3>2. OnItsWay(a.s, [peer EXCEPT ![c] = a.p], reader)
      BY <1>1, <2>1, <2>5, <3>1, AsksOnItsWay DEF OwedOnce
    <3>3. OnItsWay(sched, peer, reader)' BY <1>2, <1>4, <3>2
    <3>4. \A d \in Conns : reader'[d].at = "ban" => Silenced(d)'
      BY <1>1, <1>2, <1>4, <3>1 DEF OwedOnce, Silenced
    <3> QED BY <1>4, <2>2, <2>3, <3>1, <3>3, <3>4 DEF OwedOnce
  <2> QED BY <1>4, <2>2, <2>6, <2>7, <2>8 DEF RInv
<1> QED BY <1>3, <1>4 DEF Poll

\* A request grows old.
LEMMA OverdueRequests ==
  ASSUME IInv, RInv, NEW r \in Requests, Overdue(r)
  PROVE  RInv'
<1>1. /\ sched' = [sched EXCEPT !.late = sched.late \cup {r}]
      /\ UNCHANGED <<conn, peer, reader, main, pool, active, timeouts>>
  BY DEF Overdue, penalties
<1>2. sched \in Scheduling BY DEF IInv, TypeOK
<1>3. /\ sched'.owner = sched.owner /\ sched'.blocks = sched.blocks /\ sched'.count = sched.count
      /\ sched'.current = sched.current /\ sched'.forgotten = sched.forgotten
  BY <1>1, <1>2 DEF Scheduling
<1>4. \A q \in Requests : sched.owner[q] \in Keys \cup {NoKey} BY <1>2 DEF Scheduling
<1>5. Accounted(sched') BY <1>3, <1>4, ReassignedAccounted DEF RInv
<1>6. Untouched' /\ ToDial' BY <1>1 DEF RInv, Untouched, ToDial
<1>7. NoRedial' /\ Fresh' => OwedOnce'
  <2> SUFFICES ASSUME NoRedial, Fresh' PROVE OwedOnce' BY DEF NoRedial
  <2>1. OwedOnce BY <1>1, FreshBefore DEF RInv, Ended
  <2> QED BY <1>1, <1>3, <2>1 DEF OwedOnce, OnItsWay, Silenced
<1> QED BY <1>5, <1>6, <1>7 DEF RInv

\* A recheck forgets what is in flight, and what is on its way: the job is not fresh.
LEMMA RecheckRequests ==
  ASSUME IInv, RInv, NEW ok \in Rechecks, Recheck(ok)
  PROVE  RInv'
<1>1. ok \in SUBSET Pieces BY JobAssumption
<1>2. /\ sched' = Rechecked(ok) /\ Ended
      /\ UNCHANGED <<conn, peer, reader, main, pool, active, timeouts>>
  BY DEF Recheck, penalties
<1>3. Accounted(sched') BY <1>1, <1>2, RecheckedAccounted
<1>4. Untouched' /\ ToDial' BY <1>2 DEF RInv, Untouched, ToDial
<1>5. ~Fresh' BY <1>2 DEF Fresh, Ended
<1> QED BY <1>3, <1>4, <1>5 DEF RInv

\* The job starts with nothing asked for.
LEMMA InitRequests == ASSUME Init PROVE RInv
<1>1. PICK ok \in StartVerified : sched = Rechecked(ok) BY DEF Init
<1>2. ok \in SUBSET Pieces BY <1>1, JobAssumption
<1>3. Accounted(sched) /\ sched.forgotten = [k \in Keys |-> {}] BY <1>1, <1>2, RecheckedAccounted
<1>4. Idle.at = "off" /\ Stranger.asked = [r \in Requests |-> 0] BY DEF Idle, Stranger
<1>5. main.at = "peers" /\ pool = {} /\ active = {} BY DEF Init
<1>6. \A c \in Conns : reader[c] = Idle /\ peer[c] = Stranger BY DEF Init
<1>7. Untouched /\ ToDial BY <1>4, <1>5, <1>6 DEF Untouched, ToDial
<1>8. OwedOnce BY <1>3, <1>4, <1>5, <1>6 DEF OwedOnce, OnItsWay
<1> QED BY <1>3, <1>7, <1>8 DEF RInv

\* Every step keeps it, unless a send waits.
LEMMA NextRequests == ASSUME NoSendWaits, IInv, RInv, [Next]_vars PROVE RInv'
<1>1. CASE MainStep
  <2>1. CASE PollSent BY <2>1 DEF PollSent, DrainReturns, NoSendWaits, IInv, Suspended
  <2>2. CASE \E c \in Conns : Poll(c) BY <2>2, PollRequests
  <2>3. CASE \E r \in Requests, k \in Keys : Expire(r, k) BY <2>3, ExpireRequests
  <2>4. CASE SleepOver \/ ExpireDone \/ PollRaises \/ TrackerRaises \/ PollDone
    BY <2>4, RoundRequests
  <2>5. CASE (\E A \in Answers : PeersFound(A)) \/ DialFails \/ DialRaises \/ NapOver
    BY <2>5, ConnectRequests
  <2>6. CASE DialOk \/ Shut BY <2>6, DialOkRequests, ShutRequests
  <2> QED BY <1>1, <2>1, <2>2, <2>3, <2>4, <2>5, <2>6 DEF MainStep
<1>2. CASE \E c \in Conns : ReaderStep(c) \/ MessageStep(c) BY <1>2, ReaderRequests
<1>3. CASE Surroundings
  BY <1>3, RoundRequests, OverdueRequests, RecheckRequests DEF Surroundings
<1>4. CASE UNCHANGED vars
  <2> USE <1>4 DEF vars
  <2>1. Accounted(sched)' /\ Untouched' /\ ToDial' BY DEF RInv, Untouched, ToDial
  <2>2. NoRedial' /\ Fresh' => OwedOnce'
    <3> SUFFICES ASSUME NoRedial, Fresh' PROVE OwedOnce' BY DEF NoRedial
    <3>1. OwedOnce BY FreshBefore DEF RInv, Ended
    <3> QED BY <3>1 DEF OwedOnce, OnItsWay, Silenced
  <2> QED BY <2>1, <2>2 DEF RInv
<1> QED BY <1>1, <1>2, <1>3, <1>4 DEF Next

-------------------------------------------------------------------------------
(* The theorems *)

\* Where no send waits in drain(), the requests stay accounted for in every reachable
\* state of every job, with every other fault and however often a peer is dialed again.
THEOREM RequestsInvariant == ASSUME NoSendWaits PROVE Spec => []RInv
<1>1. Init => RInv BY InitRequests
<1>2. IInv /\ RInv /\ [Next]_vars => RInv' BY NextRequests
<1> QED BY <1>1, <1>2, Invariant, PTL DEF Spec

\* peer_pending_count is the number of requests in flight, and a peer's window is never
\* taken up by requests that are gone (_clear_pending_request, _handle_peer_disconnect,
\* _handle_piece_hash_failure).
THEOREM PendingCountHolds == ASSUME NoSendWaits PROVE Spec => []PendingCountMatches
<1>1. RInv => PendingCountMatches
  BY DEF RInv, Accounted, Counted, PendingCountMatches
<1> QED BY <1>1, RequestsInvariant, PTL

\* No request outlives the work of its peer on the piece (_request_next_block,
\* _handle_piece_data, _handle_peer_disconnect), also when peers are dialed again.
THEOREM RequestsWorkedOnHolds == ASSUME NoSendWaits PROVE Spec => []RequestsAreWorkedOn
<1>1. RInv => RequestsAreWorkedOn
  BY DEF RInv, Accounted, RequestsAreWorkedOn
<1> QED BY <1>1, RequestsInvariant, PTL

\* Where moreover no peer is dialed a second time, no block is owed twice before a request
\* times out: not by one peer, nor by two, until a job that has ended is rechecked.
THEOREM NoDuplicateHolds ==
  ASSUME NoSendWaits, NoRedial
  PROVE  Spec => []((Ended => Rechecks = {}) => NoDuplicateWork)
<1>1. IInv /\ RInv => ((Ended => Rechecks = {}) => NoDuplicateWork)
  <2> SUFFICES ASSUME IInv, RInv, Ended => Rechecks = {}, \A k \in Keys : timeouts[k] = 0,
                      NEW c \in Conns, NEW e \in Conns, conn[c] = "up", conn[e] = "up",
                      NEW r \in Requests
               PROVE  IF c = e THEN peer[c].asked[r] < 2
                      ELSE peer[c].asked[r] = 0 \/ peer[e].asked[r] = 0
    BY DEF NoDuplicateWork
  <2>1. OwedOnce BY DEF RInv, Fresh
  <2>2. reader[c].at # "off" /\ reader[e].at # "off" BY DEF IInv, UpIsServed
  <2>3. peer[c].asked \in [Requests -> 0..MaxAsked] /\ peer[e].asked \in [Requests -> 0..MaxAsked]
    BY DEF IInv, TypeOK, PeerState
  <2>4. CASE c = e BY <2>1, <2>2, <2>3, <2>4, LimitsAssumption DEF OwedOnce, OnItsWay
  <2>5. CASE c # e
    <3>1. peer[c].asked[r] > 0 => sched.owner[r] = KeyOf[c] BY <2>1, <2>2 DEF OwedOnce, OnItsWay
    <3>2. peer[e].asked[r] > 0 => sched.owner[r] = KeyOf[e] BY <2>1, <2>2 DEF OwedOnce, OnItsWay
    <3>3. KeyOf[c] # KeyOf[e] BY <2>5 DEF NoRedial
    <3> QED BY <2>3, <2>5, <3>1, <3>2, <3>3, LimitsAssumption
  <2> QED BY <2>4, <2>5
<1> QED BY <1>1, Invariant, RequestsInvariant, PTL
===============================================================================
