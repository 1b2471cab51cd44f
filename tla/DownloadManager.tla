---------------------------- MODULE DownloadManager ---------------------------
(***************************************************************************)
(* One download job: DownloadManager.download (src/src/download.py), the    *)
(* read loops of its peer connections (src/src/peer.py), the peers at the   *)
(* other end, and the user who stops the job or rechecks its output.        *)
(*                                                                          *)
(* The code is asyncio: one task runs download(), one task per connection   *)
(* runs read_loop(), and a task gives up the event loop only where an await *)
(* really suspends.  Each action is what a task does from one suspension to *)
(* the next.  main.at and reader[c].at say where a task is suspended; at    *)
(* "expire" and "poll" the main task is in the middle of a loop that has    *)
(* not suspended, and no other task can run (LoopFree is false).            *)
(*                                                                          *)
(* An await on a send suspends when the transport is closing, when the      *)
(* write finds the connection reset, or when the write buffer is full;      *)
(* disconnect() suspends on wait_closed().                                  *)
(*                                                                          *)
(* A definition whose comment starts with "Slip" is not part of the model   *)
(* (see PieceScheduler).                                                    *)
(***************************************************************************)
EXTENDS PieceQueue

CONSTANTS
  Conns,            \* PeerConnection objects, one for each time a peer is dialed
  KeyOf,            \* the peer a connection is to
  Faults,           \* what may go wrong with a connection, see FaultKinds
  BitsOf,           \* the pieces a connection's peer announces in its bitfield
  Answers,          \* the sets of connections a tracker round may lead to
  StartVerified,    \* what the recheck before the start may have verified
  MaxConns,         \* max_connections
  MaxTimeouts,      \* MAX_PEER_TIMEOUTS
  MaxHashFailures,  \* MAX_PEER_HASH_FAILURES
  MaxAsked,         \* bound: answers a peer can owe to one repeated request
  TrackerFails,     \* TRUE when the socket to a UDP tracker may fail
  DiskFails,        \* TRUE when writing the output may raise
  Rechecks,         \* what a recheck of the finished job may verify
  CanStop,          \* TRUE when the user may stop the job
  NoConn            \* "no connection"

FaultKinds ==
  {"refuse",   \* connect() returns False
   "eof",      \* the peer closes in the middle of the handshake
   "drop",     \* the connection is reset, or closed by the peer
   "slow",     \* the write buffer is full and a send waits in drain()
   "stall",    \* an answer may be later than BLOCK_REQUEST_TIMEOUT, or missing
   "choke",    \* the peer chokes us again
   "have",     \* the peer gets more pieces while we are connected
   "corrupt",  \* a block has wrong bytes
   "short"}    \* a block has fewer bytes than were requested

ASSUME ConnsAssumption ==
  /\ IsFiniteSet(Conns)
  /\ NoConn \notin Conns
  /\ KeyOf \in [Conns -> Keys]
  /\ Faults \in [Conns -> SUBSET FaultKinds]
  /\ BitsOf \in [Conns -> SUBSET Pieces]
  /\ Answers \subseteq SUBSET Conns
  /\ \A A \in Answers : \A c, e \in A : KeyOf[c] = KeyOf[e] => c = e
ASSUME LimitsAssumption ==
  /\ MaxConns \in Nat \ {0}
  /\ MaxTimeouts \in Nat \ {0}
  /\ MaxHashFailures \in Nat \ {0}
  /\ MaxAsked \in Nat \ {0}
ASSUME JobAssumption ==
  /\ StartVerified \subseteq SUBSET Pieces
  /\ \A ok \in StartVerified : ok # Pieces    \* otherwise the job is not started
  /\ Rechecks \subseteq SUBSET Pieces
  /\ TrackerFails \in BOOLEAN
  /\ DiskFails \in BOOLEAN
  /\ CanStop \in BOOLEAN

VARIABLES
  sched,      \* the piece and block bookkeeping (PieceScheduler)
  conn,       \* the transport of each connection
  peer,       \* what we know of the peer, and what it still owes us
  reader,     \* where read_loop is suspended
  main,       \* where download() is suspended
  pool,       \* peer_pool
  active,     \* active_connections
  timeouts,   \* peer_timeout_count
  hashFails,  \* peer_hash_failures
  banned,     \* banned_peers
  running, completed, written   \* running, completed, output_written

vars == <<sched, conn, peer, reader, main, pool, active, timeouts, hashFails,
          banned, running, completed, written>>
penalties == <<timeouts, hashFails, banned>>

-------------------------------------------------------------------------------
(* State *)

\* "up" is is_connected; "closing" is a writer that is closing; "down" is no writer.
Links == {"new", "up", "closing", "down"}

\* peer_choking; whether there is a bitfield, and what it holds; am_interested; and the
\* number of requests for a block that the peer has got and not answered.
PeerState ==
  [choking    : BOOLEAN,
   known      : BOOLEAN,
   bits       : SUBSET Pieces,
   interested : BOOLEAN,
   asked      : [Requests -> 0..MaxAsked]]

\* read: waiting for the peer;  drain: sending request req;  have: sending HAVE to
\* connection on;  ban: disconnecting a banned peer;  close: the final disconnect.
ReaderState ==
  [at  : {"off", "read", "drain", "have", "ban", "close"},
   req : Requests \cup {NoReq},
   on  : Conns \cup {NoConn}]

\* peers: get_peers;  dial: connect() of on;  nap: the sleep of connect_to_peers;
\* sleep: the sleep of the main loop;  expire, shut: _check_request_timeouts;
\* poll, drain: the loop over the connections;  end, error: download() is over.
MainState ==
  [at      : {"peers", "dial", "nap", "sleep", "expire", "shut", "poll", "drain",
              "end", "error"},
   on      : Conns \cup {NoConn},
   req     : Requests \cup {NoReq},
   expired : SUBSET (Requests \X Keys),
   poll    : SUBSET Conns,
   again   : BOOLEAN]           \* the tracker was contacted before

TypeOK ==
  /\ sched \in Scheduling
  /\ conn \in [Conns -> Links]
  /\ peer \in [Conns -> PeerState]
  /\ reader \in [Conns -> ReaderState]
  /\ main \in MainState
  /\ pool \subseteq Conns
  /\ active \subseteq Conns
  /\ timeouts \in [Keys -> 0..MaxTimeouts]
  /\ hashFails \in [Keys -> 0..MaxHashFailures]
  /\ banned \subseteq Keys
  /\ running \in BOOLEAN
  /\ completed \in BOOLEAN
  /\ written \in BOOLEAN

Idle    == [at |-> "off", req |-> NoReq, on |-> NoConn]
Reading == [Idle EXCEPT !.at = "read"]
Stranger ==
  [choking |-> TRUE, known |-> FALSE, bits |-> {}, interested |-> FALSE,
   asked |-> [r \in Requests |-> 0]]

\* start_download: the recheck has run, download() starts with the tracker round.
Init ==
  /\ \E ok \in StartVerified : sched = Rechecked(ok)
  /\ conn = [c \in Conns |-> "new"]
  /\ peer = [c \in Conns |-> Stranger]
  /\ reader = [c \in Conns |-> Idle]
  /\ main = [at |-> "peers", on |-> NoConn, req |-> NoReq, expired |-> {},
             poll |-> {}, again |-> FALSE]
  /\ pool = {}
  /\ active = {}
  /\ timeouts = [k \in Keys |-> 0]
  /\ hashFails = [k \in Keys |-> 0]
  /\ banned = {}
  /\ running = TRUE
  /\ completed = FALSE
  /\ written = FALSE

AllDone   == sched.done = Pieces
Ended     == main.at \in {"end", "error"}

\* No task is in the middle of a step: the main task suspends nowhere in these two loops.
LoopFree == main.at \notin {"expire", "poll"}
-------------------------------------------------------------------------------
(* Sending *)

\* What _send does on connection c: the link it leaves, whether the message is on
\* its way, and whether drain() suspends.  A connection that is "down" has no
\* writer, and the message is silently dropped.
Sends(c) ==
  (IF conn[c] = "closing" THEN {[link |-> "closing", sent |-> FALSE, waits |-> TRUE]}
   ELSE {[link |-> conn[c], sent |-> conn[c] = "up", waits |-> FALSE]})
  \cup (IF conn[c] = "up" /\ "drop" \in Faults[c]
        THEN {[link |-> "closing", sent |-> FALSE, waits |-> TRUE]} ELSE {})
  \cup (IF conn[c] = "up" /\ "slow" \in Faults[c]
        THEN {[link |-> "up", sent |-> TRUE, waits |-> TRUE]} ELSE {})

\* A suspended drain() comes back, or raises ConnectionResetError.
DrainReturns(c) == "slow" \in Faults[c]
DrainRaises(c)  == conn[c] \in {"closing", "down"}

Owes(p, r) == [p EXCEPT !.asked[r] = IF @ < MaxAsked THEN @ + 1 ELSE @]

\* _request_next_block(c) from bookkeeping s and peer state p.  Each result has the
\* bookkeeping and the peer state it leaves, the link, and the request whose send
\* has suspended (then it is not registered yet), or NoReq.
Asks(s, c, p) ==
  IF p.choking \/ ~p.known
  THEN {[s |-> s, p |-> p, link |-> conn[c], req |-> NoReq]}
  ELSE UNION {
    IF o.req = NoReq THEN {[s |-> o.s, p |-> p, link |-> conn[c], req |-> NoReq]}
    ELSE {[s    |-> IF w.waits THEN o.s ELSE Register(o.s, KeyOf[c], o.req),
           p    |-> IF w.sent THEN Owes(p, o.req) ELSE p,
           link |-> w.link,
           req  |-> IF w.waits THEN o.req ELSE NoReq] : w \in Sends(c)} :
    o \in NextRequest(s, KeyOf[c], p.bits)}

\* The reader of c ends its handler with _request_next_block(c).
ReaderAsks(c, s, p) ==
  \E a \in Asks(s, c, p) :
    /\ sched' = a.s
    /\ peer' = [peer EXCEPT ![c] = a.p]
    /\ conn' = [conn EXCEPT ![c] = a.link]
    /\ reader' = [reader EXCEPT ![c] =
         IF a.req = NoReq THEN Reading ELSE [Idle EXCEPT !.at = "drain", !.req = a.req]]

\* disconnect() after wait_closed: no writer, then on_disconnect.
Gone(c) ==
  /\ conn' = [conn EXCEPT ![c] = "down"]
  /\ sched' = Disconnected(sched, KeyOf[c])
  /\ active' = active \ {c}

\* read_loop leaves its loop: `finally: await self.disconnect()`.
LeaveLoop(c) ==
  /\ \/ /\ conn[c] = "down"
        /\ Gone(c)
        /\ reader' = [reader EXCEPT ![c] = Idle]
     \/ /\ conn[c] # "down"
        /\ conn' = [conn EXCEPT ![c] = "closing"]
        /\ reader' = [reader EXCEPT ![c] = [Idle EXCEPT !.at = "close"]]
        /\ UNCHANGED <<sched, active>>

-------------------------------------------------------------------------------
(* The read loop of connection c: _handle_message and _handle_piece_data *)

MainRests == UNCHANGED <<main, pool, running, written>>

Unchoke(c) ==
  /\ LoopFree
  /\ reader[c].at = "read"
  /\ peer[c].choking
  /\ ReaderAsks(c, sched, [peer[c] EXCEPT !.choking = FALSE])
  /\ MainRests /\ UNCHANGED <<active, completed>> /\ UNCHANGED penalties

\* A peer that chokes drops the requests it has not answered.
Choke(c) ==
  /\ LoopFree
  /\ "choke" \in Faults[c]
  /\ reader[c].at = "read"
  /\ ~peer[c].choking
  /\ peer' = [peer EXCEPT ![c].choking = TRUE, ![c].asked = [r \in Requests |-> 0]]
  /\ UNCHANGED <<sched, conn, reader, active, completed>>
  /\ MainRests /\ UNCHANGED penalties

\* send_interested, when it is called, can only end this read loop (ReaderExit).
Bitfield(c) ==
  /\ LoopFree
  /\ reader[c].at = "read"
  /\ ~peer[c].known
  /\ peer' = [peer EXCEPT ![c].known = TRUE,
                          ![c].bits = BitsOf[c],
                          ![c].interested = BitsOf[c] \ sched.done # {}]
  /\ UNCHANGED <<sched, conn, reader, active, completed>>
  /\ MainRests /\ UNCHANGED penalties

\* HAVE before the bitfield is ignored.
Have(c, i) ==
  /\ LoopFree
  /\ "have" \in Faults[c]
  /\ reader[c].at = "read"
  /\ peer[c].known
  /\ i \notin peer[c].bits
  /\ peer' = [peer EXCEPT ![c].bits = @ \cup {i}]
  /\ UNCHANGED <<sched, conn, reader, active, completed>>
  /\ MainRests /\ UNCHANGED penalties

DataFrom(c) ==
  {"good"} \cup (IF "corrupt" \in Faults[c] THEN {"bad"} ELSE {})
           \cup (IF "short" \in Faults[c] THEN {"short"} ELSE {})

\* The peer answers request r, or one of the requests for r, with data d.
Owed(c, r) == LoopFree /\ reader[c].at = "read" /\ peer[c].asked[r] > 0
Answered(c, r) == [peer[c] EXCEPT !.asked[r] = @ - 1]
Received(r, d) == AddBlock(DropPending(sched, {r}), r, d)

\* The piece is already complete: the block is ignored.
DeliverLate(c, r) ==
  /\ Owed(c, r)
  /\ r[1] \in sched.done
  /\ peer' = [peer EXCEPT ![c] = Answered(c, r)]
  /\ UNCHANGED <<sched, conn, reader, active, completed>>
  /\ MainRests /\ UNCHANGED penalties

\* The piece is still incomplete: ask for more.
DeliverBlock(c, r, d) ==
  /\ Owed(c, r)
  /\ r[1] \notin sched.done
  /\ ~Full(Received(r, d), r[1])
  /\ ReaderAsks(c, Received(r, d), Answered(c, r))
  /\ MainRests /\ UNCHANGED <<active, completed>> /\ UNCHANGED penalties

\* Slip: an empty queue is taken for the end of the download.
ProgressByQueue(s) == completed' = (completed \/ s.queue = {})

\* _update_progress
Progress(s) == completed' = (completed \/ s.done = Pieces)

\* Connections to which a send can suspend.
Fragile == {e \in active : conn[e] = "up" /\ Faults[e] \cap {"drop", "slow"} # {}}

\* The reader of c is suspended sending HAVE to e.
WaitsForHave(c, e, s, p) ==
  /\ sched' = s
  /\ peer' = [peer EXCEPT ![c] = p]
  /\ \E w \in {w \in Sends(e) : w.waits} : conn' = [conn EXCEPT ![e] = w.link]
  /\ reader' = [reader EXCEPT ![c] = [Idle EXCEPT !.at = "have", !.on = e]]
  /\ UNCHANGED completed

\* The last block of a piece that verifies: HAVE to every connected peer, then
\* the progress report and the next request.
DeliverPiece(c, r, d) ==
  LET got == Received(r, d)
      s   == WritePiece(got, r[1])
      p   == Answered(c, r)
  IN /\ Owed(c, r)
     /\ r[1] \notin sched.done
     /\ Full(got, r[1]) /\ Verifies(got, r[1])
     /\ \/ Progress(s) /\ ReaderAsks(c, s, p)
        \/ \E e \in Fragile : WaitsForHave(c, e, s, p)
     /\ MainRests /\ UNCHANGED active /\ UNCHANGED penalties

\* The last block of a piece that does not verify: _handle_piece_hash_failure.
DeliverCorrupt(c, r, d) ==
  LET got   == Received(r, d)
      k     == KeyOf[c]
      fails == IF hashFails[k] < MaxHashFailures THEN hashFails[k] + 1 ELSE MaxHashFailures
      s     == HashFailure(got, k, r[1])
  IN /\ Owed(c, r)
     /\ r[1] \notin sched.done
     /\ Full(got, r[1]) /\ ~Verifies(got, r[1])
     /\ peer' = [peer EXCEPT ![c] = Answered(c, r)]
     /\ hashFails' = [hashFails EXCEPT ![k] = fails]
     /\ \/ /\ fails < MaxHashFailures
           /\ sched' = s
           /\ UNCHANGED <<conn, reader, active, banned>>
        \/ /\ fails = MaxHashFailures
           /\ banned' = banned \cup {k}
           /\ \/ /\ conn[c] = "down"
                 /\ sched' = Disconnected(s, k)
                 /\ active' = active \ {c}
                 /\ UNCHANGED <<conn, reader>>
              \/ /\ conn[c] # "down"
                 /\ sched' = s
                 /\ conn' = [conn EXCEPT ![c] = "closing"]
                 /\ reader' = [reader EXCEPT ![c] = [Idle EXCEPT !.at = "ban"]]
                 /\ UNCHANGED active
     /\ MainRests /\ UNCHANGED <<completed, timeouts>>
\* What the peer of c answers.
Deliver(c, r, d) ==
  \/ DeliverBlock(c, r, d)
  \/ DeliverPiece(c, r, d)
  \/ DeliverCorrupt(c, r, d)

\* The send of a request is over: only now is the request registered.
RequestSent(c) ==
  /\ LoopFree
  /\ reader[c].at = "drain"
  /\ DrainReturns(c)
  /\ sched' = Register(sched, KeyOf[c], reader[c].req)
  /\ reader' = [reader EXCEPT ![c] = Reading]
  /\ UNCHANGED <<conn, peer, active, completed>>
  /\ MainRests /\ UNCHANGED penalties

\* The send of a HAVE is over: the next one, or the rest of _handle_piece_data.
HaveSent(c) ==
  /\ LoopFree
  /\ reader[c].at = "have"
  /\ DrainReturns(reader[c].on)
  /\ \/ Progress(sched) /\ ReaderAsks(c, sched, peer[c])
     \/ \E e \in Fragile \ {reader[c].on} : WaitsForHave(c, e, sched, peer[c])
  /\ MainRests /\ UNCHANGED active /\ UNCHANGED penalties

\* A send raises in the read loop of c, whichever connection it was to.
ReaderSendFails(c) ==
  /\ LoopFree
  /\ \/ reader[c].at = "drain" /\ DrainRaises(c)
     \/ reader[c].at = "have" /\ DrainRaises(reader[c].on)
  /\ LeaveLoop(c)
  /\ UNCHANGED <<peer, completed>>
  /\ MainRests /\ UNCHANGED penalties

\* disconnect() of a banned peer is over, and _process_buffer goes on.
BanDone(c) ==
  /\ LoopFree
  /\ reader[c].at = "ban"
  /\ Gone(c)
  /\ reader' = [reader EXCEPT ![c] = Reading]
  /\ UNCHANGED <<peer, completed>>
  /\ MainRests /\ UNCHANGED penalties

\* read() finds the connection closed, or a message cannot be parsed.
ReaderExit(c) ==
  /\ LoopFree
  /\ reader[c].at = "read"
  /\ conn[c] # "up" \/ "drop" \in Faults[c]
  /\ LeaveLoop(c)
  /\ UNCHANGED <<peer, completed>>
  /\ MainRests /\ UNCHANGED penalties

CloseDone(c) ==
  /\ LoopFree
  /\ reader[c].at = "close"
  /\ Gone(c)
  /\ reader' = [reader EXCEPT ![c] = Idle]
  /\ UNCHANGED <<peer, completed>>
  /\ MainRests /\ UNCHANGED penalties

-------------------------------------------------------------------------------
(* The main task: connect_to_peers *)

\* download() returns: the output is written when the download is complete.  A write that
\* fails is caught, but not the failure to make the output directory.
Finish(done) ==
  \/ /\ main' = [main EXCEPT !.at = "end", !.on = NoConn]
     /\ written' \in IF done /\ AllDone THEN {TRUE, ~DiskFails} ELSE {FALSE}
  \/ /\ DiskFails /\ done /\ AllDone
     /\ main' = [main EXCEPT !.at = "error", !.on = NoConn]
     /\ UNCHANGED written

\* The test of the main loop, `while self.running and not self.completed`.
MainTest(done) ==
  \/ running /\ ~done /\ main' = [main EXCEPT !.at = "sleep", !.on = NoConn] /\ UNCHANGED written
  \/ ~(running /\ ~done) /\ Finish(done)

\* Slip: one connection too many.
DialOneMore(S, up) ==
  IF Cardinality(up) <= MaxConns /\ S # {}
  THEN \E c \in S : pool' = S \ {c} /\ main' = [main EXCEPT !.at = "dial", !.on = c]
  ELSE pool' = S /\ main' = [main EXCEPT !.at = "nap", !.on = NoConn]

\* The inner loop of connect_to_peers: dial a peer of S, or sleep.
DialOrNap(S, up) ==
  IF Cardinality(up) < MaxConns /\ S # {}
  THEN \E c \in S : pool' = S \ {c} /\ main' = [main EXCEPT !.at = "dial", !.on = c]
  ELSE pool' = S /\ main' = [main EXCEPT !.at = "nap", !.on = NoConn]

\* connect_to_peers from the test of its outer loop; when it returns, the main loop
\* reports the progress if that is where it was called, and tests.
ConnectLoop(S, up) ==
  \/ /\ running /\ ~completed /\ S # {}
     /\ DialOrNap(S, up)
     /\ UNCHANGED <<completed, written>>
  \/ /\ ~(running /\ ~completed /\ S # {})
     /\ pool' = S
     /\ completed' = (completed \/ (main.again /\ AllDone))
     /\ MainTest(completed')

ReadersRest == UNCHANGED <<sched, peer, timeouts, hashFails>>

\* get_peers: no banned peer, and no peer twice.
Found(A) == {c \in A : conn[c] = "new" /\ KeyOf[c] \notin banned}

PeersFound(A) ==
  /\ main.at = "peers"
  /\ \/ /\ main.again \/ Found(A) # {}
        /\ ConnectLoop(Found(A), active)
        /\ UNCHANGED running
     \/ /\ ~main.again /\ Found(A) = {}
        /\ running' = FALSE
        /\ main' = [main EXCEPT !.at = "end"]
        /\ UNCHANGED <<pool, completed, written>>
  /\ ReadersRest /\ UNCHANGED <<conn, reader, active, banned>>

\* _contact_udp_tracker catches TrackerError only: what the socket raises ends download().
TrackerRaises ==
  /\ main.at = "peers"
  /\ TrackerFails
  /\ main' = [main EXCEPT !.at = "error"]
  /\ ReadersRest /\ UNCHANGED <<conn, reader, pool, active, banned, running, completed, written>>

DialOk ==
  /\ main.at = "dial"
  /\ active' = active \cup {main.on}
  /\ conn' = [conn EXCEPT ![main.on] = "up"]
  /\ reader' = [reader EXCEPT ![main.on] = Reading]
  /\ DialOrNap(pool, active')
  /\ ReadersRest /\ UNCHANGED <<banned, running, completed, written>>

DialFails ==
  /\ main.at = "dial"
  /\ "refuse" \in Faults[main.on]
  /\ banned' = banned \cup {KeyOf[main.on]}
  /\ conn' = [conn EXCEPT ![main.on] = "down"]
  /\ DialOrNap(pool, active)
  /\ ReadersRest /\ UNCHANGED <<reader, active, running, completed, written>>

\* readexactly raises IncompleteReadError, which connect() does not catch.
DialRaises ==
  /\ main.at = "dial"
  /\ "eof" \in Faults[main.on]
  /\ conn' = [conn EXCEPT ![main.on] = "down"]
  /\ main' = [main EXCEPT !.at = "error", !.on = NoConn]
  /\ ReadersRest /\ UNCHANGED <<reader, pool, active, banned, running, completed, written>>

\* After the sleep, drop the disconnected peers; the pool decides what is next.
NapOver ==
  /\ main.at = "nap"
  /\ active' = {c \in active : conn[c] = "up"}
  /\ ConnectLoop(pool, active')
  /\ ReadersRest /\ UNCHANGED <<conn, reader, banned, running>>

-------------------------------------------------------------------------------
(* The main task: one round of the main loop *)

\* _check_request_timeouts takes its list of the requests that are too old.
SleepOver ==
  /\ main.at = "sleep"
  /\ main' = [main EXCEPT !.at = "expire",
                          !.expired = {<<r, sched.owner[r]>> : r \in sched.late}]
  /\ ReadersRest
  /\ UNCHANGED <<conn, reader, pool, active, banned, running, completed, written>>

\* One entry of the list: whoever the request belongs to now, it is cleared, and the
\* peer of the entry is blamed.  Its first connection is closed when it is banned.
Expire(r, k) ==
  LET late == IF timeouts[k] < MaxTimeouts THEN timeouts[k] + 1 ELSE MaxTimeouts
      open == {c \in active : KeyOf[c] = k}
      rest == [main EXCEPT !.expired = @ \ {<<r, k>>}]
      s    == DropPending(sched, {r})
  IN /\ main.at = "expire"
     /\ <<r, k>> \in main.expired
     /\ timeouts' = [timeouts EXCEPT ![k] = late]
     /\ banned' = IF late = MaxTimeouts THEN banned \cup {k} ELSE banned
     /\ \/ /\ late < MaxTimeouts \/ open = {}
           /\ main' = rest /\ sched' = s
           /\ UNCHANGED <<conn, active>>
        \/ /\ late = MaxTimeouts
           /\ \E c \in open :
                \/ /\ conn[c] = "down"
                   /\ main' = rest /\ sched' = Disconnected(s, k)
                   /\ active' = active \ {c} /\ UNCHANGED conn
                \/ /\ conn[c] # "down"
                   /\ main' = [rest EXCEPT !.at = "shut", !.on = c] /\ sched' = s
                   /\ conn' = [conn EXCEPT ![c] = "closing"] /\ UNCHANGED active
     /\ UNCHANGED <<peer, reader, pool, hashFails, running, completed, written>>

Shut ==
  /\ main.at = "shut"
  /\ Gone(main.on)
  /\ main' = [main EXCEPT !.at = "expire", !.on = NoConn]
  /\ UNCHANGED <<peer, reader, pool, running, completed, written>> /\ UNCHANGED penalties

\* The loop over list(self.active_connections) starts.
ExpireDone ==
  /\ main.at = "expire"
  /\ main.expired = {}
  /\ main' = [main EXCEPT !.at = "poll", !.poll = active]
  /\ ReadersRest
  /\ UNCHANGED <<conn, reader, pool, active, banned, running, completed, written>>

Poll(c) ==
  /\ main.at = "poll"
  /\ c \in main.poll
  /\ \/ /\ conn[c] = "up"
        /\ \E a \in Asks(sched, c, peer[c]) :
             /\ sched' = a.s
             /\ peer' = [peer EXCEPT ![c] = a.p]
             /\ conn' = [conn EXCEPT ![c] = a.link]
             /\ main' = IF a.req = NoReq THEN [main EXCEPT !.poll = @ \ {c}]
                        ELSE [main EXCEPT !.poll = @ \ {c}, !.at = "drain", !.on = c, !.req = a.req]
     \/ /\ conn[c] # "up"
        /\ main' = [main EXCEPT !.poll = @ \ {c}]
        /\ UNCHANGED <<sched, conn, peer>>
  /\ UNCHANGED <<reader, pool, active, running, completed, written>> /\ UNCHANGED penalties

PollSent ==
  /\ main.at = "drain"
  /\ DrainReturns(main.on)
  /\ sched' = Register(sched, KeyOf[main.on], main.req)
  /\ main' = [main EXCEPT !.at = "poll", !.on = NoConn, !.req = NoReq]
  /\ UNCHANGED <<conn, peer, reader, pool, active, running, completed, written>>
  /\ UNCHANGED penalties

\* Nothing in download() catches what a send raises.
PollRaises ==
  /\ main.at = "drain"
  /\ DrainRaises(main.on)
  /\ main' = [main EXCEPT !.at = "error", !.on = NoConn, !.req = NoReq, !.poll = {}]
  /\ ReadersRest
  /\ UNCHANGED <<conn, reader, pool, active, banned, running, completed, written>>

\* The end of a round: complete, or back to the tracker, or the next round.
PollDone ==
  /\ main.at = "poll"
  /\ main.poll = {}
  /\ \/ /\ AllDone
        /\ completed' = TRUE
        /\ Finish(TRUE)
     \/ /\ ~AllDone /\ \A c \in active : conn[c] # "up"
        /\ main' = [main EXCEPT !.at = "peers", !.again = TRUE]
        /\ UNCHANGED <<completed, written>>
     \/ /\ ~AllDone /\ \E c \in active : conn[c] = "up"
        /\ MainTest(completed)
        /\ UNCHANGED completed
  /\ ReadersRest /\ UNCHANGED <<conn, reader, pool, active, banned, running>>

-------------------------------------------------------------------------------
(* The network, the clock and the user *)

\* The transport finds that the connection is lost.
Drop(c) ==
  /\ LoopFree
  /\ "drop" \in Faults[c]
  /\ conn[c] = "up"
  /\ conn' = [conn EXCEPT ![c] = "closing"]
  /\ ReadersRest
  /\ UNCHANGED <<reader, main, pool, active, banned, running, completed, written>>

\* A request has been pending for BLOCK_REQUEST_TIMEOUT: no connection to its peer has an
\* answer coming in time.
Overdue(r) ==
  /\ LoopFree
  /\ r \in Pending(sched) \ sched.late
  /\ \A c \in Conns : KeyOf[c] = sched.owner[r] =>
       "stall" \in Faults[c] \/ conn[c] # "up" \/ peer[c].asked[r] = 0
  /\ sched' = [sched EXCEPT !.late = @ \cup {r}]
  /\ UNCHANGED <<conn, peer, reader, main, pool, active, running, completed, written>>
  /\ UNCHANGED penalties

\* Slip: a stopped job that is complete counts as written.
StopFlushes ==
  /\ LoopFree
  /\ CanStop
  /\ ~Ended
  /\ running' = FALSE
  /\ written' = completed
  /\ main' = [main EXCEPT !.at = "end", !.on = NoConn, !.req = NoReq,
                          !.expired = {}, !.poll = {}]
  /\ ReadersRest /\ UNCHANGED <<conn, reader, pool, active, banned, completed>>

\* stop_download: stop() and the cancellation of the task that runs download().
Stop ==
  /\ LoopFree
  /\ CanStop
  /\ ~Ended
  /\ running' = FALSE
  /\ main' = [main EXCEPT !.at = "end", !.on = NoConn, !.req = NoReq,
                          !.expired = {}, !.poll = {}]
  /\ ReadersRest /\ UNCHANGED <<conn, reader, pool, active, banned, completed, written>>

\* recheck_existing_output of a job that is over.
Recheck(ok) ==
  /\ LoopFree
  /\ Ended
  /\ sched' = Rechecked(ok)
  /\ completed' = (ok = Pieces /\ Pieces # {})
  /\ written' = completed'
  /\ UNCHANGED <<conn, peer, reader, main, pool, active, running>> /\ UNCHANGED penalties

-------------------------------------------------------------------------------
MainStep ==
  \/ \E A \in Answers : PeersFound(A)
  \/ TrackerRaises \/ DialOk \/ DialFails \/ DialRaises
  \/ NapOver \/ SleepOver
  \/ \E r \in Requests, k \in Keys : Expire(r, k)
  \/ Shut \/ ExpireDone
  \/ \E c \in Conns : Poll(c)
  \/ PollSent \/ PollRaises \/ PollDone

\* What the read loop of c does on its own.
ReaderStep(c) ==
  RequestSent(c) \/ HaveSent(c) \/ ReaderSendFails(c) \/ BanDone(c) \/ ReaderExit(c) \/ CloseDone(c)

\* What the read loop of c does with a message.
MessageStep(c) ==
  \/ Unchoke(c) \/ Choke(c) \/ Bitfield(c)
  \/ \E i \in Pieces : Have(c, i)
  \/ \E r \in Requests : DeliverLate(c, r)
  \/ \E r \in Requests, d \in DataFrom(c) : Deliver(c, r, d)

Surroundings ==
  \/ \E c \in Conns : Drop(c)
  \/ \E r \in Requests : Overdue(r)
  \/ Stop
  \/ \E ok \in Rechecks : Recheck(ok)

Next ==
  \/ MainStep
  \/ \E c \in Conns : ReaderStep(c) \/ MessageStep(c)
  \/ Surroundings

Spec == Init /\ [][Next]_vars
-------------------------------------------------------------------------------
(* Fairness *)

\* What a read loop does without hearing from its peer, leaving aside a connection that
\* is not lost.
Settles(c) ==
  \/ RequestSent(c) \/ HaveSent(c) \/ ReaderSendFails(c) \/ BanDone(c) \/ CloseDone(c)
  \/ conn[c] # "up" /\ ReaderExit(c)

Answering(c) == "stall" \notin Faults[c]
Reliable(c)  == Faults[c] \cap {"stall", "choke"} = {}
Answer(c, r) == DeliverLate(c, r) \/ \E d \in DataFrom(c) : Deliver(c, r, d)

\* The event loop runs every task that is ready, so every task gets its turn between
\* two rounds of the main loop: strong fairness, because a round in progress disables
\* the readers.
EventLoopFair ==
  /\ WF_vars(MainStep)
  /\ \A c \in Conns : SF_vars(Settles(c))

\* Time passes for every request.
ClockFair == \A r \in Requests : SF_vars(Overdue(r))

\* A peer that does not stall sends its bitfield and answers what it owes; one that does
\* not choke either unchokes us once we are interested.
PeersFair ==
  \A c \in Conns :
    /\ Answering(c) => SF_vars(Bitfield(c)) /\ \A r \in Requests : SF_vars(Answer(c, r))
    /\ Reliable(c)  => SF_vars(peer[c].interested /\ Unchoke(c))

FairSpec == Spec /\ EventLoopFair /\ ClockFair /\ PeersFair

-------------------------------------------------------------------------------
(* Safety *)

\* A piece is at one place: verified, or queued, or with one peer (BACKLOG DL-005).
\* _queue_piece, _pop_next_piece_for_peer and _write_piece keep it so, whoever calls them.
PieceInOnePlace == OnePlace(sched)

\* No piece falls out of the scheduler: it is verified, queued or assigned, unless a hash
\* failure took it from a sender that had moved on to it (_handle_piece_hash_failure).
PieceTracked == Tracked(sched)

\* A piece counts as complete exactly when all its blocks have arrived and verify: a bad
\* piece has been discarded before any other task runs (BACKLOG DL-003).
DoneIffVerified == DoneVerified(sched)

\* The job is complete, and its output on disk, only with every piece verified
\* (BACKLOG DL-001), however completion and the end of the job interleave.
CompleteMeansVerified == completed \/ written => AllDone

\* A piece is held only for a peer with a running read loop: whatever ends a connection,
\* and whatever is handled or sent while it ends, _handle_peer_disconnect gives its piece
\* back, even after a ban has disconnected it once.
WorkHasReader ==
  \A k \in Keys : sched.current[k] # NoPiece
    => \E c \in Conns : KeyOf[c] = k /\ reader[c].at # "off"

\* connect_to_peers never has more than max_connections connections in its list, and a
\* connection that is up is in the list and has its read loop: none is left behind by the
\* cleanup, a ban or a failed send.
ConnectionsServed ==
  /\ Cardinality(active) <= MaxConns
  /\ \A c \in Conns : conn[c] = "up" => c \in active /\ reader[c].at # "off"

\* peer_pending_count of a peer is the number of its requests in flight (comment at
\* download.py:125), as long as no send waits in drain().  It is never more, so no peer's
\* window is taken up by requests that are gone; and it is less only after a hash failure
\* that took another piece from the peer than the one that failed.
PendingCountMatches ==
  \A k \in Keys :
    LET inFlight == Cardinality(PendingOf(sched, k)) IN
    /\ sched.count[k] <= inFlight
    /\ sched.forgotten[k] = {} => sched.count[k] = inFlight

\* A block that is in flight, and so withheld from every other peer (_next_missing_block), has
\* not arrived, and the peer it was asked from still works on its piece: a request ends with
\* the work it belongs to, whether that ends by an answer, a timeout, a hash failure, a ban or
\* a lost connection.  Only a hash failure of another piece leaves requests behind.  It takes
\* that no send waits in drain().
RequestsAreWorkedOn == InFlightOfPiece(sched)

\* As long as no request has timed out, no block is owed twice, by one peer or by two
\* (BACKLOG DL-005): hash failures, bans, chokes and lost connections give work back
\* without asking again for anything that is still on its way.  It takes that no send waits
\* in drain(), that no peer is dialed a second time, and that the job is not rechecked.
NoDuplicateWork ==
  (\A k \in Keys : timeouts[k] = 0) =>
    \A c, e \in {c \in Conns : conn[c] = "up"}, r \in Requests :
      IF c = e THEN peer[c].asked[r] < 2 ELSE peer[c].asked[r] = 0 \/ peer[e].asked[r] = 0

\* The queue may be thought of as a set: in every state of the job and whatever order the list
\* is in, no helper that rebuilds it loses a piece, has one twice, or gives a peer another one
\* than the set would (_pop_next_piece_for_peer, _queue_piece, _remove_piece_from_queue).
QueueIsSet == ListIsSet(sched)

\* The job as the Web UI sees it: the contract's phases are where download() is.
Contract ==
  INSTANCE DownloadContract
  WITH manager <- [phase     |-> IF Ended THEN main.at ELSE "running",
                   running   |-> running,
                   completed |-> completed,
                   written   |-> written]

\* download() keeps its contract: it returns complete or without a peer, the output is
\* written in the step in which a complete download returns and by nothing else, and
\* completion is taken back by a recheck only.
ImplementsContract == Contract!Spec

-------------------------------------------------------------------------------
(* What the documentation says and the code does not do *)

\* "Missing blocks are retried" (docs/project/BACKLOG.md:29): no piece is lost.
NoPieceLost == Pieces = sched.done \cup sched.queue \cup Assigned(sched)

\* "repeated bad-piece peers are banned" (docs/project/SPRINTS.md:87): only those, the
\* peers that time out, and the peers that cannot be reached.
OnlyFaultyBanned ==
  \A k \in banned : \E c \in Conns :
    KeyOf[c] = k /\ Faults[c] \cap {"refuse", "stall", "corrupt", "short"} # {}

\* "Wait for completion or user stop" (download.py:895): nothing else ends the job.
EndsByCompletionOrStop == main.at = "error" => completed \/ ~running

-------------------------------------------------------------------------------
(* Liveness *)

\* A job with a reliable peer that has every piece completes and writes its output:
\* "stalled peers do not stall the whole job indefinitely" (docs/project/BACKLOG.md:29).
Completes == <>(completed /\ written)
===============================================================================
