# A TLA+ development of whatabit

whatabit is a small BitTorrent client in Python (asyncio): a download engine, a command line and a
local Web UI. This directory models it from the bytes of a `.torrent` file to the files it writes —
metadata, tracker rounds, peer connections, the scheduling of pieces and blocks, the life of a
download, its output on disk, and the jobs of the Web UI with their session file —, checks it with
TLC and proves its safety properties with TLAPS. Paths below are those of the repository
under `src/`, so `src/src/download.py` is the file `src/download.py` of whatabit.

    tlc -workers 2 -config MCDownloadManager_blocks.cfg MCDownloadManager
    tlapm DownloadManager_proofs.tla

`PROJECT.json` lists the components, the runs, the mutants, the hazards and the theorems, and maps
every definition to the lines it models.

## 1. The system

| Component | Source | State | Operations |
|---|---|---|---|
| Piece scheduler | `src/src/download.py` (`PieceState`, helpers of `DownloadManager`) | `piece_queue`, `peer_current_piece`, `pending_requests`, `peer_pending_count`, `pieces`, `downloaded_pieces` | `_request_next_block`, `_pop_next_piece_for_peer`, `_queue_piece`, `_release_peer_piece`, `_clear_pending_request`, `_handle_piece_hash_failure`, `_write_piece`, `recheck_existing_output` |
| Download engine | `src/src/download.py` | `peer_pool`, `active_connections`, `banned_peers`, `peer_timeout_count`, `peer_hash_failures`, `running`, `completed`, `output_written`; the position of each task | `download`, `get_peers`, `connect_to_peers`, `_check_request_timeouts`, the handlers of BITFIELD, HAVE, CHOKE, UNCHOKE and PIECE, `_handle_peer_disconnect`, `_flush_output`, `stop` |
| Peer connection | `src/src/peer.py` (`PeerConnection`) | the transport, `is_connected`, `peer_choking`, `am_interested`, the bitfield, the read buffer | `connect`, `read_loop`, `_send`, `disconnect` |
| Web UI jobs | `src/src/webui.py` (`WhataBitWebApp`) | `torrents`, `jobs`, the task of each job, `session.json`, the upload directory | upload, delete, start, stop, recheck, `_run_job`, `_save_session`, `_load_existing_jobs`, `shutdown` |
| Output files | `src/src/download.py` (`_write_*`, `_read_existing_piece`) | the payload files and their `.part` files | write through a temporary file and `os.replace`; read back for the recheck |
| Trackers | `src/src/tracker.py`, `src/src/http_tracker.py`, `get_peers` in `src/src/download.py` | a UDP socket and its connection id, the counters of attempts | connect, announce; one round over all trackers |
| Torrent metadata | `src/src/bencode.py`, `src/src/torrent.py` | none | decode, encode, the bytes that are hashed, the fields |
| Wire messages | `src/src/peer.py` (`build_*`, `parse_*`, `_process_buffer`) | the bytes not yet parsed | framing and parsing |
| Command line, pages | `src/main.py`, HTML in `src/src/webui.py` | none | input and output |

**Interaction.** The Web UI (or the command line) creates a `DownloadManager`, rechecks the output
that is there and runs `download()` in a task. `download()` asks the trackers, dials the peers of
the pool, starts one `read_loop` task for each connection, and from then on only wakes up every two
seconds to check the timeouts, to offer work to the connections, and to see whether it is done. All
progress comes from the read loops, which call the handlers of the manager, which send requests on
their own connection and HAVE messages on the other ones. A read loop that ends calls
`_handle_peer_disconnect`. A progress callback of the manager makes the Web UI save its session.

**What is hard.** All state of a manager is shared by the task of `download()` and all read loops,
with no lock: what protects it is that a task gives up the event loop only where an `await` really
suspends. It does so in the middle of handlers: in the `drain()` of a send, in the `wait_closed()`
of a disconnect, and the state read before is used after it. The read loops outlive `download()`.
Peers refuse, drop, choke, stall, send wrong or short blocks and answer what was given up long ago.
The Web UI's stop request cancels a task that may just be completing, two requests may wait for one
task, and the process may crash between any two saves, in the middle of an upload, or while it
writes an output. Trackers answer late, twice, or not at all, and the network cuts the bytes of a
peer where it likes.

**What makes the components correct.**

* Scheduler: a piece is at one place — verified, queued, or with one peer — and none is lost; the
  counter of a peer's requests is the number of its requests in flight; no block is asked for twice
  without reason; a piece is complete exactly when its hash is right.
* Engine: complete, and the output written, only with all pieces verified; no piece is held for a
  connection whose read loop is over; no more connections than allowed, none of them unattended;
  those and only those peers are banned that misbehave; the job completes when a good peer is there.
* Manager as seen from outside: the contract of `DownloadContract`.
* Jobs: a job is never shown or saved as complete that is not; a crash loses no status; a job that is
  stopped settles; a running job keeps its torrent; what was complete stays complete.
* Output files: what is called written is whole; a write that fails or dies takes away nothing that
  could have been resumed from.
* Trackers: peers are credited to the tracker that named them; every tracker is asked, every attempt
  counted once; a round ends; a banned peer is not taken again.
* Metadata: half a file is never a torrent; the pieces cover the files; the bytes hashed are those of
  the file.
* Wire messages: the handler gets the messages that were sent, in order and as soon as they are
  there, whatever the cuts; the end of a connection is always reported.

## 2. The modules

| Module | Models | Built on |
|---|---|---|
| `PieceScheduler` | the bookkeeping, as pure operators from a record `s` to a record | |
| `PieceQueue` | `piece_queue` as a list, and that the set in `PieceScheduler` stands for it | extends `PieceScheduler` |
| `DownloadManager` | one job: the tasks, the peers, the network, the clock and the user, as actions | extends `PieceQueue`; instantiates `DownloadContract` |
| `ManagerState` | what the Web UI sees of a manager, and how that changes | |
| `DownloadContract` | the abstract specification of one `download()` | extends `ManagerState` |
| `OutputFiles` | the output of a torrent on disk, as operators | |
| `WebJobs` | jobs, session file, output files and process of the Web UI | extends `ManagerState`, whose steps are those of the contract, and `OutputFiles` |
| `Bencode`, `BencodeEncode`, `TorrentFile` | `decode`; `encode`; what a `TorrentFile` has, as operators on bytes | each extends the one before |
| `TrackerClient` | `get_peers` over the UDP and HTTP clients, the trackers, the network | |
| `WireFormat` | the bytes of a connection: messages built and parsed, what a peer may send | |
| `PeerStream` | one connection as bytes: handshake, read buffer, messages, end | extends `WireFormat` |
| `StartUp` | from an upload to the first messages of a peer | extends `TrackerClient`, `PeerStream` and `Bencode`; what is taken out of a decoded file is its parameter `Parse` |
| `MCDownloadManager`, `MCWebJobs`, `MCStartUp` | small instances for TLC | `MCStartUp` extends `TorrentFile` too, whose `Fields` is its `Parse` |
| `PieceScheduler_proofs`, `DownloadManager_proofs`, `DownloadRequests_proofs` | theorems about a download | each extends the one before |
| `TrackerClient_proofs`, `PeerStream_proofs`, `Bencode_proofs`, then `StartUp_proofs` | theorems about the start-up | the last extends the others |
| `WebJobs_proofs` | theorems about the jobs | extends `WebJobs` |

So the parts compose through `DownloadContract`: `DownloadManager` implements it (proved, and
checked in run `network`), and `WebJobs` uses its steps for the manager of a job instead of the
whole engine. `StartUp` composes what comes before the first request for a block, and ends where
`DownloadManager` begins: of a tracker round `DownloadManager` keeps the set of peers, and of a
connection whole messages. `TrackerClient` and `PeerStream` say with `RoundCaller` and
`StreamCaller` what the rest of the client may do with a round and with a connection; `StartUp`
does no more (proved; of the rounds also checked, in run `startup`).

### PieceScheduler

The record has a field for each dictionary or list of the class: `queue`, `current`
(`peer_current_piece`), `owner` (`pending_requests`, whose value is the peer), `late` (the requests
in it that are older than `BLOCK_REQUEST_TIMEOUT`), `count` (`peer_pending_count`), `blocks`
(`PieceState.blocks`), `done` (`is_complete`, the verified pieces and `downloaded_pieces`, which
change in one uninterrupted step). `forgotten` is history and not in the code: for each peer, the
pieces that a hash failure has taken from it while it was working on another piece (finding *lost*). Every helper of
the class that changes the bookkeeping is an operator with the helper's effect; a handler is the
composition of the helpers it calls, in the code's order.

`piece_queue` is a list in the code, which `__init__` shuffles, and `PieceScheduler` has the set of its
pieces. `PieceQueue` has the three helpers that work on the list: `Queued` (`_queue_piece`), `Popped`
(`_pop_next_piece_for_peer`, which pops piece after piece and puts the list together again from what it skipped
and what it has not come to) and `Removed` (`_remove_piece_from_queue`; as the code's list
comprehension, on a list that has nothing twice). `ListIsSet` says that on a list in any order they leave
what the operators of `PieceScheduler` leave in the set. The pass over the list is a machine whose step is
`PassStep`, so that it can be proved about.

### DownloadManager

`main.at` is where `download()` is suspended, `reader[c].at` where the read loop of connection `c`
is, with what they hold across the suspension (`req`, `on`, `expired`, `poll`):

| `main.at` | `download.py` | | `reader.at` | |
|---|---|---|---|---|
| `peers` | `await get_peers()` | | `off` | no read loop (yet, or any more) |
| `dial` | `await conn.connect()` | | `read` | waiting for the peer |
| `nap` | the sleep in `connect_to_peers` | | `drain` | a request is being sent |
| `sleep` | the sleep of the main loop | | `have` | HAVE is being sent to `on` |
| `expire`, `shut` | `_check_request_timeouts`, in its loop / in a disconnect | | `ban` | disconnecting the peer it has banned |
| `poll`, `drain` | the loop over the connections / in a send | | `close` | the `disconnect()` at the end of `read_loop` |
| `end`, `error` | `download()` is over | | | |

`expire` and `poll` are not suspensions: the code runs a loop there, one action per round for
readability, and `LoopFree` keeps every other task from running in between. `conn[c]` is the
transport: `up` is `is_connected`, `closing` a transport that is lost or being closed and whose
writer still exists, `down` no writer. `peer[c]` is what we know of the peer, and `asked`, the
answers it still owes. `Sends(c)` is the one place that says what a send may do: it goes out, it goes
out but `drain()` waits (`slow`), it meets a lost connection (`drop`), or it is dropped silently
because the connection has no writer.

Actions of the main task: `PeersFound`, `TrackerRaises`, `DialOk`, `DialFails`, `DialRaises`,
`NapOver`, `SleepOver`, `Expire`, `Shut`, `ExpireDone`, `Poll`, `PollSent`, `PollRaises`,
`PollDone`. Of a read loop: one for each message (`Unchoke`, `Choke`, `Bitfield`, `Have`, `Deliver`,
`DeliverLate`), and what follows a suspension (`RequestSent`, `HaveSent`, `ReaderSendFails`,
`BanDone`, `ReaderExit`, `CloseDone`). `Deliver` is the whole of `_handle_piece` up to its
first suspension: it adds the block, and then asks for the next one (`DeliverBlock`), records the
verified piece, reports it and announces it (`DeliverPiece`), or discards the piece and blames the sender
(`DeliverCorrupt`). Around them: `Drop`, `Overdue`, `Stop`, `Recheck`.

`Faults`, a constant, says what may go wrong with which connection, so that a run can choose its
faults and a theorem holds for every choice.

Abstractions of these two modules:

* every piece has `NumBlocks` blocks; the bytes of a block are good, bad, or too short;
* the queue is a set: `__init__` shuffles it, and every order of it is a possible choice; that it can be one is `QueueIsSet`;
* the list of expired requests is worked through in any order; HAVE is sent to any one of the connections
  that may suspend the send (`Fragile`), and to one of them more than once if it suspends;
* a peer answers what it was asked and nothing else; what it owes for one block is capped by `MaxAsked`;
* it unchokes us only while it chokes us;
* a FIN and a reset are both `Drop` followed by `ReaderExit`, which also stands for
  `send_interested` failing on a reset connection;
* a tracker round yields one of the sets in `Answers`, or raises; a UDP announce really blocks the
  event loop, while here other tasks may run during it, which adds behaviours and removes none;
  the truncation to `max_peers` is not modelled;
* `Stop` is the `stop()` and the `cancel()` of `stop_download` and the cancellation itself in one;
  WebJobs has them apart;
* connections are finitely many (`Conns`): a reconnection uses a fresh one.

### ManagerState, DownloadContract

Phase, `running`, `completed`, `written`. A running download completes at any time; it returns
complete, with its output written unless that failed, or incomplete and not running; it raises; it
is cancelled; and it is rechecked only when it is over. A read loop may complete a manager even
after its `download()` is over.

### WebJobs

`jobs[j]` is a `DownloadJob` with its manager, the state of its task (`created`: scheduled and not
yet run), whether the task is `cancelled` and has not noticed, and how many stop requests wait for it
(`stops`). `session` is `session.json`; `Leaves` is a change of a job followed by `_save_session`,
which writes to a temporary file and replaces, hence one step. `Stop` and `StopDone` are the two halves of
`stop_download` around its await; `Shutdown`, `CloseJob`, `Exit` are `shutdown`, which awaits one
job after the other. `StartFails` is a recheck that raises in `start_download`. `Crash` forgets
everything but the files; `Restart` is `create_app`.

`output[t]` is the disk under the output directory of a torrent. `Return` writes it: `Outputs` says
that `_flush_output` of a complete download has been through all files, or raised somewhere, which
download() does not learn of. `CrashWriting` is the process dying there, or after it and before the
next save.

Abstractions: jobs of one torrent share the directory; the progress figures, the settings, the
paths and the read-only handlers are left out; an uploaded torrent that was deleted and uploaded
again would get a fresh id, so it is not uploaded again while a job knows it; a closing process
takes no requests.

### OutputFiles

The content of a file is the set of pieces whose bytes in it are right — a piece may span files, and
verifies only if it is right in each of them —, or that it is missing, or that it has a wrong
length, which makes `_read_existing_payload` give up on the whole torrent. A second component says
which files have a `.part` file beside them. `Writing(d, k, opened)` is the disk after k files have
been through `_write_file_atomic` and, if `opened`, with the temporary file of the next one begun;
`Interrupted` is any of those short of the end.

### TrackerClient

`at` is where `get_peers` is: between two trackers, in `recvfrom` for a connect or an announce, in
`http_announce`, over, or left by an exception. `urls` are the announce URL and those of the
announce-list, `pos` is the one it looks at next: `Skip` passes over a URL of another scheme and over the
announce URL when it comes again. The socket calls block the event loop, but not the
network. `asked` are the requests a tracker may still answer, `replies` the answers under way. Any
of those may be what `recvfrom` returns, also one to a request that the client has given up, since
the port of a closed socket may be given to the next one; `Delivers` leaves it there to come again.
`Accepted` is what udp_connect and udp_announce check; `Refused` is every other datagram, which
fails the tracker at once; `TimedOut` includes a host name that does not resolve. `SocketRaises` is
an exception that `_contact_udp_tracker` does not catch. `RoundCaller` is all that the rest of the
client does with a round, so that `RoundSpec` stands on its own and can be proved about.

Abstractions: a transaction id is the number of the request (32 random bits in the code, so two of
them could coincide); an address that several trackers name is found once; which peers survive the cut to
`max_peers` is arbitrary, as the code shuffles them.

### WireFormat, PeerStream

`sent` is what the peer sends: its greeting, its messages, their bytes, and where in the bytes each
message starts. `Framed` says what that means without a fold: the bytes between two starts are
those that `build_message` makes of the message. `taken` is how many bytes the client has read,
`buffer` what it has read and not parsed. `Reads(n)` takes any n next bytes, so cuts fall anywhere; what
has arrived and was not read needs no variable. `Handles` takes one message out of the buffer and
calls the handler, which may suspend, so that `Disconnect` — a ban or a timeout in another task —
comes between any two messages. `Malformed` are the payloads that make the handler raise. A bitfield
may be shorter than the torrent has pieces: `Bits` is then as short, and a HAVE for a piece beyond it is
lost. `Opens` and `Drop`, which are `StreamCaller`, are all that the rest of the client does.

Abstractions: a handshake is `HandshakeLen` bytes and right, of another torrent, or garbage; what is
sent to the peer and what a block does are left to `DownloadManager`; no piece is complete yet.

### Bencode, TorrentFile, StartUp

Bytes are numbers, a Python object is a pair of its kind and its content, and an operator that may
raise returns the empty sequence then. `Decode` runs a machine, so that no operator in `Bencode` is
recursive and its theorems can be proved: `DecodeNext` is `_decode_next` from one byte it looks at to
where it returns, raises or calls itself, and the calls that wait are the lists and dictionaries that are open
(`holds`, the innermost first; a dictionary with the `key` whose value is due). `Return` hands an object to the
caller: `With` puts it into the list or the dictionary, or it is what `decode` returns.

`BencodeEncode` and `TorrentFile` are for TLC only. `EncodeBy` has the order of the keys as a parameter:
`Encode` is the code's, by encoded key, and `Canonical` that of BEP 3, by key, in which the torrents of
other tools are written.

`StartUp` uploads a file chunk by chunk; `Interrupted` leaves it as it is and loads it at the next
start. `Load` is `TorrentFile(path)`: `Decode`, and then the parameter `Parse`, which may be anything for
the proofs; in `MCStartUp` it is `Fields` of `TorrentFile`, and the files are `Canonical`, one of them with a byte
after its object. A torrent that is loaded is started: rounds of `TrackerClient`, whose peers go to the
pool, and one connection of `PeerStream` after the other; a peer that fails to connect is banned.
One connection is followed at a time, and a datagram does not outlive the dialing of a peer.

### Slips

A definition whose comment begins with "Slip" is not part of the model. It is the definition after
it with a plausible bug: a dropped guard, a counter that is not reset, a missing save. Each property
of a passing run has one that TLC finds to violate it when it is put in the original's place
(`mutants` in `PROJECT.json`).

## 3. The runs

Sizes are those of a complete search.

| Run | Instance | Checks | States |
|---|---|---|---|
| `blocks` | 2 pieces of 2 blocks; c1 drops, chokes, corrupts and stalls; c2 has one piece | `TypeOK`, `PieceInOnePlace`, `PieceTracked`, `DoneIffVerified`, `PendingCountMatches`, `RequestsAreWorkedOn`, `NoDuplicateWork`, `QueueIsSet` | 744,074 |
| `network` | 2 pieces of 1 block, 3 connections to 2 peers, at most 2 at a time; sends that suspend, refused and broken handshakes, short blocks, tracker and disk that fail, stop, recheck | `CompleteMeansVerified`, `WorkHasReader`, `ConnectionsServed`, `ImplementsContract` | 687,766 |
| `stall` | a stalling peer and a reliable seed, room for both; fairness | `Completes` | 2,447 |
| `jobs` | 2 jobs of one torrent of 3 pieces in 2 files, one piece across both; no output, a partial one or one of a wrong length at first; 2 waiting stop requests, 1 crash; fairness; deadlock is checked | `TypeOK`, `NoFalseComplete`, `CrashLosesNothing`, `ActiveHasTask`, `TaskHasTorrent`, `WrittenIsWhole`, `ResumeNeverShrinks`, `CompleteSurvives`, `StopSettles` | 178,253 |
| `startup` | 4 torrents, one in a longer file and one whose sizes do not fit, and 6 objects that are none, uploaded whole or in part; 4 trackers (2 UDP, 1 HTTP, 1 of another scheme) and no tracker, 2 rounds, 4 UDP requests; 10 pieces, 3 peers that send 6 streams; fairness | `TypeOK`, `NoHalfTorrent`, `PiecesCoverFiles`, `PeersFromTheirTracker`, `AttemptsAccounted`, `EveryTrackerTried`, `DeliveredInOrder`, `NothingHeldBack`, `BitsAsAnnounced`, `RoundsAsSpecified`, `NeverRedialed`, `RoundEnds`, `EndIsReported` | 144,224 |

Seven more runs show where the program does not do what its documents say (section 6): `pool`,
`choke`, `lost`, `blame`, `eof`, `jobs_stop`, `infohash`.

**What the properties say.** `PieceInOnePlace` and `PieceTracked` together say that the places of
the pieces are a partition, except for the `forgotten` ones. `PendingCountMatches` compares the
counter that opens and closes a peer's request window with the requests in flight, after any mix of
answers, timeouts, hash failures and disconnects of the same request. It is for instances without
suspended sends: with them, a request is registered after its connection was cleaned up, and the
counter leaks (a hazard in `PROJECT.json`, with no promise broken). `RequestsAreWorkedOn` is for the same
instances and ties `pending_requests` to `peer_current_piece` and to the blocks that are there: a block in flight is
withheld from all other peers, so a request must not outlive the work of its peer on the piece, nor the
arrival of the block, from whichever peer. `NoDuplicateWork` looks at what
the peers still owe, not at the manager's own books. `QueueIsSet` looks, in every
state, at every order the queue may have in it and every bitfield a peer may have; two pieces are enough for a piece
that is skipped, one that is selected and one that is not looked at any more, two at a time, and the theorem is for any number. `WorkHasReader` is what a leak of a piece would
look like: nobody would ever give it back. `StopIsHonest` and `CompleteSurvives` relate a step to
the state before; `ImplementsContract` the whole behaviour to the contract. `ResumeNeverShrinks`
holds because a file is replaced and never written in place, and because a file that is replaced
gets the bytes of every piece in it; with it, whatever a crash leaves is worth a recheck.
`WrittenIsWhole` is for jobs that ran in this process: one that was complete in an earlier process
calls its output written when anything is there (`_load_existing_jobs` takes `output_exists` for
it). `NoHalfTorrent` is about uploads that are bencoded objects: a file with
anything after its object is rejected as a whole, and the part of it that is the object is accepted when
the upload is cut there. `PiecesCoverFiles` is about torrents with as many hashes as their files
have pieces (`SizesFit`), which the code does not check; with other numbers the last piece is empty, too long or
of negative length. `PeersFromTheirTracker` compares the result of a round with what the trackers that count as
successful know, and `EveryTrackerTried` with the announce-list in the file, so that it spans the
parser, the flattening of the tiers and the round. `DeliveredInOrder` and `NothingHeldBack` are the
two halves of a correct reassembly, safety of either being trivial without the other.
`BitsAsAnnounced` compares the bitfield with the history of messages; a piece that a bitfield is too
short for counts as announced only by a later bitfield, as the code takes no HAVE for it.
`RoundsAsSpecified` says of every behaviour of the whole what `ImplementsContract` says of an engine:
its rounds begin, end and leave their peers as `TrackerClient` has it.

**Bounds.** Two peers are the fewest that can contend for a piece, and two pieces the fewest for a
peer to be on another piece when a late block arrives. Two blocks are needed for a piece that two
peers have each sent a part of, and for a window (`MaxPipelined = 2`) that is neither empty nor full;
runs about the life of connections need one. `MaxTimeouts` and `MaxHashFailures` are 2 (5 and 2 in
the code): one that counts and one that bans. `MaxAsked = 2` is one more than `NoDuplicateWork`
allows. `MaxConns` is as many as there are connections where the limit is not the subject, one less
in `network`, where a reconnection waits for its turn, and 1 in `pool`. Two stop requests are the
fewest that overtake each other; a second crash finds nothing that the first does not, as a restart
starts from the files only. Two files and a piece across both are the fewest for which a write can
be cut where a piece is half old and half new. Two UDP trackers are the fewest for which an answer of one
can arrive in the exchange with the other, four requests are a connect and an announce
to each, two rounds let a peer that was banned in the first be named again in the second, and
`MaxPeers = 2` is one less than there are peers. In `startup` keys are one byte long,
which keeps the strings short and makes the code's order of keys the right one; `infohash` has the real
names. A handshake is two bytes (68) and a read at most 16 (4096): the longer streams take several
reads, and every cut happens. Ten pieces take two bytes of a bitfield, the second with spare bits; one
byte leaves out two pieces. No symmetry is used: the connections differ in their faults.

**Deadlock** is not checked for `DownloadManager`, where a job that is over, with its connections
closed, really stops, nor for `StartUp`, where a rejected torrent or a job without peers does. It is
checked for `WebJobs` in run `jobs`: a shutdown always gets to its end, although it awaits tasks
that stop requests await too.

**Fairness.** `DownloadManager!FairSpec`: asyncio runs every task that is ready, hence weak fairness
of the main task's step. The steps of a read loop that do not depend on its peer are strongly fair,
since a round of the main loop that is in progress disables them (`LoopFree`) and the main loop
makes infinitely many rounds. Time passes: a request that gets no answer in time becomes overdue
(strong, for the same reason). A peer that does not stall sends its bitfield and answers what it
owes; one that does not choke either unchokes us. Nothing is assumed of the other peers, of the
user, or of the network: a connection without `drop` in its faults may stay up for ever.
`WebJobs!FairSpec`: weak fairness of what the event loop has ready — a cancelled task, a handler
whose task is over, the shutdown in progress. That a download ends by itself, and that a user does
anything, is not assumed. `StartUp!FairSpec`: weak fairness of what the client does in a round, to
which the timeouts of its sockets and of its HTTP session belong, and of what it does on a
connection: the timeout of the handshake, the end of a read from a connection that is over, the work
on what was read. No answer of a tracker, no byte of a peer and no end of a connection is assumed.

## 4. The proofs

All proofs are for every value of the constants that satisfies the assumptions: finitely many pieces
and connections, positive limits (`PiecesAssumption`, `BlocksAssumption`, `PipelineAssumption`,
`ConnsAssumption`, `LimitsAssumption`), the "nothing" values are not elements of the sets they
extend (`KeysAssumption`, `NoReqAssumption`), a tracker round names a peer once (`get_peers` returns
a set of addresses), and a job is not started when everything is there (`JobAssumption`, from
`start_download`). For `WebJobs`: every piece has bytes in some file, a torrent that is not
multi-file has one (`FilesAssumption`), the values for "none", "missing" and "wrong length" are not
jobs or contents, and bounds are numbers. For `TrackerClient`: addresses are finitely many, and
every tracker has a scheme and a set of peers (`TrackersAssumption`, `BoundsAssumption`). For
`PeerStream`: the number of pieces fits four bytes (`SizesAssumption`), and a peer sends framed
messages, whatever is inside (`StreamsAssumption`). For `StartUp`: whatever part of an upload is
loaded, what comes out is nothing, or a torrent whose trackers are among `Urls`, with any number of pieces and
any sizes (`UploadsAssumption`, `StreamsOfAssumption`, `RoundsAssumption`). `Bencode` has no
constants and its theorems no assumptions. Nothing is assumed of faults,
cuts and losses. TLC evaluates the assumptions in every run.

* **`PieceScheduler_proofs`** has one lemma per helper: it keeps the record's type, `OnePlace`, and
  that only pending requests are late (`Placed`), and where it holds, `Tracked` (`Placed` and
  `Tracked` are `Sound`). `HashFailure` and `Disconnected` compose helpers that pass through states
  that are not `Tracked`, so they have lemmas of their own on `Sound`. `OnlyGives` says that no helper called
  for a peer gives a piece to another one. `ListIsSetWherePlaced` shows that the set is the right
  abstraction of the queue where every piece is at one place: `PassedBy` is the invariant of the loop in
  `_pop_next_piece_for_peer` (what it has come by is in one of the two new lists, selected, or dropped, and nothing
  twice), `PassStepKeeps` its step, and `PassKeeps` the induction over the list.
* **`DownloadManager_proofs`** proves `Spec => []IInv`, one lemma per action or group of actions that
  end alike, and from it the safety properties of `blocks` and `network`, but for the three about
  requests in flight, which have the next module.
  `IInv` adds to the properties what they need to be inductive:
  - `Suspended`: a task that comes back from a suspension finds a request or connection to go on with.
    Without it, `RequestSent` would register `NoReq`;
  - `UpIsServed`: a connection that is up is listed and has a read loop. This is
    what a request sent by the main task needs for `WorkHasReader`: it may assign a
    piece, and it only does so on a connection that is up;
  - `Room`: while a peer is dialed there is room for it, as the test of `max_connections` lies before the
    await and the insertion after it; nothing else inserts in between;
  - `DoneIffVerified`, which makes `NextRequest` and `Deliver` agree on what is left of a piece: a
    verified piece has no missing block, so no stale answer or registration can reopen it.
* The second part of `DownloadManager_proofs` proves the refinement, `Spec => ImplementsContract`. The mapping shows
  `phase` as `running` until `download()` is over. It needs `CInv`: `IInv`, that a download which is
  not over is running and has written nothing (`Unwritten`: otherwise a return could not be
  told from a step that takes the output back), and that nothing can complete before the first
  tracker round (`NothingYet`: `download()` gives up without peers there, and the contract
  allows that only for an incomplete job). `MainCases` sorts the steps of the main task by how they look
  from outside: it goes on, returns complete, returns empty-handed, or raises.
* **`DownloadRequests_proofs`** proves `PendingCountMatches`, `RequestsAreWorkedOn` and `NoDuplicateWork`, each with the
  hypotheses it needs, which run `blocks` satisfies. All need that no send suspends (`NoSendWaits`:
  no connection has the fault `slow`); with such sends a counter leaks, see the hazard. `Accounted`
  is what every helper and every handler keeps: a block in flight has not arrived and is of the piece
  its peer works on, or of one that it was made to forget; and the counter of a peer that has
  forgotten none is the number of its requests in flight. `PendingCountHolds` and `RequestsWorkedOnHolds` need nothing else: peers
  are dialed again, requests time out, jobs are rechecked. `NoDuplicateHolds` is about peers that are
  dialed once (`NoRedial`), and says nothing of a job that is rechecked after its end, when read loops
  from before it still get answers; in both cases a block can be owed twice, as TLC shows on
  such instances. Its invariant `OwedOnce` ties each answer on its way to a
  connection with a read loop to a request that is in flight from its peer, one answer to one request; `Silenced`,
  `Untouched` and `ToDial` say why the other connections owe nothing.
* **`WebJobs_proofs`** proves all safety properties of run `jobs`, state and action properties, for
  any jobs, torrents, files, stop requests and crashes. `IInv` has two parts. `JobOK` is what is
  right of one job: a complete job has a complete manager, an active one somebody who will end that,
  a task implies an active status and a torrent that is kept, a cancelled one a stop request or a
  process that closes, and a job that calls its output written has it whole. The link from task to
  status is what makes `TaskHasTorrent` inductive, since `delete_torrent` looks at the status and
  not at the task. `SessionOK` is how the session file follows the jobs: what it shows of a job is
  what a restart makes of the job, and it has no job the process does not have, unless its torrent
  is gone. Almost every action brings one job from one record to another; `JobStep` says once what
  that has to establish. `WritingKeeps` is the lemma about files behind `ResumeNeverShrinks`: for
  any number of files and any k, what verified before the write verifies after it.
* **`TrackerClient_proofs`** proves `PeersFromTheirTracker` and `AttemptsAccounted`, for any number
  of trackers, peers and requests. The invariant is `LastIsCurrent`: no request has a higher number
  than the last one, and while the client waits, the last one went to the tracker it is at. A reply
  whose number is that of the last request is then from this tracker, however long others have been
  under way. `TriedSoFar` says which trackers were tried when the client is at `pos`.
* **`PeerStream_proofs`** proves `DeliveredInOrder`, `NothingHeldBack` and `BitsAsAnnounced`, for any
  streams, any cuts and any end of the connection. The invariant is `Position`: for some n the buffer
  is what was read of the stream after its n-th message, and the handler has had those of the first
  n messages that are for it. Three groups of lemmas carry it: four bytes are read as the number they
  were written for (`WordRead`, `WordWritten`); a buffer that begins like a message is parsed as that
  message or not at all (`ParseMessage`, `NoMessage`, `WholeMessage`); and the starts of the messages
  grow (`StartsGrow`). The last one is an induction over the stream, done as a look at the least
  counterexample (`LeastNumber`). `BitsKnown` is the invariant behind `BitsAsAnnounced`: the
  bitfield is that of the last BITFIELD message with the HAVEs since then, cut at its length.
* **`Bencode_proofs`** proves that no bencoded object is the beginning of another one
  (`DecodeIsPrefixFree`), for any bytes and any nesting, and that `Decode` gives its machine enough steps
  (`DecodeEnds`). First, a number or a string is read in the same way whatever follows it (`ReadUntilSame`,
  `ReadNumberSame`, `ReadBytesSame`); so is every step, unless it raises for want of bytes (`DecodeStepAlike`); so
  are n steps (`DecodingAlike`). A machine that has finished with nothing left to read has therefore
  finished, in the longer file, with the difference left to read, which `decode` refuses. That the function `Decoding`
  is the one its definition describes is proved too (`DecodingSteps`, from functions on
  0..n that exist for every n and agree): no induction theorem of the library can be applied to it. The
  inductions are looks at a least counterexample here as well.
* **`StartUp_proofs`** proves that the composition implements its two parts,
  `Spec => RoundsAsSpecified` and `Spec => StreamSpec` (`StreamsGoBy`), step by step, so that the theorems about
  them hold of the whole (`PeersFromTrackersHolds`, `AttemptsCountedHolds`, `StreamsHold`); and of the
  composition itself `TypeOK`, `EveryTrackerTried`, `NeverRedialed`, `NoHalfTorrent`, from
  `DecodeIsPrefixFree` and that a torrent comes from a file that decodes (`FromFile`), and `PiecesCoverFiles`, which is
  arithmetic on the multiples of the piece length (`Multiples`): the piece of a byte is the first
  one that ends at or after it. `IInv` adds to the invariants of
  the parts what they need of each other: while a round goes on there is no connection, nobody to dial
  and nobody dialed (`Apart`), so that `Ban` never comes between the selection of the peers, which
  leaves the banned ones out, and their dialing (`NoneBanned`); and that the URLs of a round are those
  of the torrent (`OfTorrent`).

The inductive invariants were checked with TLC on the runs before they were proved.

**Only model-checked.** `Completes`, `StopSettles`, `RoundEnds` and `EndIsReported` are liveness under
fairness, which the prover does not cover, as it does not cover `ENABLED`. Every other property of the
passing runs is a theorem. What `encode` and `TorrentFile` compute (`BencodeEncode`, `TorrentFile`) is
in recursive operators, of which the prover takes none; it is checked by run `infohash` and by the torrents of
run `startup`.

## 5. What is not modelled

* UDP `scrape`, `build_cancel`, `build_bitfield_from_pieces` and `send_unchoke`: nothing calls them.
* The layout of tracker requests, URLs and compact peer lists, and of the handshake: fixed formats without
  a decision that a property tells apart.
* Paths: the checks that an output stays in its directory, clashes between the `.part` name of one file and
  the name of another, and a single-file output with bytes after its end, which a recheck accepts.
* Progress figures, speed, settings and the order of the tracker events shown.
* The command line (`src/main.py`), the HTML and JavaScript of the page, logging: input and output, no
  state of the download.
* A full disk while the session or an upload is written, and a JSON file that somebody has edited.
* Several connections byte by byte: `PeerStream` has one, `DownloadManager` several with whole messages.

## 6. Where the program differs from its documents

Each of these runs ends in a violation of one property.

| Run, property | The program | The document |
|---|---|---|
| `pool`, `Completes` | `connect_to_peers` (`download.py:834`) returns when its pool is empty; before that no request times out. A stalling peer in every slot keeps the others out for ever | "stalled peers do not stall the whole job indefinitely" (`docs/project/BACKLOG.md:29`) |
| `choke`, `Completes` | a CHOKE releases nothing, and a choking peer is not asked again (`download.py:770`), so its piece stays with it as long as it is connected | the same line |
| `lost`, `NoPieceLost` | `_handle_piece_hash_failure` (`download.py:525`) releases the sender's current piece without queueing it, also when that is another piece than the failed one | "Missing blocks are retried" (`docs/project/BACKLOG.md:29`) |
| `blame`, `OnlyFaultyBanned` | the peer that sends the last block of a bad piece is blamed (`download.py:507`), whoever sent the bad one | "repeated bad-piece peers are banned" (`docs/project/SPRINTS.md:87`) |
| `eof`, `EndsByCompletionOrStop` | `IncompleteReadError` is not caught in `connect` (`peer.py:283`); one peer that hangs up in the handshake ends the job | "Wait for completion or user stop" (`download.py:895`) |
| `jobs_stop`, `StopIsHonest` | `stop_download` answers complete (`webui.py:454`) for a job it has cancelled before the output was written | "Stopping a download does not produce a misleading “complete” output" (`docs/project/PROJECT_CHARTER.md:43`) |
| `infohash`, `InfoHashIsOriginal` | `encode` sorts keys by their encoding (`bencode.py:31`), which puts `12:piece length` before `4:name`; the re-encoded info dictionary has another order than the file, and so another hash | "We need the exact byte sequence of the info dict for hashing" (`torrent.py:26`) |

The properties of the passing runs are stated around these: `PieceTracked`,
`PendingCountMatches` and `RequestsAreWorkedOn` except the `forgotten` pieces of *lost*, `stall` has room for all its peers and none that chokes, and `startup`
has short keys. `CrashLosesNothing` and `ActiveHasTask` except jobs that have never started (`Unstarted`):
`start_download` lists a job (`webui.py:347`) before a recheck that may raise, and does not take it
back, so that it stays queued without a task and unsaved.

## 7. Plan

Done: every component of section 1 but the command line and the pages, with the runs above; the
safety proofs of the scheduler, the engine, its contract and its requests, the jobs with their files,
the tracker rounds, the connections, and the start-up that composes the last two; and that the queue may be a set.
Left: that each connection of `DownloadManager` implements `PeerStream` with whole messages in place of
bytes.
