-------------------------------- MODULE StartUp --------------------------------
(***************************************************************************)
(* From an uploaded .torrent file to the first messages of a peer: the      *)
(* upload and the loading of the file (src/src/webui.py), the tracker       *)
(* rounds (TrackerClient), and one peer connection after the other          *)
(* (PeerStream), as download() and connect_to_peers (src/src/download.py)   *)
(* call them.  What is taken out of a decoded file is a parameter, which is *)
(* Fields of TorrentFile in MCStartUp.                                      *)
(*                                                                          *)
(* One connection is followed at a time; what several of them do together   *)
(* is in DownloadManager.  A datagram of a tracker does not outlive the     *)
(* dialing of a peer.                                                       *)
(*                                                                          *)
(* A definition whose comment starts with "Slip" is not part of the model   *)
(* (see PieceScheduler).                                                    *)
(***************************************************************************)
EXTENDS TrackerClient, PeerStream, Bencode

CONSTANTS
  Uploads,    \* files that may be uploaded: their bytes, and those of their info dictionary
  Parse(_),   \* the TorrentFile of a file that decodes to this object; <<>> when that raises
  StreamsOf,  \* what each peer may send
  MaxRounds,  \* bound: tracker rounds
  NoPeer      \* "no peer"

NoTorrent == <<>>

\* TorrentFile(path), for a file with these bytes.
Load(bytes) == IF Decode(bytes) = Raises THEN NoTorrent ELSE Parse(Decode(bytes)[1])

\* What is loaded names trackers, in its announce URL and in the tiers of its announce-list,
\* and has pieces, whose sizes are numbers that need not fit.
Loadable(t) ==
  /\ t = <<t[1]>> /\ t[1].announce \in Urls /\ FlattenSeq(t[1].tiers) \in Seq(Urls)
  /\ t[1].pieces \in Nat /\ t[1].pieceLength \in Int /\ t[1].total \in Int

ASSUME UploadsAssumption == \A u \in Uploads :
  /\ u.bytes \in Seq(Byte)
  /\ \A n \in 0..Len(u.bytes) :
       LET t == Load(SubSeq(u.bytes, 1, n)) IN t # NoTorrent => Loadable(t)
ASSUME StreamsOfAssumption == StreamsOf \in [Peers -> SUBSET Streams]
ASSUME RoundsAssumption == MaxRounds \in Nat /\ NoPeer \notin Peers

VARIABLES
  stage,    \* of the torrent: upload, rejected, skipped, ready, started, no_peers
  upload,   \* what is being uploaded
  file,     \* the bytes in the upload directory
  torrent,  \* the TorrentFile, if there is one
  pool,     \* peer_pool
  dialed,   \* the peer of the connection
  rounds    \* history: tracker rounds so far

fileVars == <<stage, upload, file, torrent>>
dialVars == <<pool, dialed, rounds>>
vars == <<fileVars, roundVars, dialVars, streamVars>>

TypeOK ==
  /\ stage \in {"upload", "rejected", "skipped", "ready", "started", "no_peers"}
  /\ upload \in Uploads
  /\ \E n \in 0..Len(upload.bytes) : file = SubSeq(upload.bytes, 1, n)
  /\ torrent # NoTorrent => Loadable(torrent)
  /\ RoundTypeOK
  /\ pool \subseteq Peers
  /\ dialed \in Peers \cup {NoPeer}
  /\ rounds \in 0..MaxRounds
  /\ StreamTypeOK

Init ==
  /\ stage = "upload"
  /\ upload \in Uploads
  /\ file = <<>>
  /\ torrent = NoTorrent
  /\ RoundInit
  /\ pool = {}
  /\ dialed = NoPeer
  /\ rounds = 0
  /\ StreamInit

-------------------------------------------------------------------------------
(* The torrent *)

\* upload_torrent writes the next chunk to the file.
Chunk ==
  /\ stage = "upload"
  /\ \E n \in (Len(file) + 1)..Len(upload.bytes) : file' = SubSeq(upload.bytes, 1, n)
  /\ UNCHANGED <<stage, upload, torrent, roundVars, dialVars, streamVars>>

\* The file is loaded, and kept if that does not raise; otherwise `unfit` is its fate.
Loads(unfit) ==
  /\ torrent' = Load(file)
  /\ stage' = IF torrent' = NoTorrent THEN unfit ELSE "ready"
  /\ UNCHANGED <<upload, file, roundVars, dialVars, streamVars>>

\* upload_torrent has the whole file.
Uploaded ==
  /\ stage = "upload" /\ file = upload.bytes
  /\ Loads("rejected")

\* The browser goes away or the process dies; the file is left as it is, and
\* _load_existing_torrents finds it at the next start.
Interrupted ==
  /\ stage = "upload"
  /\ Loads("skipped")

-------------------------------------------------------------------------------
(* Tracker rounds *)

TrackerRound ==
  /\ rounds < MaxRounds
  /\ rounds' = rounds + 1
  /\ Begin(torrent[1].announce, FlattenSeq(torrent[1].tiers))
  /\ dialed' = NoPeer
  /\ UNCHANGED <<upload, file, torrent, pool>>

\* download() is called.
Start ==
  /\ stage = "ready"
  /\ stage' = "started"
  /\ TrackerRound
  /\ UNCHANGED streamVars

\* No peer is connected or left to dial: the main loop contacts the trackers again.
Recontact ==
  /\ stage = "started" /\ pool = {}
  /\ loop = "failed" => dialed \in banned
  /\ Drop
  /\ TrackerRound
  /\ UNCHANGED stage

\* Slip: an exception that leaves get_peers is taken for a round without peers.
TakesRaised ==
  /\ at \in {"done", "raised"}
  /\ pool' = selected
  /\ stage' = IF selected = {} /\ rounds = 1 THEN "no_peers" ELSE stage
  /\ Clear
  /\ UNCHANGED <<upload, file, torrent, counters, banned, dialed, rounds, streamVars>>

\* get_peers has returned, and its locals are gone.  When the first round has found nobody,
\* download() returns.
TakePeers ==
  /\ at = "done"
  /\ pool' = selected
  /\ stage' = IF selected = {} /\ rounds = 1 THEN "no_peers" ELSE stage
  /\ Clear
  /\ UNCHANGED <<upload, file, torrent, counters, banned, dialed, rounds, streamVars>>

-------------------------------------------------------------------------------
(* Connections *)

\* connect_to_peers dials the next peer of the pool; one that failed before is banned.
Dial ==
  /\ loop = "failed" => dialed \in banned
  /\ \E p \in pool : \E s \in StreamsOf[p] :
       /\ pool' = pool \ {p}
       /\ dialed' = p
       /\ Opens(s)
  /\ UNCHANGED <<fileVars, roundVars, rounds>>

\* connect() has returned False.
Ban ==
  /\ loop = "failed" /\ dialed \notin banned
  /\ banned' = banned \cup {dialed}
  /\ UNCHANGED <<fileVars, at, plan, netVars, counters, tried, answered, found,
                 selected, dialVars, streamVars>>

-------------------------------------------------------------------------------
RoundGoesOn == RoundNext /\ UNCHANGED <<fileVars, dialVars, streamVars>>
StreamGoesOn == StreamNext /\ UNCHANGED <<fileVars, dialVars, roundVars>>

Next ==
  \/ Chunk \/ Uploaded \/ Interrupted
  \/ Start \/ Recontact \/ TakePeers
  \/ Dial \/ Ban
  \/ RoundGoesOn \/ StreamGoesOn

Spec == Init /\ [][Next]_vars

\* The event loop runs what is ready, a socket has a timeout, and wait_for ends a handshake.
FairSpec ==
  /\ Spec
  /\ WF_vars(RoundStep /\ UNCHANGED <<fileVars, dialVars, streamVars>>)
  /\ WF_vars(StreamStep /\ UNCHANGED <<fileVars, dialVars, roundVars>>)

-------------------------------------------------------------------------------
(* Safety *)

\* Slip: the last piece is as long as the others.
EqualLengths(t) == [i \in 1..t.pieces |-> t.pieceLength]

\* _init_pieces: the last piece takes what is left.
PieceLengths(t) ==
  [i \in 1..t.pieces |-> IF i = t.pieces THEN t.total - (i - 1) * t.pieceLength ELSE t.pieceLength]

\* An upload that was cut short never becomes a torrent, neither at once nor at the next
\* start, unless the upload is not a bencoded object itself but begins with one
\* (upload_torrent, _load_existing_torrents, decode).
NoHalfTorrent == torrent # NoTorrent /\ file # upload.bytes => Decode(upload.bytes) = Raises

\* The hashes are as many as the files have pieces.
SizesFit(t) ==
  (t.pieces - 1) * t.pieceLength < t.total /\ t.total <= t.pieces * t.pieceLength

\* If there are as many hashes as the files have pieces, the pieces cover the files: none is
\* empty or longer than the piece length, each byte of the files lies in exactly one, and no
\* piece goes beyond them (_parse, _init_pieces).
PiecesCoverFiles ==
  torrent # NoTorrent /\ SizesFit(torrent[1]) =>
    LET t == torrent[1]
        lengths == PieceLengths(t)
        Span(i) == ((i - 1) * t.pieceLength + 1)..((i - 1) * t.pieceLength + lengths[i])
    IN  /\ \A i \in 1..t.pieces : lengths[i] \in 1..t.pieceLength /\ Span(i) \subseteq 1..t.total
        /\ \A b \in 1..t.total : \E i \in 1..t.pieces :
             b \in Span(i) /\ \A k \in 1..t.pieces : b \in Span(k) => k = i

\* No failure of a tracker, and no success, keeps a round from the trackers after it: when
\* get_peers returns, each one that the torrent names and the client can speak to was tried.
EveryTrackerTried ==
  at = "done" =>
    tried = {u \in {torrent[1].announce} \cup ToSet(FlattenSeq(torrent[1].tiers)) : Usable(u)}

\* The rounds, and what is done with their results, are those of TrackerClient, for which its
\* safety is proved (download, connect_to_peers and get_peers together).
RoundsAsSpecified == RoundSpec

\* A peer that failed to connect is not dialed again, although the trackers go on to name it
\* (get_peers, connect_to_peers).
NeverRedialed == [][loop' = "shake" /\ loop # "shake" => dialed' \notin banned]_vars

-------------------------------------------------------------------------------
(* Liveness *)

\* get_peers ends, also if every datagram is lost.
RoundEnds == at = "next" ~> at \in {"done", "raised"}

\* A connection that ends, however it ends and whatever the peer has sent, is reported to
\* on_disconnect, which releases the peer's work.
EndIsReported ==
  (loop \in {"read", "process"} /\ link \in {"ended", "reset", "closed"}) ~> (loop = "over" /\ notified)

-------------------------------------------------------------------------------
(* What the documentation says and the code does not do *)

\* "We need the exact byte sequence of the info dict for hashing"
\* (src/src/torrent.py:26): the bytes that are hashed are those of the file.
InfoHashIsOriginal == torrent # NoTorrent => torrent[1].infoRaw = upload.info
===============================================================================
