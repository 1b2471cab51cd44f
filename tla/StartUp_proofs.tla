----------------------------- MODULE StartUp_proofs ----------------------------
(***************************************************************************)
(* Theorems about StartUp: it implements the rounds of TrackerClient and    *)
(* the connections of PeerStream, so that what is proved of each holds of   *)
(* the whole; every tracker is tried; no peer is dialed again that failed.  *)
(*                                                                          *)
(* What the parts need of each other is Apart: a round and a connection     *)
(* never run at the same time, so that a ban comes neither between the      *)
(* selection of the peers and their dialing nor while the round goes on.    *)
(***************************************************************************)
EXTENDS StartUp, TrackerClient_proofs, Bencode_proofs

\* How far the torrent is tells what may have begun.
Staged ==
  /\ stage \in {"upload", "rejected", "skipped", "ready", "started", "no_peers"}
  /\ stage \in {"ready", "started"} => torrent # NoTorrent
  /\ stage = "upload" => torrent = NoTorrent
  /\ stage \notin {"started", "no_peers"} => loop = "off" /\ pool = {}
  /\ stage # "started" => at = "off"

\* The file is a part of an upload, and the torrent is what that part says: a part that
\* decode() takes.
FromFile ==
  /\ upload \in Uploads
  /\ \E n \in 0..Len(upload.bytes) : file = SubSeq(upload.bytes, 1, n)
  /\ torrent # NoTorrent => Loadable(torrent) /\ Decode(file) # Raises

\* A round is about the trackers of the torrent.
OfTorrent ==
  at # "off" => urls = <<torrent[1].announce>> \o FlattenSeq(torrent[1].tiers)

\* While a round goes on there is no connection, and nobody to dial.
Apart ==
  /\ at # "off" => loop = "off" /\ pool = {} /\ dialed = NoPeer
  /\ at # "done" => selected = {}
  /\ loop = "off" => link = "none"

\* No peer is banned of those who may be dialed; the one who was is none of them.
NoneBanned ==
  /\ pool \subseteq Peers /\ pool \cap banned = {}
  /\ selected \cap banned = {}
  /\ dialed \in Peers \cup {NoPeer} /\ dialed \notin pool
  /\ loop # "off" => dialed \in Peers

IInv ==
  /\ RoundInv /\ StreamInv
  /\ Staged /\ FromFile /\ OfTorrent /\ Apart /\ NoneBanned
  /\ rounds \in 0..MaxRounds

-------------------------------------------------------------------------------
(* The parts *)

LEMMA StartsAsSpecified == ASSUME Init PROVE RoundInit /\ StreamInit
BY DEF Init

\* What the trackers of the torrent are.
LEMMA TorrentUrls ==
  ASSUME FromFile, torrent # NoTorrent
  PROVE  <<torrent[1].announce>> \o FlattenSeq(torrent[1].tiers) \in Seq(Urls)
BY DEF FromFile, Loadable

\* A tracker round begins as one of TrackerClient.
LEMMA BeginsAsSpecified ==
  ASSUME IInv, TrackerRound, stage \in {"ready", "started"}
  PROVE  RoundCaller
<1>1. <<torrent[1].announce>> \o FlattenSeq(torrent[1].tiers) \in Seq(Urls)
  BY TorrentUrls DEF IInv, Staged
<1> QED BY <1>1 DEF TrackerRound, Begin, RoundCaller, Call

\* Every step is one of the rounds, or leaves them alone.
LEMMA RoundsGoOn == ASSUME IInv, [Next]_vars PROVE [RoundNext \/ RoundCaller]_roundVars
<1>1. CASE Chunk \/ Uploaded \/ Interrupted
  BY <1>1 DEF Chunk, Uploaded, Interrupted, Loads
<1>2. CASE Start
  BY <1>2, BeginsAsSpecified DEF Start
<1>3. CASE Recontact
  BY <1>3, BeginsAsSpecified DEF Recontact
<1>4. CASE TakePeers
  BY <1>4 DEF TakePeers, RoundCaller, Take
<1>5. CASE Dial
  BY <1>5 DEF Dial
<1>6. CASE Ban
  <2>1. dialed \in Peers
    BY <1>6 DEF Ban, IInv, NoneBanned
  <2> QED BY <1>6, <2>1 DEF Ban, RoundCaller, BanOne
<1>7. CASE RoundGoesOn
  BY <1>7 DEF RoundGoesOn
<1>8. CASE StreamGoesOn
  BY <1>8 DEF StreamGoesOn
<1>9. CASE UNCHANGED vars
  BY <1>9 DEF vars
<1> QED BY <1>1, <1>2, <1>3, <1>4, <1>5, <1>6, <1>7, <1>8, <1>9 DEF Next

\* Every step is one of the connections, or leaves them alone.
LEMMA StreamsGoOn == ASSUME IInv, [Next]_vars PROVE [StreamNext \/ StreamCaller]_streamVars
<1>1. CASE Chunk \/ Uploaded \/ Interrupted
  BY <1>1 DEF Chunk, Uploaded, Interrupted, Loads
<1>2. CASE Start \/ TakePeers \/ Ban
  BY <1>2 DEF Start, TakePeers, Ban
<1>3. CASE Recontact
  BY <1>3 DEF Recontact, StreamCaller
<1>4. CASE Dial
  <2>1. PICK p \in pool : \E s \in StreamsOf[p] : Opens(s)
    BY <1>4 DEF Dial
  <2>2. StreamsOf[p] \subseteq Streams
    BY <2>1, StreamsOfAssumption DEF IInv, NoneBanned
  <2> QED BY <2>1, <2>2 DEF StreamCaller
<1>5. CASE RoundGoesOn
  BY <1>5 DEF RoundGoesOn
<1>6. CASE StreamGoesOn
  BY <1>6 DEF StreamGoesOn
<1>7. CASE UNCHANGED vars
  BY <1>7 DEF vars
<1> QED BY <1>1, <1>2, <1>3, <1>4, <1>5, <1>6, <1>7 DEF Next

-------------------------------------------------------------------------------
(* The invariant *)

\* What a step of a round does to the rest.
LEMMA RoundEffects ==
  ASSUME RoundNext, selected = {} \/ at = "done"
  PROVE  /\ at' = "off" <=> at = "off"
         /\ UNCHANGED <<urls, banned>>
         /\ \/ selected' = selected /\ (at' = "done" <=> at = "done")
            \/ at' = "done" /\ selected' \cap banned = {}
<1> USE DEF plan, netVars, counters, result, Waiting
<1>1. CASE Skip \/ TryUdp \/ TryHttp
  BY <1>1 DEF Skip, TryUdp, TryHttp, Attempt
<1>2. CASE HttpAnswers \/ HttpFails \/ TimedOut \/ SocketRaises
  BY <1>2 DEF HttpAnswers, HttpFails, TimedOut, SocketRaises, Success, Failure
<1>3. CASE Finish
  BY <1>3 DEF Finish, Selections
<1>4. CASE \E d \in replies : Connected(d) \/ Announced(d) \/ Refused(d)
  BY <1>4 DEF Connected, Announced, Refused, Success, Failure
<1>5. CASE \E r \in asked : Answer(r)
  BY <1>5 DEF Answer
<1> QED BY <1>1, <1>2, <1>3, <1>4, <1>5 DEF RoundNext, RoundStep

\* What a step of a connection does to the rest: nothing, and it does not begin one.
LEMMA StreamEffects ==
  ASSUME StreamNext, loop = "off" => link = "none"
  PROVE  loop # "off" /\ loop' # "off"
BY DEF StreamNext, Break, Disconnect, Shakes, ShakeFails, ShakeRaises, Reads, ReadEnds, Handles,
       ProcessEnds, Ends, view

\* A sequence is its first n elements and the others.
LEMMA CutInTwo ==
  ASSUME NEW s \in Seq(Byte), NEW n \in 0..Len(s)
  PROVE  /\ SubSeq(s, 1, n) \in Seq(Byte) /\ SubSeq(s, n + 1, Len(s)) \in Seq(Byte)
         /\ s = SubSeq(s, 1, n) \o SubSeq(s, n + 1, Len(s))
<1> DEFINE x == SubSeq(s, 1, n)
           y == SubSeq(s, n + 1, Len(s))
<1>1. x \in Seq(Byte) /\ y \in Seq(Byte) /\ Len(x) = n /\ Len(y) = Len(s) - n
  OBVIOUS
<1>2. /\ \A i \in 1..n : x[i] = s[i]
      /\ \A i \in 1..(Len(s) - n) : y[i] = s[i + n]
  OBVIOUS
<1> HIDE DEF x, y
<1>3. x \o y \in Seq(Byte) /\ Len(x \o y) = Len(s)
  BY <1>1
<1>4. ASSUME NEW i \in 1..Len(s)
      PROVE  (x \o y)[i] = s[i]
  <2>1. CASE i <= n
    BY <1>1, <1>2, <2>1
  <2>2. CASE i > n
    <3>1. i - n \in 1..(Len(s) - n) /\ (i - n) + n = i
      BY <2>2
    <3>2. (x \o y)[i] = y[i - n]
      BY <1>1, <2>2, <3>1
    <3>3. y[i - n] = s[(i - n) + n]
      BY <1>2, <3>1
    <3> QED BY <3>1, <3>2, <3>3
  <2>3. i <= n \/ i > n
    OBVIOUS
  <2> QED BY <2>1, <2>2, <2>3, Zenon
<1>5. s = x \o y
  BY <1>3, <1>4, SeqEqual
<1> QED BY <1>1, <1>5 DEF x, y

\* The upload, and what is made of it.
LEMMA FileStep ==
  ASSUME IInv, Chunk \/ Uploaded \/ Interrupted
  PROVE  Staged' /\ FromFile' /\ OfTorrent' /\ Apart' /\ NoneBanned'
<1>1. /\ stage = "upload" /\ at = "off" /\ loop = "off" /\ pool = {}
      /\ UNCHANGED <<upload, at, urls, selected, banned, loop, link, pool, dialed>>
  BY DEF IInv, Staged, Chunk, Uploaded, Interrupted, Loads, roundVars, plan, result, streamVars, wire,
         dialVars
<1>2. OfTorrent' /\ Apart' /\ NoneBanned'
  BY <1>1 DEF IInv, OfTorrent, Apart, NoneBanned
<1>3. CASE Chunk
  <2>1. UNCHANGED <<stage, torrent>> /\ \E n \in 0..Len(upload.bytes) : file' = SubSeq(upload.bytes, 1, n)
    <3>1. PICK m \in 0..Len(upload.bytes) : file = SubSeq(upload.bytes, 1, m)
      BY DEF IInv, FromFile
    <3>2. upload.bytes \in Seq(Byte)
      BY UploadsAssumption DEF IInv, FromFile
    <3>3. Len(file) \in Nat
      BY <3>1, <3>2
    <3>4. PICK n \in (Len(file) + 1)..Len(upload.bytes) : file' = SubSeq(upload.bytes, 1, n)
      BY <1>3 DEF Chunk
    <3>5. n \in 0..Len(upload.bytes)
      BY <3>2, <3>3
    <3> QED BY <1>3, <3>4, <3>5 DEF Chunk
  <2>2. Staged'
    BY <1>1, <2>1 DEF IInv, Staged
  <2>3. FromFile'
    <3>1. torrent' = NoTorrent
      BY <1>1, <2>1 DEF IInv, Staged
    <3> QED BY <1>1, <2>1, <3>1 DEF IInv, FromFile
  <2> QED BY <1>2, <2>2, <2>3
<1>4. CASE Uploaded \/ Interrupted
  <2>1. PICK unfit \in {"rejected", "skipped"} : Loads(unfit)
    BY <1>4 DEF Uploaded, Interrupted
  <2>2. torrent' = Load(file) /\ file' = file
        /\ stage' = IF torrent' = NoTorrent THEN unfit ELSE "ready"
    BY <2>1 DEF Loads
  <2>3. PICK n \in 0..Len(upload.bytes) : file = SubSeq(upload.bytes, 1, n)
    BY DEF IInv, FromFile
  <2>4. upload \in Uploads
    BY DEF IInv, FromFile
  <2>5. torrent' # NoTorrent => Loadable(torrent') /\ Decode(file') # Raises
    <3>1. Load(file) # NoTorrent => Loadable(Load(file))
      BY <2>3, <2>4, UploadsAssumption
    <3>2. Load(file) # NoTorrent => Decode(file) # Raises
      BY DEF Load
    <3> QED BY <2>2, <3>1, <3>2
  <2>6. FromFile'
    BY <1>1, <2>2, <2>3, <2>4, <2>5 DEF FromFile
  <2>7. Staged'
    BY <1>1, <2>1, <2>2 DEF Staged
  <2> QED BY <1>2, <2>6, <2>7
<1> QED BY <1>3, <1>4

\* The file and the torrent stay what they are.
LEMMA FileRests ==
  ASSUME FromFile, UNCHANGED <<upload, file, torrent>>
  PROVE  FromFile'
BY DEF FromFile

\* A round begins when there is nobody left to dial.
LEMMA BeginStep ==
  ASSUME IInv, Start \/ Recontact
  PROVE  Staged' /\ FromFile' /\ OfTorrent' /\ Apart' /\ NoneBanned'
<1>1. /\ stage \in {"ready", "started"} /\ stage' = "started" /\ pool = {}
      /\ loop' = "off" /\ link' = "none"
  BY DEF Start, Recontact, Drop, IInv, Staged, Apart, streamVars, wire
<1>2. /\ at = "off" /\ at' = "next"
      /\ urls' = <<torrent[1].announce>> \o FlattenSeq(torrent[1].tiers)
      /\ dialed' = NoPeer
      /\ UNCHANGED <<upload, file, torrent, pool, selected, banned>>
  BY DEF Start, Recontact, TrackerRound, Begin, result
<1>3. FromFile'
  BY <1>2, FileRests DEF IInv
<1>4. Staged' /\ OfTorrent' /\ Apart' /\ NoneBanned'
  BY <1>1, <1>2, RoundsAssumption DEF IInv, Staged, OfTorrent, Apart, NoneBanned
<1> QED BY <1>3, <1>4

\* The peers of a round are those to dial now.
LEMMA TakeStep ==
  ASSUME IInv, TakePeers
  PROVE  Staged' /\ FromFile' /\ OfTorrent' /\ Apart' /\ NoneBanned'
<1>1. /\ at = "done" /\ at' = "off" /\ pool' = selected /\ selected' = {}
      /\ stage' \in {stage, "no_peers"}
      /\ UNCHANGED <<upload, file, torrent, banned, dialed, loop, link>>
  BY DEF TakePeers, Clear, streamVars, wire
<1>2. loop = "off" /\ stage = "started" /\ selected \subseteq Peers
  BY <1>1 DEF IInv, Apart, Staged, RoundInv, RoundTypeOK
<1>3. FromFile'
  BY <1>1, FileRests DEF IInv
<1>4. Staged' /\ OfTorrent' /\ Apart'
  BY <1>1, <1>2 DEF IInv, Staged, OfTorrent, Apart
<1>5. NoneBanned'
  BY <1>1, <1>2, RoundsAssumption DEF IInv, Apart, NoneBanned
<1> QED BY <1>3, <1>4, <1>5

\* A peer is dialed, and none of those that are left; one whose connect() has failed is banned.
LEMMA DialStep ==
  ASSUME IInv, Dial \/ Ban
  PROVE  Staged' /\ FromFile' /\ OfTorrent' /\ Apart' /\ NoneBanned'
<1>1. UNCHANGED <<stage, upload, file, torrent, at, urls, selected>>
  BY DEF Dial, Ban, fileVars, roundVars, plan, result
<1>2. FromFile'
  BY <1>1, FileRests DEF IInv
<1>3. CASE Dial
  <2>1. PICK p \in pool : \E s \in StreamsOf[p] : pool' = pool \ {p} /\ dialed' = p /\ Opens(s)
    BY <1>3 DEF Dial
  <2>2. loop' = "shake" /\ UNCHANGED banned /\ at = "off"
    BY <1>3, <2>1 DEF Dial, Opens, roundVars, result, IInv, Apart
  <2>3. Staged' /\ OfTorrent' /\ Apart'
    BY <1>1, <2>1, <2>2 DEF IInv, Staged, OfTorrent, Apart
  <2>4. NoneBanned'
    BY <1>1, <2>1, <2>2 DEF IInv, NoneBanned
  <2> QED BY <1>2, <2>3, <2>4
<1>4. CASE Ban
  <2>1. loop = "failed" /\ banned' = banned \cup {dialed} /\ UNCHANGED <<pool, dialed, loop, link>>
    BY <1>4 DEF Ban, dialVars, streamVars, wire
  <2>2. at = "off" /\ selected = {}
    BY <2>1 DEF IInv, Apart
  <2>3. Staged' /\ OfTorrent' /\ Apart'
    BY <1>1, <2>1 DEF IInv, Staged, OfTorrent, Apart
  <2>4. NoneBanned'
    BY <1>1, <2>1, <2>2 DEF IInv, NoneBanned
  <2> QED BY <1>2, <2>3, <2>4
<1> QED BY <1>3, <1>4

\* A round or a connection goes on, or nothing happens.
LEMMA PartStep ==
  ASSUME IInv, RoundGoesOn \/ StreamGoesOn \/ UNCHANGED vars
  PROVE  Staged' /\ FromFile' /\ OfTorrent' /\ Apart' /\ NoneBanned'
<1>1. UNCHANGED <<stage, upload, file, torrent, pool, dialed>>
  BY DEF RoundGoesOn, StreamGoesOn, vars, fileVars, dialVars
<1>2. FromFile'
  BY <1>1, FileRests DEF IInv
<1>3. CASE RoundGoesOn
  <2>1. /\ at' = "off" <=> at = "off"
        /\ UNCHANGED <<urls, banned>>
        /\ \/ selected' = selected /\ (at' = "done" <=> at = "done")
           \/ at' = "done" /\ selected' \cap banned = {}
    BY <1>3, RoundEffects DEF RoundGoesOn, IInv, Apart
  <2>2. UNCHANGED <<loop, link>>
    BY <1>3 DEF RoundGoesOn, streamVars, wire
  <2>3. Staged' /\ OfTorrent'
    BY <1>1, <2>1, <2>2 DEF IInv, Staged, OfTorrent
  <2>4. Apart' /\ NoneBanned'
    BY <1>1, <2>1, <2>2 DEF IInv, Apart, NoneBanned
  <2> QED BY <1>2, <2>3, <2>4
<1>4. CASE StreamGoesOn
  <2>1. loop # "off" /\ loop' # "off"
    BY <1>4, StreamEffects DEF StreamGoesOn, IInv, Apart
  <2>2. UNCHANGED <<at, urls, selected, banned>>
    BY <1>4 DEF StreamGoesOn, roundVars, plan, result
  <2>3. Staged' /\ OfTorrent'
    BY <1>1, <2>1, <2>2 DEF IInv, Staged, OfTorrent
  <2>4. Apart' /\ NoneBanned'
    BY <1>1, <2>1, <2>2 DEF IInv, Apart, NoneBanned
  <2> QED BY <1>2, <2>3, <2>4
<1>5. CASE UNCHANGED vars
  BY <1>2, <1>5 DEF vars, fileVars, roundVars, plan, result, dialVars, streamVars, wire,
                    IInv, Staged, OfTorrent, Apart, NoneBanned
<1> QED BY <1>3, <1>4, <1>5

LEMMA InitInvariant == ASSUME Init PROVE IInv
<1>1. RoundInv /\ StreamInv
  BY StartsAsSpecified, InitRound, InitStream
<1>2. /\ stage = "upload" /\ upload \in Uploads /\ file = <<>> /\ torrent = NoTorrent
      /\ pool = {} /\ dialed = NoPeer /\ rounds = 0
      /\ at = "off" /\ selected = {} /\ loop = "off" /\ link = "none"
  BY DEF Init, RoundInit, StreamInit
<1>3. FromFile
  <2>1. upload.bytes \in Seq(Byte)
    BY <1>2, UploadsAssumption
  <2>2. 0 \in 0..Len(upload.bytes) /\ file = SubSeq(upload.bytes, 1, 0)
    BY <1>2, <2>1
  <2> QED BY <1>2, <2>2 DEF FromFile
<1>4. Staged /\ OfTorrent /\ Apart /\ NoneBanned
  BY <1>2 DEF Staged, OfTorrent, Apart, NoneBanned
<1> QED BY <1>1, <1>2, <1>3, <1>4, RoundsAssumption DEF IInv

LEMMA InvariantKept == ASSUME IInv, [Next]_vars PROVE IInv'
<1>1. RoundInv'
  BY RoundsGoOn, RoundKept DEF IInv
<1>2. StreamInv'
  BY StreamsGoOn, StreamKept DEF IInv
<1>3. Staged' /\ FromFile' /\ OfTorrent' /\ Apart' /\ NoneBanned'
  BY FileStep, BeginStep, TakeStep, DialStep, PartStep DEF Next
<1>4. rounds' \in 0..MaxRounds
  <2>1. rounds \in 0..MaxRounds /\ MaxRounds \in Nat
    BY RoundsAssumption DEF IInv
  <2>2. CASE Start \/ Recontact
    BY <2>1, <2>2 DEF Start, Recontact, TrackerRound
  <2>3. CASE ~(Start \/ Recontact)
    BY <2>1, <2>3 DEF Next, Chunk, Uploaded, Interrupted, Loads, TakePeers, Dial, Ban, RoundGoesOn,
                      StreamGoesOn, vars, dialVars
  <2> QED BY <2>2, <2>3
<1> QED BY <1>1, <1>2, <1>3, <1>4 DEF IInv

-------------------------------------------------------------------------------
(* The theorems *)

\* IInv holds in every state, whatever is uploaded, whatever the trackers and the peers send.
THEOREM StartUpInvariant == Spec => []IInv
BY InitInvariant, InvariantKept, PTL DEF Spec

\* Every variable has its type, and what is loaded is a torrent.
THEOREM TypesHold == Spec => []TypeOK
<1>1. IInv => TypeOK
  BY DEF IInv, RoundInv, StreamInv, Staged, FromFile, NoneBanned, TypeOK
<1> QED BY <1>1, StartUpInvariant, PTL

\* An upload that was cut short never becomes a torrent, neither at once nor at the next start:
\* of the parts of a bencoded object decode() takes the whole only (upload_torrent,
\* _load_existing_torrents, decode).
THEOREM NoHalfTorrentHolds == Spec => []NoHalfTorrent
<1>1. IInv => NoHalfTorrent
  <2> SUFFICES ASSUME IInv, torrent # NoTorrent, Decode(upload.bytes) # Raises
               PROVE  file = upload.bytes
    BY DEF NoHalfTorrent
  <2> DEFINE b == upload.bytes
  <2>1. PICK n \in 0..Len(b) : file = SubSeq(b, 1, n)
    BY DEF IInv, FromFile
  <2>2. Decode(file) # Raises
    BY DEF IInv, FromFile
  <2>3. b \in Seq(Byte)
    BY UploadsAssumption DEF IInv, FromFile
  <2> DEFINE t == SubSeq(b, n + 1, Len(b))
  <2> HIDE DEF b
  <2>4. file \in Seq(Byte) /\ t \in Seq(Byte) /\ b = file \o t
    BY <2>1, <2>3, CutInTwo
  <2> HIDE DEF t
  <2>5. t = <<>>
    BY <2>2, <2>4, DecodeIsPrefixFree DEF b
  <2> QED BY <2>4, <2>5 DEF b
<1> QED BY <1>1, StartUpInvariant, PTL

\* The multiples of the piece length.
LEMMA Multiples ==
  ASSUME NEW l \in Nat, NEW i \in Nat, NEW j \in Nat
  PROVE  /\ i * l \in Nat /\ (i - 1) * l = i * l - l
         /\ i < j => i * l <= j * l - l
<1>1. i * l \in Nat /\ (i - 1) * l = i * l - l
  OBVIOUS
<1>2. ASSUME i < j
      PROVE  i * l <= j * l - l
  <2>1. PICK d \in Nat : j = i + 1 + d
    <3>1. j - i - 1 \in Nat /\ j = i + 1 + (j - i - 1)
      BY <1>2
    <3> QED BY <3>1
  <2>2. j * l = i * l + l + d * l /\ d * l \in Nat
    BY <2>1
  <2>3. i * l \in Nat
    OBVIOUS
  <2> QED BY <2>2, <2>3
<1> QED BY <1>1, <1>2

\* If there are as many hashes as the files have pieces, the pieces cover the files: none is
\* empty or too long, and each byte of the files lies in exactly one (_parse, _init_pieces).
THEOREM PiecesCoverFilesHolds == Spec => []PiecesCoverFiles
<1>1. IInv => PiecesCoverFiles
  <2> DEFINE t == torrent[1]
             p == t.pieces
             l == t.pieceLength
             total == t.total
             lengths == PieceLengths(t)
             M(i) == i * l
             Span(i) == ((i - 1) * l + 1)..((i - 1) * l + lengths[i])
  <2> SUFFICES ASSUME IInv, torrent # NoTorrent, SizesFit(t)
               PROVE  /\ \A i \in 1..p : lengths[i] \in 1..l /\ Span(i) \subseteq 1..total
                      /\ \A b \in 1..total : \E i \in 1..p :
                           b \in Span(i) /\ \A k \in 1..p : b \in Span(k) => k = i
    BY DEF PiecesCoverFiles
  <2>1. p \in Nat /\ l \in Int /\ total \in Int
    BY DEF IInv, FromFile, Loadable
  <2>2. (p - 1) * l < total /\ total <= p * l
    BY DEF SizesFit
  <2>3. \A i \in 1..p : lengths[i] = IF i = p THEN total - (i - 1) * l ELSE l
    BY DEF PieceLengths
  <2> HIDE DEF p, l, total, lengths
  <2>4. CASE p = 0
    <3>1. 1..p = {} /\ 1..total = {}
      BY <2>1, <2>2, <2>4
    <3> QED BY <3>1
  <2>5. CASE p # 0
    <3>1. l \in Nat \ {0}
      BY <2>1, <2>2, <2>5
    <3>2. \A i \in 0..p : M(i) \in Nat /\ (i - 1) * l = M(i) - l /\ M(0) = 0
      BY <2>1, <3>1, Multiples
    <3>3. \A i, j \in 0..p : i < j => M(i) <= M(j) - l
      BY <2>1, <3>1, Multiples
    <3>4. M(p) - l < total /\ total <= M(p) /\ p \in 1..p
      BY <2>1, <2>2, <2>5, <3>1, <3>2
    <3> HIDE DEF M
    <3>5. \A i \in 1..p : /\ i \in 0..p /\ i - 1 \in 0..p
                          /\ (i - 1) * l = M(i) - l
                          /\ lengths[i] = IF i = p THEN total - (M(i) - l) ELSE l
      BY <2>1, <2>3, <3>2
    <3> DEFINE From(i) == M(i) - l + 1
               Upto(i) == M(i) - l + lengths[i]
    <3>6. \A i \in 1..p : Span(i) = From(i)..Upto(i)
      BY <3>5
    <3> HIDE DEF Span
    <3>7. ASSUME NEW i \in 1..p
          PROVE  /\ lengths[i] \in 1..l /\ From(i) \in 1..total /\ Upto(i) \in 1..total
                 /\ Upto(i) <= M(i) /\ (i # p => Upto(i) = M(i)) /\ (i = p => Upto(i) = total)
      <4>1. M(i) \in Nat /\ M(i) - l >= 0
        <5>1. 0 \in 0..p /\ i \in 0..p /\ 0 < i
          BY <2>1
        <5> QED BY <3>2, <3>3, <5>1
      <4>2. CASE i = p
        BY <2>1, <3>1, <3>4, <3>5, <4>1, <4>2
      <4>3. CASE i # p
        <5>1. M(i) <= M(p) - l
          BY <2>1, <3>3, <4>3
        <5>2. lengths[i] = l
          BY <3>5, <4>3
        <5>3. M(p) \in Nat
          BY <2>1, <3>2
        <5> QED BY <2>1, <3>1, <3>4, <4>1, <4>3, <5>1, <5>2, <5>3
      <4> QED BY <4>2, <4>3
    <3>8. ASSUME NEW i \in 1..p
          PROVE  Span(i) \subseteq 1..total
      <4>1. From(i) \in 1..total /\ Upto(i) \in 1..total
        BY <3>7
      <4> QED BY <2>1, <3>6, <4>1
    <3>9. ASSUME NEW b \in 1..total
          PROVE  \E i \in 1..p : b \in Span(i) /\ \A k \in 1..p : b \in Span(k) => k = i
      <4> DEFINE T == {j \in 1..p : b <= M(j)}
      <4>1. PICK i \in T : \A j \in T : i <= j
        <5>1. p \in T
          BY <2>1, <3>2, <3>4
        <5>2. T \in SUBSET Nat
          OBVIOUS
        <5> HIDE DEF T
        <5> QED BY <5>1, <5>2, LeastNumber
      <4>2. i \in 1..p /\ b <= M(i)
        OBVIOUS
      <4>3. M(i) - l < b
        <5>1. CASE i = 1
          BY <3>2, <3>5, <4>2, <5>1 DEF M
        <5>2. CASE i # 1
          <6>1. i - 1 \in 1..p /\ i - 1 \notin T
            <7>1. i - 1 \in 1..p
              BY <2>1, <4>2, <5>2
            <7> HIDE DEF T
            <7> QED BY <2>1, <4>1, <4>2, <7>1
          <6>2. M(i - 1) < b /\ M(i - 1) = M(i) - l
            BY <2>1, <3>2, <3>5, <4>2, <6>1 DEF M
          <6> QED BY <6>2
        <5> QED BY <5>1, <5>2
      <4> HIDE DEF T
      <4>4. M(i) \in Nat /\ \A k \in 1..p : M(k) \in Nat
        BY <2>1, <3>2, <4>2
      <4>5. b \in Span(i)
        <5>1. i # p => Upto(i) = M(i)
          BY <3>7, <4>2
        <5>2. i = p => Upto(i) = total
          BY <3>7, <4>2
        <5>3. From(i) <= b /\ b <= Upto(i)
          BY <2>1, <3>1, <4>2, <4>3, <4>4, <5>1, <5>2
        <5>4. From(i) \in Int /\ Upto(i) \in Int
          BY <3>7, <4>2
        <5> QED BY <3>6, <4>2, <5>3, <5>4
      <4>6. ASSUME NEW k \in 1..p, b \in Span(k)
            PROVE  k = i
        <5>1. M(k) - l < b /\ b <= M(k)
          <6>1. Upto(k) \in Int /\ From(k) \in Int /\ Upto(k) <= M(k)
            BY <3>7
          <6>2. From(k) <= b /\ b <= Upto(k)
            BY <3>6, <4>6, <6>1
          <6> HIDE DEF Upto
          <6> QED BY <2>1, <4>4, <6>1, <6>2
        <5>2. k < i => M(k) <= M(i) - l
          BY <2>1, <3>3, <4>2
        <5>3. i < k => M(i) <= M(k) - l
          BY <2>1, <3>3, <4>2
        <5>4. ~(k < i) /\ ~(i < k)
          BY <2>1, <3>1, <4>2, <4>3, <4>4, <5>1, <5>2, <5>3
        <5> QED BY <2>1, <4>2, <5>4
      <4> QED BY <4>2, <4>5, <4>6
    <3> QED BY <3>7, <3>8, <3>9
  <2> QED BY <2>4, <2>5
<1> QED BY <1>1, StartUpInvariant, PTL

\* The rounds of the whole are those of TrackerClient (download, connect_to_peers, get_peers).
THEOREM RoundsAsSpecifiedHolds == Spec => RoundsAsSpecified
<1>1. Init => RoundInit
  BY StartsAsSpecified
<1>2. IInv /\ [Next]_vars => [RoundNext \/ RoundCaller]_roundVars
  BY RoundsGoOn
<1> QED BY <1>1, <1>2, StartUpInvariant, PTL DEF Spec, RoundsAsSpecified, RoundSpec

\* The connections of the whole are those of PeerStream (connect_to_peers, connect, read_loop).
LEMMA StreamsGoBy == Spec => StreamSpec
<1>1. Init => StreamInit
  BY StartsAsSpecified
<1>2. IInv /\ [Next]_vars => [StreamNext \/ StreamCaller]_streamVars
  BY StreamsGoOn
<1> QED BY <1>1, <1>2, StartUpInvariant, PTL DEF Spec, StreamSpec

\* What is proved of a round and of a connection is true of the whole: the peers of a round
\* are those of the trackers that have answered in it.
THEOREM PeersFromTrackersHolds == Spec => []PeersFromTheirTracker
BY RoundsAsSpecifiedHolds, PeersFromTheirTrackerHolds DEF RoundsAsSpecified

\* Every attempt of a round is counted once as a success or a failure.
THEOREM AttemptsCountedHolds == Spec => []AttemptsAccounted
BY RoundsAsSpecifiedHolds, AttemptsAccountedHolds DEF RoundsAsSpecified

\* The handler gets the messages of every peer that is dialed whole and in order, at once, and
\* takes from them the pieces that the peer has announced.
THEOREM StreamsHold == Spec => [](DeliveredInOrder /\ NothingHeldBack /\ BitsAsAnnounced)
<1>1. StreamSpec => [](DeliveredInOrder /\ NothingHeldBack /\ BitsAsAnnounced)
  BY DeliveredInOrderHolds, NothingHeldBackHolds, BitsAsAnnouncedHolds, PTL
<1> QED BY <1>1, StreamsGoBy

\* When get_peers returns, each tracker that the torrent names and the client can speak to was
\* tried, whatever the trackers before it have done (get_peers).
THEOREM EveryTrackerTriedHolds == Spec => []EveryTrackerTried
<1>1. IInv => EveryTrackerTried
  <2> SUFFICES ASSUME IInv, at = "done"
               PROVE  tried = {u \in {torrent[1].announce} \cup ToSet(FlattenSeq(torrent[1].tiers)) :
                                 Usable(u)}
    BY DEF EveryTrackerTried
  <2> DEFINE list == FlattenSeq(torrent[1].tiers)
  <2>1. pos = Len(urls) + 1 /\ urls \in Seq(Urls)
        /\ tried = {u \in {urls[i] : i \in 1..(pos - 1)} : Usable(u)}
    BY DEF IInv, RoundInv, RoundTypeOK, TriedSoFar
  <2>2. stage = "started" /\ urls = <<torrent[1].announce>> \o list
    BY DEF IInv, Staged, OfTorrent
  <2>3. torrent[1].announce \in Urls /\ list \in Seq(Urls)
    BY <2>2 DEF IInv, Staged, FromFile, Loadable
  <2>4. {urls[i] : i \in 1..Len(urls)} = {torrent[1].announce} \cup ToSet(list)
    <3> HIDE DEF list
    <3>1. Len(list) \in Nat /\ DOMAIN list = 1..Len(list) /\ Len(urls) = 1 + Len(list)
      BY <2>2, <2>3
    <3>2. ToSet(list) = {list[j] : j \in 1..Len(list)}
      BY <3>1 DEF ToSet
    <3>3. urls[1] = torrent[1].announce /\ 1 \in 1..Len(urls)
      BY <2>2, <2>3, <3>1
    <3>4. \A j \in 1..Len(list) : urls[j + 1] = list[j] /\ j + 1 \in 1..Len(urls)
      BY <2>2, <2>3, <3>1
    <3>5. \A i \in 1..Len(urls) : i = 1 \/ (i - 1 \in 1..Len(list) /\ urls[i] = list[i - 1])
      BY <2>2, <2>3, <3>1
    <3>6. {urls[i] : i \in 1..Len(urls)} \subseteq {torrent[1].announce} \cup {list[j] : j \in 1..Len(list)}
      BY <3>3, <3>5
    <3>7. {torrent[1].announce} \cup {list[j] : j \in 1..Len(list)} \subseteq {urls[i] : i \in 1..Len(urls)}
      <4>1. torrent[1].announce \in {urls[i] : i \in 1..Len(urls)}
        BY <3>3
      <4>2. ASSUME NEW j \in 1..Len(list)
            PROVE  list[j] \in {urls[i] : i \in 1..Len(urls)}
        BY <3>4
      <4> QED BY <4>1, <4>2
    <3> QED BY <3>2, <3>6, <3>7
  <2>5. 1..(pos - 1) = 1..Len(urls)
    BY <2>1
  <2> QED BY <2>1, <2>4, <2>5
<1> QED BY <1>1, StartUpInvariant, PTL

\* A peer that is dialed is none of those that failed before, although the trackers go on to
\* name them (get_peers, connect_to_peers).
THEOREM NeverRedialedHolds == Spec => NeverRedialed
<1>1. IInv /\ [Next]_vars => [loop' = "shake" /\ loop # "shake" => dialed' \notin banned]_vars
  <2> SUFFICES ASSUME IInv, Next, loop' = "shake", loop # "shake"
               PROVE  dialed' \notin banned
    BY DEF vars
  <2>1. CASE Chunk \/ Uploaded \/ Interrupted \/ TakePeers \/ Ban \/ RoundGoesOn
    BY <2>1 DEF Chunk, Uploaded, Interrupted, Loads, TakePeers, Ban, RoundGoesOn, streamVars
  <2>2. CASE Start \/ Recontact
    BY <2>2 DEF Start, Recontact, Drop, streamVars
  <2>3. CASE Dial
    <3>1. dialed' \in pool
      BY <2>3 DEF Dial
    <3> QED BY <3>1 DEF IInv, NoneBanned
  <2>4. CASE StreamGoesOn
    BY <2>4 DEF StreamGoesOn, StreamNext, Break, Disconnect, Shakes, ShakeFails, ShakeRaises, Reads,
                ReadEnds, Handles, ProcessEnds, Ends, view
  <2> QED BY <2>1, <2>2, <2>3, <2>4 DEF Next
<1> QED BY <1>1, StartUpInvariant, PTL DEF Spec, NeverRedialed
===============================================================================
