----------------------------- MODULE TrackerClient -----------------------------
(***************************************************************************)
(* A tracker round: DownloadManager.get_peers (src/src/download.py) over    *)
(* the UDP client (src/src/tracker.py) and the HTTP client                  *)
(* (src/src/http_tracker.py), the trackers, and the network between them.   *)
(*                                                                          *)
(* The network loses requests and replies, delivers a reply late, which may *)
(* be after the client has given up, or again.  The socket of a request is  *)
(* closed after it, but its port may be the next socket's: any reply that   *)
(* is still under way may reach any later request.  A transaction id is the *)
(* number of its request, so two requests never have the same.              *)
(*                                                                          *)
(* Abstractions: an address that is found more than once is in `found`      *)
(* once; the choice among too many peers is arbitrary, as random.shuffle    *)
(* makes it; status texts and the list of events are left out.              *)
(*                                                                          *)
(* A definition whose comment starts with "Slip" is not part of the model   *)
(* (see PieceScheduler).                                                    *)
(***************************************************************************)
EXTENDS Integers, Sequences, FiniteSets

CONSTANTS
  Urls,         \* trackers
  Scheme,       \* the scheme of a URL
  Peers,        \* addresses
  PeersOf,      \* the peers a tracker knows
  MaxPeers,     \* max_peers
  MaxRequests,  \* bound: UDP requests
  SocketFails,  \* TRUE when the socket may raise OSError, or int(port) ValueError
  NoUrl         \* "no tracker"

ASSUME TrackersAssumption ==
  /\ Scheme \in [Urls -> {"udp", "http", "other"}]
  /\ NoUrl \notin Urls
  /\ IsFiniteSet(Peers)
  /\ PeersOf \in [Urls -> SUBSET Peers]
ASSUME BoundsAssumption ==
  /\ MaxPeers \in Nat \ {0}
  /\ MaxRequests \in Nat
  /\ SocketFails \in BOOLEAN

VARIABLES
  at,        \* where get_peers is
  urls,      \* the announce URL, and then those of the announce-list
  pos,       \* the index of the URL that it looks at next
  url,       \* the tracker it is at
  request,   \* the transaction id of the last UDP request
  connId,    \* the connection id that the tracker has given
  asked,     \* requests that a tracker may still answer
  replies,   \* replies under way
  attempts, successes, failures,   \* tracker_attempts, ...
  tried,     \* history: the trackers that were attempted in this round
  answered,  \* history: the trackers whose peers were taken in this round
  found,     \* all_peers
  selected,  \* what get_peers returns
  banned     \* banned_peers

plan     == <<urls, pos, url>>
netVars  == <<request, connId, asked, replies>>
counters == <<attempts, successes, failures>>

\* The client is in recvfrom.
Waiting == {"connect", "announce"}

result == <<found, selected, banned>>
roundVars == <<at, plan, netVars, counters, tried, answered, result>>

\* next: between two trackers;  connect, announce: in recvfrom;  http: in http_announce;
\* done: get_peers has returned;  raised: an exception has left it.
Places == {"off", "next", "http", "done", "raised"} \cup Waiting

\* A connection id is the tracker that gave it, and the request it was given for.
ConnIds  == Urls \X (1..MaxRequests)
NoConnId == <<NoUrl, 0>>
Request  ==
  [id : 1..MaxRequests, to : Urls, kind : {"connect", "announce"}, conn : ConnIds \cup {NoConnId}]
\* "bad" is an error, or a datagram that is too short.
Reply    == [to : Request, kind : {"connect", "announce", "bad"}]

RoundTypeOK ==
  /\ at \in Places
  /\ urls \in Seq(Urls)
  /\ pos \in 1..(Len(urls) + 1)
  /\ url \in Urls \cup {NoUrl}
  /\ request \in 0..MaxRequests
  /\ connId \in ConnIds \cup {NoConnId}
  /\ asked \subseteq Request
  /\ replies \subseteq Reply
  /\ attempts \in Nat /\ successes \in Nat /\ failures \in Nat
  /\ tried \subseteq Urls
  /\ answered \subseteq Urls
  /\ found \subseteq Peers
  /\ selected \subseteq Peers
  /\ banned \subseteq Peers

RoundInit ==
  /\ at = "off"
  /\ urls = <<>> /\ pos = 1
  /\ url = NoUrl
  /\ request = 0
  /\ connId = NoConnId
  /\ asked = {} /\ replies = {}
  /\ attempts = 0 /\ successes = 0 /\ failures = 0
  /\ tried = {} /\ answered = {}
  /\ found = {} /\ selected = {} /\ banned = {}

-------------------------------------------------------------------------------
(* get_peers *)

Usable(u) == Scheme[u] \in {"udp", "http"}

\* get_peers is called, for a torrent with this announce URL and announce-list.
Begin(announce, list) ==
  /\ at = "off"
  /\ at' = "next"
  /\ urls' = <<announce>> \o list /\ pos' = 1
  /\ UNCHANGED <<url, netVars, counters, tried, answered, result>>

\* get_peers has returned, and nothing of the round is left: no socket, and no datagram that
\* would still be under way in the next round.
Clear ==
  /\ at' = "off"
  /\ urls' = <<>> /\ pos' = 1
  /\ url' = NoUrl
  /\ request' = 0 /\ connId' = NoConnId /\ asked' = {} /\ replies' = {}
  /\ tried' = {} /\ answered' = {} /\ found' = {} /\ selected' = {}

\* A UDP request is sent, from a new socket, with a new transaction id.
Send(kind, u, conn) ==
  /\ request < MaxRequests
  /\ request' = request + 1
  /\ asked' = asked \cup {[id |-> request + 1, to |-> u, kind |-> kind, conn |-> conn]}

\* The URL is not one of a tracker that the client can speak to, or is the announce URL again.
Skipped == ~Usable(urls[pos]) \/ (pos > 1 /\ urls[pos] = urls[1])

Skip ==
  /\ at = "next" /\ pos <= Len(urls)
  /\ Skipped
  /\ pos' = pos + 1
  /\ UNCHANGED <<at, urls, url, netVars, counters, tried, answered, result>>

Attempt(scheme) ==
  /\ at = "next" /\ pos <= Len(urls)
  /\ ~Skipped /\ Scheme[urls[pos]] = scheme
  /\ url' = urls[pos]
  /\ pos' = pos + 1
  /\ attempts' = attempts + 1
  /\ tried' = tried \cup {urls[pos]}
  /\ UNCHANGED <<urls, successes, failures, answered, result>>

TryUdp ==
  /\ Attempt("udp")
  /\ Send("connect", urls[pos], NoConnId)
  /\ at' = "connect"
  /\ UNCHANGED <<connId, replies>>

TryHttp ==
  /\ Attempt("http")
  /\ at' = "http"
  /\ UNCHANGED netVars

Success ==
  /\ at' = "next"
  /\ successes' = successes + 1
  /\ answered' = answered \cup {url}
  /\ UNCHANGED <<plan, attempts, failures, tried, selected, banned>>

\* Slip: the failure is not counted.
FailureUncounted ==
  /\ at' = "next"
  /\ UNCHANGED <<plan, counters, tried, answered, result>>

Failure ==
  /\ at' = "next"
  /\ failures' = failures + 1
  /\ UNCHANGED <<plan, attempts, successes, tried, answered, result>>

\* Slip: the transaction id is not compared.
AcceptedAny(d, kind) == d.kind = kind

\* The reply to the request itself is taken; every other datagram raises TrackerError.
Accepted(d, kind) == d.kind = kind /\ d.to.id = request

\* recvfrom returns d; the network may deliver d again.
Delivers(d) == replies' \in {replies, replies \ {d}}

\* udp_connect returns, and udp_announce sends its request.
Connected(d) ==
  /\ at = "connect" /\ d \in replies /\ Accepted(d, "connect")
  /\ Delivers(d)
  /\ connId' = <<d.to.to, d.to.id>>
  /\ Send("announce", url, connId')
  /\ at' = "announce"
  /\ UNCHANGED <<plan, counters, tried, answered, result>>

\* udp_announce returns.
Announced(d) ==
  /\ at = "announce" /\ d \in replies /\ Accepted(d, "announce")
  /\ Delivers(d)
  /\ Success
  /\ found' = found \cup PeersOf[d.to.to]
  /\ UNCHANGED <<request, connId, asked>>

Refused(d) ==
  /\ at \in Waiting /\ d \in replies /\ ~Accepted(d, at)
  /\ Delivers(d)
  /\ Failure
  /\ UNCHANGED <<request, connId, asked>>

\* Slip: recvfrom waits for as long as it takes.
NoTimeout == FALSE /\ UNCHANGED roundVars

\* socket.timeout, or a host name that cannot be resolved.
TimedOut ==
  /\ at \in Waiting
  /\ Failure
  /\ UNCHANGED netVars

\* OSError of the socket, and ValueError of a bad port, are not TrackerErrors.
SocketRaises ==
  /\ SocketFails
  /\ at \in Waiting
  /\ at' = "raised"
  /\ UNCHANGED <<plan, netVars, counters, tried, answered, result>>

HttpAnswers ==
  /\ at = "http"
  /\ Success
  /\ found' = found \cup PeersOf[url]
  /\ UNCHANGED netVars

\* Any exception of http_announce, its timeout among them.
HttpFails ==
  /\ at = "http"
  /\ Failure
  /\ UNCHANGED netVars

\* Slip: the banned peers stay in.
BannedToo(peers) ==
  {C \in SUBSET peers :
     Cardinality(C) = IF Cardinality(peers) < MaxPeers THEN Cardinality(peers) ELSE MaxPeers}

\* What may be left after the banned peers are taken out and the list is cut to max_peers.
Selections(peers) ==
  LET ok == peers \ banned IN
  {C \in SUBSET ok : Cardinality(C) = IF Cardinality(ok) < MaxPeers THEN Cardinality(ok) ELSE MaxPeers}

\* Slip: the announce-list is tried only when the announce URL fails.
FirstAnswerOnly ==
  /\ at = "next" /\ (pos > Len(urls) \/ answered # {})
  /\ at' = "done"
  /\ selected' \in Selections(found)
  /\ UNCHANGED <<plan, netVars, counters, tried, answered, found, banned>>

Finish ==
  /\ at = "next" /\ pos > Len(urls)
  /\ at' = "done"
  /\ selected' \in Selections(found)
  /\ UNCHANGED <<plan, netVars, counters, tried, answered, found, banned>>

-------------------------------------------------------------------------------
(* The trackers: external *)

\* A tracker answers an announce under a connection id that it has not given with an
\* error.
Answer(r) ==
  /\ r \in asked
  /\ asked' = asked \ {r}
  /\ \E kind \in {r.kind, "bad"} :
       /\ kind = "announce" => r.conn[1] = r.to
       /\ replies' = replies \cup {[to |-> r, kind |-> kind]}
  /\ UNCHANGED <<at, plan, request, connId, counters, tried, answered, result>>

-------------------------------------------------------------------------------
\* What the client does, whether or not a tracker answers.
RoundStep == Skip \/ TryUdp \/ TryHttp \/ HttpAnswers \/ HttpFails \/ TimedOut \/ Finish
        \/ \E d \in replies : Connected(d) \/ Announced(d) \/ Refused(d)

RoundNext == RoundStep \/ SocketRaises \/ \E r \in asked : Answer(r)

\* What download() and connect_to_peers may do with it: call it when it is not running, take
\* its result, and ban a peer.  StartUp does no more than that.
Call ==
  /\ at = "off" /\ at' = "next"
  /\ urls' \in Seq(Urls) /\ pos' = 1
  /\ UNCHANGED <<url, netVars, counters, tried, answered, result>>

Take == at = "done" /\ Clear /\ UNCHANGED <<counters, banned>>

BanOne ==
  /\ \E p \in Peers : banned' = banned \cup {p}
  /\ UNCHANGED <<at, plan, netVars, counters, tried, answered, found, selected>>

RoundCaller == Call \/ Take \/ BanOne

RoundSpec == RoundInit /\ [][RoundNext \/ RoundCaller]_roundVars

-------------------------------------------------------------------------------
(* Safety *)

\* The peers that a tracker is credited with are the answer to the request this round made
\* of it: a late or a repeated reply to another request is not taken for it, whether it
\* comes during the connect or the announce request (udp_connect, udp_announce).
PeersFromTheirTracker ==
  /\ found = UNION {PeersOf[u] : u \in answered}
  /\ at = "announce" => connId[1] = url

\* Every attempt ends as one success or one failure, whatever the network does with its
\* requests, unless an exception has left the round (_record_tracker_event).
AttemptsAccounted ==
  attempts = successes + failures + IF at \in Waiting \cup {"http", "raised"} THEN 1 ELSE 0
================================================================================
