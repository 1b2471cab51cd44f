-------------------------- MODULE TrackerClient_proofs --------------------------
(***************************************************************************)
(* The safety of tracker rounds, for any trackers, any number of requests   *)
(* and any loss, delay and repetition of datagrams.                         *)
(*                                                                          *)
(* The point of the invariant is that a reply carries the number of its     *)
(* request: one that carries the number of the last request is an answer to *)
(* that, and so from the tracker that the client is at (LastIsCurrent).     *)
(***************************************************************************)
EXTENDS TrackerClient, TLAPS

\* The requests that the network may still bring an answer to.
Open == asked \cup {d.to : d \in replies}

LastIsCurrent ==
  /\ \A r \in Open : r.id <= request
  /\ at \in Waiting => \A r \in Open : r.id = request => r.to = url

AllUsable == at \in Waiting \cup {"http"} => url \in Urls

\* Of the URLs behind it, the client has tried those that it can speak to; it has returned
\* only when all are behind it, and starts with none behind it.
TriedSoFar ==
  /\ tried = {u \in {urls[i] : i \in 1..(pos - 1)} : Usable(u)}
  /\ at = "done" => pos = Len(urls) + 1
  /\ at = "off" => pos = 1

RoundInv ==
  /\ RoundTypeOK
  /\ AllUsable /\ LastIsCurrent /\ TriedSoFar
  /\ PeersFromTheirTracker /\ AttemptsAccounted

LEMMA InitRound == RoundInit => RoundInv
BY BoundsAssumption, TrackersAssumption
   DEF RoundInit, RoundInv, RoundTypeOK, AllUsable, LastIsCurrent, PeersFromTheirTracker,
       AttemptsAccounted, TriedSoFar, Open,
       Waiting, Places, NoConnId

\* The trackers that were tried stay the same when the client does not move on.
LEMMA StaysThere ==
  ASSUME TriedSoFar, UNCHANGED <<urls, pos, tried>>,
         at' = "done" => at = "done", at' = "off" => at = "off"
  PROVE  TriedSoFar'
BY DEF TriedSoFar

\* The client looks at the next URL.
LEMMA MovesOn ==
  ASSUME RoundInv, at = "next", pos <= Len(urls), pos' = pos + 1, urls' = urls,
         at' \notin {"done", "off"},
         \/ Skipped /\ tried' = tried
         \/ Usable(urls[pos]) /\ tried' = tried \cup {urls[pos]}
  PROVE  /\ urls[pos] \in Urls
         /\ pos' \in 1..(Len(urls) + 1)
         /\ TriedSoFar'
<1>1. urls \in Seq(Urls) /\ pos \in Nat /\ pos >= 1 /\ Len(urls) \in Nat
  BY DEF RoundInv, RoundTypeOK
<1>2. 1..(pos' - 1) = 1..(pos - 1) \cup {pos}
  BY <1>1
<1>3. {urls'[i] : i \in 1..(pos' - 1)} = {urls[i] : i \in 1..(pos - 1)} \cup {urls[pos]}
  BY <1>2
<1>4. ASSUME Skipped, Usable(urls[pos])
      PROVE  urls[pos] \in {urls[i] : i \in 1..(pos - 1)}
  BY <1>1, <1>4 DEF Skipped
<1>5. TriedSoFar'
  BY <1>3, <1>4 DEF RoundInv, TriedSoFar, Usable
<1> QED BY <1>1, <1>5

\* What is left after the cut to max_peers are peers.
LEMMA SelectionType ==
  ASSUME NEW peers \in SUBSET Peers, NEW C \in Selections(peers)
  PROVE  C \subseteq Peers
BY DEF Selections

\* A request that is sent is the last one, and the only one with its number.
LEMMA SendStep ==
  ASSUME RoundInv, NEW kind \in {"connect", "announce"}, NEW u \in Urls,
         NEW conn \in ConnIds \cup {NoConnId},
         Send(kind, u, conn), replies' \subseteq replies
  PROVE  /\ request' \in 0..MaxRequests /\ asked' \subseteq Request /\ replies' \subseteq Reply
         /\ \A r \in Open' : r.id <= request' /\ (r.id = request' => r.to = u)
<1> DEFINE new == [id |-> request + 1, to |-> u, kind |-> kind, conn |-> conn]
<1>1. request \in Nat /\ request' = request + 1 /\ request + 1 \in 1..MaxRequests
  BY BoundsAssumption DEF RoundInv, RoundTypeOK, Send
<1>2. new \in Request BY <1>1 DEF Request
<1>3. asked' = asked \cup {new} BY DEF Send
<1>4. \A r \in Open : r.id \in Nat /\ r.id <= request
  BY BoundsAssumption DEF RoundInv, RoundTypeOK, LastIsCurrent, Open, Request, Reply
<1>5. \A r \in Open' : r = new \/ r \in Open BY <1>3 DEF Open
<1>6. new.id = request + 1 /\ new.to = u OBVIOUS
<1> HIDE DEF new
<1> QED BY <1>1, <1>2, <1>3, <1>4, <1>5, <1>6, BoundsAssumption DEF RoundInv, RoundTypeOK

LEMMA SkipStep == ASSUME RoundInv, Skip PROVE RoundInv'
<1>1. /\ at = "next" /\ pos <= Len(urls) /\ pos' = pos + 1 /\ at' = at
      /\ UNCHANGED <<urls, url, request, connId, asked, replies, attempts, successes, failures,
                     tried, answered, found, selected, banned>>
  BY DEF Skip, netVars, counters, result
<1>2. pos' \in 1..(Len(urls) + 1) /\ TriedSoFar'
  BY <1>1, MovesOn DEF Skip
<1> QED
  BY <1>1, <1>2
     DEF RoundInv, RoundTypeOK, AllUsable, LastIsCurrent, PeersFromTheirTracker,
         AttemptsAccounted, TriedSoFar, Open, Waiting

LEMMA TryStep == ASSUME RoundInv, TryUdp \/ TryHttp PROVE RoundInv'
<1>1. /\ pos <= Len(urls) /\ ~Skipped /\ at = "next" /\ at' \in {"connect", "http"}
      /\ url' = urls[pos] /\ pos' = pos + 1 /\ attempts' = attempts + 1
      /\ tried' = tried \cup {urls[pos]}
      /\ UNCHANGED <<urls, successes, failures, answered, found, selected, banned>>
  BY DEF TryUdp, TryHttp, Attempt, result
<1>2. urls[pos] \in Urls /\ pos' \in 1..(Len(urls) + 1) /\ TriedSoFar'
  BY <1>1, MovesOn DEF Skipped
<1>3. AttemptsAccounted'
  BY <1>1 DEF RoundInv, RoundTypeOK, AttemptsAccounted, TryUdp, TryHttp, Waiting
<1>4. PeersFromTheirTracker'
  BY <1>1 DEF RoundInv, PeersFromTheirTracker, TryUdp, TryHttp
<1>5. CASE TryUdp
  <2>1. Send("connect", urls[pos], NoConnId) /\ replies' = replies /\ connId' = connId /\ at' = "connect"
    BY <1>5 DEF TryUdp
  <2>2. /\ request' \in 0..MaxRequests /\ asked' \subseteq Request /\ replies' \subseteq Reply
        /\ \A r \in Open' : r.id <= request' /\ (r.id = request' => r.to = urls[pos])
    BY <1>2, <2>1, SendStep
  <2>3. RoundTypeOK' BY <1>1, <1>2, <2>1, <2>2 DEF RoundInv, RoundTypeOK, Places, Waiting
  <2>4. AllUsable' /\ LastIsCurrent' BY <1>1, <1>2, <2>2 DEF AllUsable, LastIsCurrent
  <2> QED BY <1>2, <1>3, <1>4, <2>3, <2>4 DEF RoundInv
<1>6. CASE TryHttp
  <2>1. UNCHANGED <<request, connId, asked, replies>> /\ at' = "http"
    BY <1>6 DEF TryHttp, netVars
  <2>2. RoundTypeOK' BY <1>1, <1>2, <2>1 DEF RoundInv, RoundTypeOK, Places
  <2>3. AllUsable' /\ LastIsCurrent'
    BY <1>1, <1>2, <2>1 DEF RoundInv, AllUsable, LastIsCurrent, Open, Waiting
  <2> QED BY <1>2, <1>3, <1>4, <2>2, <2>3 DEF RoundInv
<1> QED BY <1>5, <1>6

\* The client goes on to the next tracker, with no new request.
LEMMA NextTracker ==
  ASSUME RoundInv, at \in Waiting \cup {"http"}, at' = "next",
         UNCHANGED <<urls, pos, url, request, connId, asked, attempts, tried, selected, banned>>,
         replies' \subseteq replies,
         \/ /\ successes' = successes + 1 /\ UNCHANGED failures
            /\ answered' = answered \cup {url} /\ found' = found \cup PeersOf[url]
         \/ failures' = failures + 1 /\ UNCHANGED <<successes, answered, found>>
  PROVE  RoundInv'
<1>1. url \in Urls BY DEF RoundInv, AllUsable
<1>2. PeersOf[url] \subseteq Peers BY <1>1, TrackersAssumption
<1>3. RoundTypeOK' BY <1>1, <1>2 DEF RoundInv, RoundTypeOK, Places
<1>4. AllUsable' /\ LastIsCurrent' BY DEF RoundInv, AllUsable, LastIsCurrent, Open, Waiting
<1>5. AttemptsAccounted' BY DEF RoundInv, RoundTypeOK, AttemptsAccounted, Waiting
<1>6. PeersFromTheirTracker' BY DEF RoundInv, PeersFromTheirTracker
<1>7. TriedSoFar' BY StaysThere DEF RoundInv
<1> QED BY <1>3, <1>4, <1>5, <1>6, <1>7 DEF RoundInv

\* What is accepted answers the last request.
LEMMA AcceptedStep ==
  ASSUME RoundInv, at \in Waiting, NEW d \in replies, NEW kind, Accepted(d, kind)
  PROVE  d.to.to = url /\ d.to.id = request
BY DEF RoundInv, LastIsCurrent, Open, Accepted

LEMMA ReplyStep ==
  ASSUME RoundInv, NEW d \in replies, Connected(d) \/ Announced(d) \/ Refused(d)
  PROVE  RoundInv'
<1>1. replies' \subseteq replies
  BY DEF Connected, Announced, Refused, Delivers
<1>2. CASE Announced(d)
  <2>1. at \in Waiting BY <1>2 DEF Announced, Waiting
  <2>2. d.to.to = url BY <1>2, <2>1, AcceptedStep DEF Announced
  <2> QED BY <1>1, <1>2, <2>1, <2>2, NextTracker DEF Announced, Success, plan
<1>3. CASE Refused(d)
  BY <1>1, <1>3, NextTracker DEF Refused, Failure, plan, result
<1>4. CASE Connected(d)
  <2>1. /\ at \in Waiting /\ at = "connect" /\ at' = "announce"
        /\ connId' = <<d.to.to, d.to.id>>
        /\ Send("announce", url, connId')
        /\ UNCHANGED <<urls, pos, url, attempts, successes, failures, tried, answered, found,
                       selected, banned>>
    BY <1>4 DEF Connected, Waiting, plan, counters, result
  <2>2. d.to.to = url /\ d.to.id = request
    BY <1>4, <2>1, AcceptedStep DEF Connected
  <2>3. url \in Urls BY <2>1 DEF RoundInv, AllUsable
  <2>4. d.to \in Request BY DEF RoundInv, RoundTypeOK, Reply
  <2>5. connId' \in ConnIds BY <2>1, <2>4 DEF Request, ConnIds
  <2>6. /\ request' \in 0..MaxRequests /\ asked' \subseteq Request /\ replies' \subseteq Reply
        /\ \A r \in Open' : r.id <= request' /\ (r.id = request' => r.to = url)
    BY <1>1, <2>1, <2>3, <2>5, SendStep
  <2>7. RoundTypeOK' BY <2>1, <2>5, <2>6 DEF RoundInv, RoundTypeOK, Places, Waiting
  <2>8. AllUsable' /\ LastIsCurrent' BY <2>1, <2>3, <2>6 DEF AllUsable, LastIsCurrent
  <2>9. AttemptsAccounted' BY <2>1 DEF RoundInv, AttemptsAccounted, Waiting
  <2>10. PeersFromTheirTracker' BY <2>1, <2>2 DEF RoundInv, PeersFromTheirTracker
  <2>11. TriedSoFar' BY <2>1, StaysThere DEF RoundInv
  <2> QED BY <2>7, <2>8, <2>9, <2>10, <2>11 DEF RoundInv
<1> QED BY <1>2, <1>3, <1>4

LEMMA OtherStep ==
  ASSUME RoundInv, HttpAnswers \/ HttpFails \/ TimedOut \/ Finish \/ SocketRaises
  PROVE  RoundInv'
<1>1. CASE HttpAnswers
  BY <1>1, NextTracker DEF HttpAnswers, Success, plan, netVars
<1>2. CASE HttpFails \/ TimedOut
  BY <1>2, NextTracker DEF HttpFails, TimedOut, Failure, plan, netVars, result
<1>3. CASE Finish
  BY <1>3, SelectionType
     DEF Finish, RoundInv, RoundTypeOK, AllUsable, LastIsCurrent, PeersFromTheirTracker,
         AttemptsAccounted, TriedSoFar, Open,
         Waiting, Places, plan, netVars, counters
<1>4. CASE SocketRaises
  BY <1>4
     DEF SocketRaises, RoundInv, RoundTypeOK, AllUsable, LastIsCurrent, PeersFromTheirTracker,
         AttemptsAccounted,
         TriedSoFar, Open, Waiting, Places, plan, netVars, counters, result
<1> QED BY <1>1, <1>2, <1>3, <1>4

\* An answer takes the number of its request along.
LEMMA AnswerStep == ASSUME RoundInv, NEW r \in asked, Answer(r) PROVE RoundInv'
<1>1. PICK kind \in {r.kind, "bad"} : replies' = replies \cup {[to |-> r, kind |-> kind]}
  BY DEF Answer
<1>2. r \in Request /\ r.kind \in {"connect", "announce"} BY DEF RoundInv, RoundTypeOK, Request
<1>3. replies' \subseteq Reply BY <1>1, <1>2 DEF RoundInv, RoundTypeOK, Reply
<1>4. /\ UNCHANGED <<at, urls, pos, url, request, connId, counters, tried, answered, result>>
      /\ asked' = asked \ {r}
  BY DEF Answer, plan
<1>5. Open' \subseteq Open /\ TriedSoFar' BY <1>1, <1>4, StaysThere DEF Open, RoundInv, plan
<1> QED BY <1>3, <1>4, <1>5
        DEF RoundInv, RoundTypeOK, AllUsable, LastIsCurrent, PeersFromTheirTracker,
            AttemptsAccounted, counters, result

LEMMA CallerStep == ASSUME RoundInv, RoundCaller PROVE RoundInv'
<1>1. CASE Call
  <2>1. /\ urls' \in Seq(Urls) /\ pos' = 1 /\ pos' \in 1..(Len(urls') + 1)
        /\ at = "off" /\ at' = "next"
    BY <1>1 DEF Call
  <2>2. tried = {}
    BY <2>1 DEF RoundInv, TriedSoFar
  <2>3. TriedSoFar'
    BY <1>1, <2>1, <2>2 DEF Call, TriedSoFar
  <2> QED BY <1>1, <2>1, <2>3
          DEF Call, RoundInv, RoundTypeOK, AllUsable, LastIsCurrent, PeersFromTheirTracker,
              AttemptsAccounted,
              Open, Waiting, Places, plan, netVars, counters, result
<1>2. CASE Take
  BY <1>2, BoundsAssumption
     DEF Take, Clear, RoundInv, RoundTypeOK, AllUsable, LastIsCurrent, PeersFromTheirTracker,
         AttemptsAccounted,
         TriedSoFar, Open, Waiting, Places, counters, NoConnId
<1>3. CASE BanOne
  BY <1>3
     DEF BanOne, RoundInv, RoundTypeOK, AllUsable, LastIsCurrent, PeersFromTheirTracker,
         AttemptsAccounted,
         TriedSoFar, Open, plan, netVars, counters
<1> QED BY <1>1, <1>2, <1>3 DEF RoundCaller

LEMMA RoundKept == ASSUME RoundInv, [RoundNext \/ RoundCaller]_roundVars PROVE RoundInv'
<1>1. CASE RoundNext
  BY <1>1, SkipStep, TryStep, ReplyStep, OtherStep, AnswerStep DEF RoundNext, RoundStep
<1>2. CASE RoundCaller
  BY <1>2, CallerStep
<1>3. CASE UNCHANGED roundVars
  BY <1>3
     DEF roundVars, RoundInv, RoundTypeOK, AllUsable, LastIsCurrent, PeersFromTheirTracker,
         AttemptsAccounted, TriedSoFar, Open, plan, netVars, counters, result
<1> QED BY <1>1, <1>2, <1>3

\* What holds of rounds: late, repeated and stray datagrams mislead none of them.
THEOREM RoundInvariant == RoundSpec => []RoundInv
BY InitRound, RoundKept, PTL DEF RoundSpec

\* The peers of a round are those of the trackers that have answered in it.
THEOREM PeersFromTheirTrackerHolds == RoundSpec => []PeersFromTheirTracker
<1>1. RoundInv => PeersFromTheirTracker BY DEF RoundInv
<1> QED BY <1>1, RoundInvariant, PTL

\* Every attempt is counted once as a success or a failure.
THEOREM AttemptsAccountedHolds == RoundSpec => []AttemptsAccounted
<1>1. RoundInv => AttemptsAccounted BY DEF RoundInv
<1> QED BY <1>1, RoundInvariant, PTL
===============================================================================
