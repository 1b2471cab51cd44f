--------------------------- MODULE MCDownloadManager ---------------------------
(* Small instances of DownloadManager for TLC. *)
EXTENDS DownloadManager

CONSTANTS p1, p2, k1, k2, k3, c1, c2, c3

\* c2 is the only connection to k2; c3, where it exists, is to k3 or, in the run that
\* reconnects, a second connection to k1.
ThreePeers == [c \in Conns |-> IF c = c1 THEN k1 ELSE IF c = c2 THEN k2 ELSE k3]
TwoPeers   == [c \in Conns |-> IF c = c2 THEN k2 ELSE k1]

EverySeed  == [c \in Conns |-> Pieces]
\* c2 has one piece only; c3 starts with one.
PartialSeed == [c \in Conns |-> IF c = c2 THEN {p1} ELSE Pieces]
GrowingSeed == [c \in Conns |-> IF c = c3 THEN {p1} ELSE Pieces]

\* Tracker rounds.
AllAtOnce    == {Conns}
ThenReconnect == {{}, {c1, c2}, {c3}}

\* Faults of the connections other than c2, and of c2.
OthersHave(bad, c2s) == [c \in Conns |-> IF c = c2 THEN c2s ELSE bad]
BlockFaults   == OthersHave({"drop", "choke", "corrupt", "stall"}, {})
NetworkFaults == [c \in Conns |-> CASE c = c1 -> {"drop", "slow"}
                                     [] c = c2 -> {"eof", "refuse"}
                                     [] OTHER  -> {"short", "have"}]
StallFaults   == OthersHave({"stall"}, {})
ChokeFaults   == OthersHave({"choke"}, {})
CorruptStall  == OthersHave({"corrupt", "stall"}, {})
CorruptDrop   == OthersHave({"corrupt", "drop"}, {})
HandshakeEof  == OthersHave({"eof"}, {})
===============================================================================
