------------------------------- MODULE MCWebJobs -------------------------------
(***************************************************************************)
(* A small instance of WebJobs for TLC: two jobs of one torrent, which has  *)
(* three pieces in two files; piece 2 spans both.                           *)
(***************************************************************************)
EXTENDS WebJobs

CONSTANTS j1, j2, t1, none, bad

OneShared  == [j \in Jobs |-> t1]
ThreePieces == 1..3
Spanning   == [f \in Files |-> IF f = 1 THEN {1, 2} ELSE {2, 3}]

\* Before the first job there is no output; or files with some pieces right and a .part file
\* of an interrupted write; or one that a recheck does not look at.
On(first, second, part) == [data |-> [f \in Files |-> IF f = 1 THEN first ELSE second], part |-> part]

NoOutput   == {On(NoFile, NoFile, {})}
SomeOutput == NoOutput \cup {On({1, 2}, {2}, {2}), On({1, 2}, BadLength, {})}
===============================================================================
