------------------------------ MODULE PieceQueue ------------------------------
(***************************************************************************)
(* piece_queue as the list it is in DownloadManager (src/src/download.py).  *)
(* PieceScheduler keeps the set of its pieces, since __init__ shuffles the  *)
(* list; here are the helpers that work on the list itself, and what they   *)
(* have to do for the set to be the right abstraction of it.                *)
(*                                                                          *)
(* A definition whose comment starts with "Slip" is not part of the model   *)
(* (see PieceScheduler).                                                    *)
(***************************************************************************)
EXTENDS PieceScheduler, Sequences, Functions

\* q has the pieces of S, each once.
Ordered(q, S) == q \in Seq(S) /\ IsInjective(q) /\ Range(q) = S

\* The lists that a set of queued pieces stands for.
Orders(S) == {q \in [1..Cardinality(S) -> S] : Ordered(q, S)}

\* _queue_piece
Queued(s, q, i) == IF i \in s.done \cup Range(q) \cup Assigned(s) THEN q ELSE Append(q, i)

(***************************************************************************)
(* A pass over the list, which is rebuilt on the way:                       *)
(*   kept      the pieces that were looked at and stay                      *)
(*   selected  the piece that leaves the list for a peer                    *)
(*   left      what stays of the list behind the selected piece             *)
(***************************************************************************)
PassStart == [kept |-> <<>>, selected |-> NoPiece, left |-> <<>>]

\* Slip: a piece that is skipped does not come back.
PassStepSkips(m, i, drop, pick) ==
  IF i \in Range(m.kept) \/ (m.selected = NoPiece /\ i \in drop) THEN m
  ELSE IF m.selected # NoPiece THEN [m EXCEPT !.left = Append(@, i)]
  ELSE IF i \in pick THEN [m EXCEPT !.selected = i]
  ELSE m

\* The pass comes to piece i: it leaves out the pieces of drop, and stops looking when it has
\* found one of pick.
PassStep(m, i, drop, pick) ==
  IF i \in Range(m.kept) \/ (m.selected = NoPiece /\ i \in drop) THEN m
  ELSE IF m.selected # NoPiece THEN [m EXCEPT !.left = Append(@, i)]
  ELSE IF i \in pick THEN [m EXCEPT !.selected = i]
  ELSE [m EXCEPT !.kept = Append(@, i)]

\* The pass after each number of pieces.
Passing(q, drop, pick) ==
  LET after[n \in Nat] ==
        IF n = 0 THEN PassStart ELSE PassStep(after[n - 1], q[n], drop, pick)
  IN  after

Pass(q, drop, pick) == Passing(q, drop, pick)[Len(q)]

\* _pop_next_piece_for_peer for peer k that has the pieces `has`.
Popped(s, q, k, has) == Pass(q, s.done, Suitable(s, k, has))

Remaining(m) == m.kept \o m.left

\* _remove_piece_from_queue: nothing is selected.
Removed(q, i) == Remaining(Pass(q, {i}, {}))

-------------------------------------------------------------------------------
\* Whatever order the queue has, each helper leaves a list with the pieces that PieceScheduler
\* leaves in the set, each once; and the piece that a peer gets is one that it may get there.
ListIsSet(s) ==
  \A q \in Orders(s.queue) :
    /\ \A i \in Pieces :
         /\ Ordered(Queued(s, q, i), QueuePiece(s, i).queue)
         /\ Ordered(Removed(q, i), WritePiece(s, i).queue)
    /\ \A k \in {k \in Keys : s.current[k] = NoPiece}, has \in SUBSET Pieces :
         LET m == Popped(s, q, k, has) IN
         \E o \in Starts(s, k, has) :
           o.s.current[k] = m.selected /\ Ordered(Remaining(m), o.s.queue)
===============================================================================
