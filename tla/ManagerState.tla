------------------------------ MODULE ManagerState -----------------------------
(***************************************************************************)
(* The state of a DownloadManager (src/src/download.py) that the Web UI     *)
(* looks at, and how it may change.                                         *)
(*                                                                          *)
(*   phase      "idle" before download(), "running" inside it, then "end"   *)
(*              when it has returned or was cancelled, "error" when it has  *)
(*              raised                                                      *)
(*   running, completed, written   running, completed, output_written       *)
(***************************************************************************)
Manager ==
  [phase     : {"idle", "running", "end", "error"},
   running   : BOOLEAN,
   completed : BOOLEAN,
   written   : BOOLEAN]

\* __init__ and recheck_existing_output: complete when the whole output verifies.
Verified(m, whole) == [m EXCEPT !.completed = whole, !.written = whole]

\* download() up to its first await.
Started == [phase |-> "running", running |-> TRUE, completed |-> FALSE, written |-> FALSE]

\* A read loop verifies the last piece (_update_progress).  The read loops of a job
\* outlive download(), so this may happen after its end.
Completed(m) == [m EXCEPT !.completed = TRUE]

\* download() returns: complete, with its output written unless that failed; or without
\* a peer to download from.
Returns(m) ==
  {[m EXCEPT !.phase = "end", !.completed = TRUE, !.written = w] : w \in BOOLEAN}
  \cup (IF m.completed THEN {} ELSE {[m EXCEPT !.phase = "end", !.running = FALSE]})

\* download() raises; it may have found every piece complete in the same step.
Raises(m) ==
  {[m EXCEPT !.phase = "error"], [m EXCEPT !.phase = "error", !.completed = TRUE]}

\* stop(), and the end of download() when its task is cancelled.
Halted(m) == [m EXCEPT !.running = FALSE]
Aborted(m) == [m EXCEPT !.running = FALSE, !.phase = "end"]
===============================================================================
