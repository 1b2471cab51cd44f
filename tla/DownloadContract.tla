---------------------------- MODULE DownloadContract ---------------------------
(***************************************************************************)
(* What one call of DownloadManager.download (src/src/download.py) promises:*)
(* how it ends, when the job is complete and when its output has been       *)
(* written.  DownloadManager.tla implements this specification, and         *)
(* WebJobs.tla is built on the steps it consists of.                        *)
(***************************************************************************)
EXTENDS ManagerState

VARIABLE manager

Inside == manager.phase = "running"

Init == manager = Started

Complete == manager' = Completed(manager)
Return   == Inside /\ manager' \in Returns(manager)
Raise    == Inside /\ manager' \in Raises(manager)
Cancel   == Inside /\ manager' = Aborted(manager)
Recheck  == ~Inside /\ \E whole \in BOOLEAN : manager' = Verified(manager, whole)

Next == Complete \/ Return \/ Raise \/ Cancel \/ Recheck

Spec == Init /\ [][Next]_manager
===============================================================================
