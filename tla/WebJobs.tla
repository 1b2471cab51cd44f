-------------------------------- MODULE WebJobs -------------------------------
(***************************************************************************)
(* The jobs of the Web UI (WhataBitWebApp, src/src/webui.py): the handlers  *)
(* that upload and delete a torrent and start, stop and recheck a job, the  *)
(* task that runs a job, the session file, and the process that is shut     *)
(* down, crashes and starts again.                                          *)
(*                                                                          *)
(* A handler is one action, unless it awaits the task of a job, as          *)
(* stop_download and shutdown do after they have cancelled it.  The manager *)
(* of a job is a record of ManagerState, and takes the steps of             *)
(* DownloadContract, which DownloadManager.tla implements.                  *)
(*                                                                          *)
(* Abstractions.  Every torrent has the files of OutputFiles, and jobs of   *)
(* one torrent write to the same directory.  The progress figures and the   *)
(* download of the output are left out; a process that is closing takes no  *)
(* requests.                                                                *)
(*                                                                          *)
(* A definition whose comment starts with "Slip" is not part of the model   *)
(* (see PieceScheduler).                                                    *)
(***************************************************************************)
EXTENDS ManagerState, OutputFiles

CONSTANTS
  Jobs,        \* ids of the jobs there can be
  Torrents,    \* the torrents that may be uploaded
  TorrentOf,   \* the torrent of a job
  MaxStops,    \* bound: stop requests for one job that wait at a time
  MaxCrashes,  \* bound: crashes of the process
  OldOutputs,  \* what may be on disk before the first job
  NoJob        \* "no such job"

ASSUME JobsAssumption ==
  /\ TorrentOf \in [Jobs -> Torrents]
  /\ MaxStops \in Nat \ {0}
  /\ MaxCrashes \in Nat
  /\ OldOutputs \subseteq Disk

VARIABLES
  server,    \* the process: serving, shutting down, or not there
  torrents,  \* self.torrents, and the files in the upload directory
  jobs,      \* self.jobs
  session,   \* session.json
  output,    \* the output of each torrent on disk
  crashes    \* history: crashes so far

vars == <<server, torrents, jobs, session, output, crashes>>

Active   == {"queued", "running", "stopping"}
Terminal == {"complete", "error", "stopped"}

\* cancelled: task.cancel() has been called and the task has not noticed yet;
\* stops: the stop requests that wait for the task.
JobState ==
  [status    : Active \cup Terminal,
   manager   : Manager,
   task      : {"none", "created", "running", "done"},
   cancelled : BOOLEAN,
   stops     : 0..MaxStops]

\* What the session file keeps of a job: its status, and is_complete and output_written
\* of its stats.
Saved == [status : Active \cup Terminal, completed : BOOLEAN, written : BOOLEAN]

ASSUME NoJobAssumption == NoJob \notin JobState /\ NoJob \notin Saved

TypeOK ==
  /\ server \in {"up", "closing", "down"}
  /\ torrents \subseteq Torrents
  /\ jobs \in [Jobs -> JobState \cup {NoJob}]
  /\ session \in [Jobs -> Saved \cup {NoJob}]
  /\ output \in [Torrents -> Disk]
  /\ crashes \in 0..MaxCrashes

Init ==
  /\ server = "up"
  /\ torrents = {}
  /\ jobs = [j \in Jobs |-> NoJob]
  /\ session = [j \in Jobs |-> NoJob]
  /\ output \in [Torrents -> OldOutputs]
  /\ crashes = 0

Known(j)  == server # "down" /\ jobs[j] # NoJob
OutputOf(j) == output[TorrentOf[j]]
Idle      == [phase |-> "idle", running |-> FALSE, completed |-> FALSE, written |-> FALSE]

-------------------------------------------------------------------------------
(* The session file *)

Entry(job) ==
  [status |-> job.status, completed |-> job.manager.completed, written |-> job.manager.written]

\* _save_session writes every job there is, and replaces the file in one step.
Save(js) == session' = [j \in Jobs |-> IF js[j] = NoJob THEN NoJob ELSE Entry(js[j])]

\* A handler leaves job j in state `job`, and saves.
Leaves(j, job) ==
  /\ jobs' = [jobs EXCEPT ![j] = job]
  /\ Save(jobs')

\* A job that was active is shown as stopped.
Settled(status) == IF status \in Active THEN "stopped" ELSE status

\* Slip: the status is taken as it was saved.
RestoredAsSaved(j, saved) ==
  [status |-> saved.status, manager |-> Idle, task |-> "none", cancelled |-> FALSE, stops |-> 0]

\* Slip: every job is taken for a stopped one.
RestoredStopped(j, saved) ==
  [status |-> "stopped", manager |-> Idle, task |-> "none", cancelled |-> FALSE, stops |-> 0]

\* _load_existing_jobs: what becomes of a saved job, whose torrent is still there.
Restored(j, saved) ==
  LET complete == saved.status = "complete" IN
  [status    |-> Settled(saved.status),
   manager   |-> [Idle EXCEPT !.completed = complete /\ saved.completed,
                              !.written   = complete /\ (saved.written \/ Exists(OutputOf(j)))],
   task      |-> "none",
   cancelled |-> FALSE,
   stops     |-> 0]

-------------------------------------------------------------------------------
(* The handlers *)

\* upload_torrent: the torrent gets a new id, which no job knows.
Upload(t) ==
  /\ server = "up"
  /\ t \notin torrents
  /\ \A j \in Jobs : TorrentOf[j] = t => jobs[j] = NoJob /\ session[j] = NoJob
  /\ torrents' = torrents \cup {t}
  /\ Save(jobs)
  /\ UNCHANGED <<server, jobs, output, crashes>>

\* start_download of a new job: recheck, and run it unless its output is already there.
Start(j) ==
  /\ server = "up"
  /\ jobs[j] = NoJob /\ session[j] = NoJob
  /\ TorrentOf[j] \in torrents
  /\ Leaves(j, [status    |-> IF Whole(OutputOf(j)) THEN "complete" ELSE "queued",
                manager   |-> Verified(Idle, Whole(OutputOf(j))),
                task      |-> IF Whole(OutputOf(j)) THEN "none" ELSE "created",
                cancelled |-> FALSE,
                stops     |-> 0])
  /\ UNCHANGED <<server, torrents, output, crashes>>

\* The recheck of a new job raises, because its output cannot be read: the job is listed as
\* queued, has no task and has not been saved.
StartFails(j) ==
  /\ server = "up"
  /\ jobs[j] = NoJob /\ session[j] = NoJob
  /\ TorrentOf[j] \in torrents
  /\ jobs' = [jobs EXCEPT ![j] =
       [status |-> "queued", manager |-> Idle, task |-> "none", cancelled |-> FALSE, stops |-> 0]]
  /\ UNCHANGED <<server, torrents, session, output, crashes>>

\* Slip: the result of the recheck is not saved.
RecheckUnsaved(j) ==
  /\ server = "up" /\ Known(j)
  /\ jobs[j].status \notin Active
  /\ jobs' = [jobs EXCEPT ![j].manager = Verified(@, Whole(OutputOf(j))),
                          ![j].status  = IF Whole(OutputOf(j)) THEN "complete" ELSE "stopped"]
  /\ UNCHANGED <<server, torrents, session, output, crashes>>

\* recheck_download
Recheck(j) ==
  /\ server = "up" /\ Known(j)
  /\ jobs[j].status \notin Active
  /\ Leaves(j, [jobs[j] EXCEPT !.manager = Verified(@, Whole(OutputOf(j))),
                               !.status  = IF Whole(OutputOf(j)) THEN "complete" ELSE "stopped"])
  /\ UNCHANGED <<server, torrents, output, crashes>>

\* Slip: the task is not cancelled.
StopPolitely(j) ==
  /\ server = "up" /\ Known(j)
  /\ jobs[j].status \in Active
  /\ jobs[j].stops < MaxStops
  /\ Leaves(j, [jobs[j] EXCEPT !.manager = Halted(@), !.status = "stopping", !.stops = @ + 1])
  /\ UNCHANGED <<server, torrents, output, crashes>>

\* stop_download up to the await of the task.
Stop(j) ==
  /\ server = "up" /\ Known(j)
  /\ jobs[j].status \in Active
  /\ jobs[j].stops < MaxStops
  /\ Leaves(j, [jobs[j] EXCEPT !.manager   = Halted(@),
                               !.status    = "stopping",
                               !.cancelled = @ \/ jobs[j].task \in {"created", "running"},
                               !.stops     = @ + 1])
  /\ UNCHANGED <<server, torrents, output, crashes>>

\* Slip: the handler goes on when the task is over, whether or not a request waits.
StopDoneUnasked(j) ==
  /\ Known(j)
  /\ jobs[j].task = "done"
  /\ Leaves(j, [jobs[j] EXCEPT !.status = IF jobs[j].manager.completed THEN "complete" ELSE "stopped",
                               !.stops  = @ - 1])
  /\ UNCHANGED <<server, torrents, output, crashes>>

\* The rest of stop_download.
StopDone(j) ==
  /\ Known(j)
  /\ jobs[j].stops > 0
  /\ jobs[j].task \in {"none", "done"}
  /\ Leaves(j, [jobs[j] EXCEPT !.status = IF jobs[j].manager.completed THEN "complete" ELSE "stopped",
                               !.stops  = @ - 1])
  /\ UNCHANGED <<server, torrents, output, crashes>>

\* Slip: a job that is stopping does not keep its torrent.
DeleteStopping(t) ==
  /\ server = "up"
  /\ t \in torrents
  /\ \A j \in Jobs : jobs[j] # NoJob /\ TorrentOf[j] = t => jobs[j].status \notin {"queued", "running"}
  /\ torrents' = torrents \ {t}
  /\ Save(jobs)
  /\ UNCHANGED <<server, jobs, output, crashes>>

\* delete_torrent: not with a job that is active; its other jobs stay.
Delete(t) ==
  /\ server = "up"
  /\ t \in torrents
  /\ \A j \in Jobs : jobs[j] # NoJob /\ TorrentOf[j] = t => jobs[j].status \notin Active
  /\ torrents' = torrents \ {t}
  /\ Save(jobs)
  /\ UNCHANGED <<server, jobs, output, crashes>>

-------------------------------------------------------------------------------
(* The task of a job: _run_job *)

Run(j) ==
  /\ Known(j)
  /\ jobs[j].task = "created" /\ ~jobs[j].cancelled
  /\ Leaves(j, [jobs[j] EXCEPT !.status = "running", !.task = "running",
                               !.manager = Started])
  /\ UNCHANGED <<server, torrents, output, crashes>>

\* The output that download() leaves when its manager is m: written, or not, because writing
\* it raised, or because the job is not complete.
Outputs(m, d) ==
  IF m.written THEN {Flushed(d)} ELSE IF m.completed THEN Interrupted(d) ELSE {d}

\* Slip: whatever download() returns from is complete.
ReturnComplete(j) ==
  /\ Known(j)
  /\ jobs[j].task = "running" /\ ~jobs[j].cancelled
  /\ \E m \in Returns(jobs[j].manager) :
       /\ Leaves(j, [jobs[j] EXCEPT !.status = "complete", !.task = "done", !.manager = m])
       /\ \E d \in Outputs(m, OutputOf(j)) : output' = [output EXCEPT ![TorrentOf[j]] = d]
  /\ UNCHANGED <<server, torrents, crashes>>

\* download() returns; a complete one has tried to write its output.
Return(j) ==
  /\ Known(j)
  /\ jobs[j].task = "running" /\ ~jobs[j].cancelled
  /\ \E m \in Returns(jobs[j].manager) :
       /\ Leaves(j, [jobs[j] EXCEPT !.status  = IF m.completed THEN "complete" ELSE "stopped",
                                    !.task    = "done",
                                    !.manager = m])
       /\ \E d \in Outputs(m, OutputOf(j)) : output' = [output EXCEPT ![TorrentOf[j]] = d]
  /\ UNCHANGED <<server, torrents, crashes>>

\* download() raises.
Fail(j) ==
  /\ Known(j)
  /\ jobs[j].task = "running" /\ ~jobs[j].cancelled
  /\ \E m \in Raises(jobs[j].manager) :
       Leaves(j, [jobs[j] EXCEPT !.status = "error", !.task = "done", !.manager = m])
  /\ UNCHANGED <<server, torrents, output, crashes>>

\* The task notices that it is cancelled; one that has not run yet never enters _run_job.
Cancelled(j) ==
  /\ Known(j)
  /\ jobs[j].cancelled
  /\ \/ /\ jobs[j].task = "running"
        /\ Leaves(j, [jobs[j] EXCEPT !.status = "stopped", !.task = "done", !.cancelled = FALSE,
                                     !.manager = Aborted(@)])
     \/ /\ jobs[j].task = "created"
        /\ jobs' = [jobs EXCEPT ![j].task = "done", ![j].cancelled = FALSE]
        /\ UNCHANGED session
  /\ UNCHANGED <<server, torrents, output, crashes>>

\* Any other progress of an incomplete job: the progress callback saves the session.
Progress(j) ==
  /\ Known(j)
  /\ jobs[j].manager.phase # "idle" /\ ~jobs[j].manager.completed
  /\ Save(jobs)
  /\ UNCHANGED <<server, torrents, jobs, output, crashes>>

\* A read loop of the job verifies its last piece, during download() or after it.  The
\* progress is reported, and with it the session saved, before the job counts as complete.
LastPiece(j) ==
  /\ Known(j)
  /\ jobs[j].manager.phase # "idle" /\ ~jobs[j].manager.completed
  /\ jobs' = [jobs EXCEPT ![j].manager = Completed(@)]
  /\ Save(jobs)
  /\ UNCHANGED <<server, torrents, output, crashes>>

-------------------------------------------------------------------------------
(* The process *)

\* shutdown turns to job j: it is stopped, and its task cancelled and awaited.
Closes(job) ==
  [job EXCEPT !.manager   = Halted(@),
              !.cancelled = @ \/ job.task \in {"created", "running"}]

Shutdown ==
  /\ server = "up"
  /\ server' = "closing"
  /\ UNCHANGED <<torrents, jobs, session, output, crashes>>

\* One job after the other: a job that shutdown has cancelled is awaited first.
CloseJob(j) ==
  /\ server = "closing" /\ Known(j)
  /\ Closes(jobs[j]) # jobs[j]
  /\ \A i \in Jobs : jobs[i] # NoJob /\ jobs[i].cancelled => jobs[i].stops > 0
  /\ jobs' = [jobs EXCEPT ![j] = Closes(@)]
  /\ UNCHANGED <<server, torrents, session, output, crashes>>

\* Every job has been stopped, and no task is left: save, and exit.
Exit ==
  /\ server = "closing"
  /\ \A j \in Jobs : jobs[j] # NoJob =>
        Closes(jobs[j]) = jobs[j] /\ jobs[j].task \in {"none", "done"}
  /\ server' = "down"
  /\ Save(jobs)
  /\ jobs' = [j \in Jobs |-> NoJob]
  /\ UNCHANGED <<torrents, output, crashes>>

Crash ==
  /\ server # "down"
  /\ crashes < MaxCrashes
  /\ crashes' = crashes + 1
  /\ server' = "down"
  /\ jobs' = [j \in Jobs |-> NoJob]
  /\ UNCHANGED <<torrents, session, output>>

\* The process dies while the output is written, or before the session is saved after it.
CrashWriting(j) ==
  /\ server # "down"
  /\ crashes < MaxCrashes
  /\ jobs[j] # NoJob
  /\ jobs[j].task = "running" /\ ~jobs[j].cancelled
  /\ crashes' = crashes + 1
  /\ server' = "down"
  /\ \E d \in Interrupted(OutputOf(j)) \cup {Flushed(OutputOf(j))} :
       output' = [output EXCEPT ![TorrentOf[j]] = d]
  /\ jobs' = [i \in Jobs |-> NoJob]
  /\ UNCHANGED <<torrents, session>>

\* create_app: _load_existing_torrents and _load_existing_jobs.
Restart ==
  /\ server = "down"
  /\ server' = "up"
  /\ jobs' = [j \in Jobs |-> IF session[j] # NoJob /\ TorrentOf[j] \in torrents
                             THEN Restored(j, session[j]) ELSE NoJob]
  /\ UNCHANGED <<torrents, session, output, crashes>>

-------------------------------------------------------------------------------
TaskStep(j) == Run(j) \/ Return(j) \/ Fail(j) \/ Cancelled(j) \/ Progress(j) \/ LastPiece(j)

Next ==
  \/ \E j \in Jobs : Start(j) \/ StartFails(j) \/ Recheck(j) \/ Stop(j) \/ StopDone(j) \/ TaskStep(j) \/ CloseJob(j)
                      \/ CrashWriting(j)
  \/ \E t \in Torrents : Upload(t) \/ Delete(t)
  \/ Shutdown \/ Exit \/ Crash \/ Restart

Spec == Init /\ [][Next]_vars

\* The event loop runs what is ready: a cancelled task, and a handler whose task is over.
FairSpec ==
  /\ Spec
  /\ \A j \in Jobs : WF_vars(Cancelled(j)) /\ WF_vars(StopDone(j)) /\ WF_vars(CloseJob(j))
  /\ WF_vars(Exit)

-------------------------------------------------------------------------------
(* Safety *)

\* A job is shown or saved as complete only when every piece is verified, whatever a stop,
\* a recheck, a late piece, a crash and a restart make of it (BACKLOG DL-001).
NoFalseComplete ==
  \A j \in Jobs :
    /\ Known(j) /\ jobs[j].status = "complete" => jobs[j].manager.completed
    /\ session[j] # NoJob /\ session[j].status = "complete" => session[j].completed

\* The start of job j has failed.
Unstarted(j) == jobs[j].status = "queued" /\ jobs[j].task = "none"

\* A crash at any moment loses no status: what a restart would show of a job is what is
\* shown now, an active job as stopped (BACKLOG ST-002, ADR-003), once the job has started.
CrashLosesNothing ==
  \A j \in Jobs : Known(j) /\ ~Unstarted(j) =>
    session[j] # NoJob /\ Settled(session[j].status) = Settled(jobs[j].status)

\* A job that refuses to be rechecked or deleted because it is active has a task, or a stop
\* request, that will end that: no job that has started is stuck.
ActiveHasTask ==
  \A j \in Jobs : Known(j) /\ jobs[j].status \in Active /\ ~Unstarted(j) =>
    jobs[j].task \in {"created", "running"}
      \/ (jobs[j].status = "stopping" /\ jobs[j].stops > 0) \/ server = "closing"

\* No download goes on without its torrent: delete_torrent refuses as long as a task runs,
\* also one that has been told to stop and has not noticed yet.
TaskHasTorrent ==
  \A j \in Jobs : Known(j) /\ jobs[j].task \in {"created", "running"} => TorrentOf[j] \in torrents

\* What a job that ran in this process calls written is whole on disk, piece by piece,
\* whatever was there before and whatever another job of the torrent does (_flush_output).
\* A complete job of an earlier process calls its output written when anything is there.
WrittenIsWhole ==
  \A j \in Jobs : Known(j) /\ jobs[j].task # "none" /\ jobs[j].manager.written => Whole(OutputOf(j))

\* No write takes away a piece that a recheck could have resumed from: not one that fails
\* or one that a crash interrupts, between two files or within one (_write_file_atomic).
ResumeNeverShrinks ==
  [][\A t \in Torrents : Intact(output[t]) \subseteq Intact(output'[t])]_vars

\* A job saved as complete whose output is there is complete for good, through stops,
\* rechecks, crashes and restarts, unless its torrent is deleted (BACKLOG ST-002, ST-003).
CompleteSurvives ==
  [][\A j \in Jobs :
       session[j] # NoJob /\ session[j].status = "complete" /\ Whole(OutputOf(j)) /\ TorrentOf[j] \in torrents'
         => session'[j] # NoJob /\ session'[j].status = "complete"]_vars

-------------------------------------------------------------------------------
(* What the documentation says and the code does not do *)

\* "Stopping a download does not produce a misleading 'complete' output"
\* (docs/project/PROJECT_CHARTER.md:43): a stop request that answers "complete" leaves the
\* output on disk.
StopIsHonest ==
  [][\A j \in Jobs :
       Known(j) /\ jobs'[j] # NoJob /\ jobs'[j].stops < jobs[j].stops /\ jobs'[j].status = "complete"
         => Whole(OutputOf(j))]_vars

-------------------------------------------------------------------------------
(* Liveness *)

\* A job that is asked to stop settles, or the process ends.
StopSettles ==
  \A j \in Jobs : (Known(j) /\ jobs[j].status = "stopping")
                     ~> ~(Known(j) /\ jobs[j].status \in Active)
===============================================================================
