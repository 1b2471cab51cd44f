----------------------------- MODULE WebJobs_proofs -----------------------------
(***************************************************************************)
(* The safety properties of WebJobs, for any jobs, torrents and files and   *)
(* any number of stop requests and crashes.                                 *)
(*                                                                          *)
(* The inductive invariant IInv says of each job alone what must be right   *)
(* of it (JobOK), and of the session file how it follows the jobs           *)
(* (SessionOK).  Almost every action brings one job from one record to the  *)
(* next; lemma JobStep says, once, what such a step has to establish.       *)
(***************************************************************************)
EXTENDS WebJobs, TLAPS

-------------------------------------------------------------------------------
(* The files *)

\* A file that is written replaces nothing but itself, so the pieces that verify still do,
\* however far _flush_output comes.
LEMMA WritingKeeps ==
  ASSUME NEW d \in Disk, NEW k \in Nat, NEW opened \in BOOLEAN
  PROVE  Intact(d) \subseteq Intact(Writing(d, k, opened))
<1> DEFINE w == Writing(d, k, opened)
<1>1. \A f \in Files : w.data[f] = PiecesOf[f] \/ w.data[f] = d.data[f]
  BY DEF Writing
<1>2. \A f \in Files : PiecesOf[f] \notin {NoFile, BadLength}
  BY FilesAssumption, ContentAssumption
<1>3. Readable(d) => Readable(w)
  BY <1>1, <1>2 DEF Readable
<1> QED BY <1>1, <1>3 DEF Intact

\* A file that is there, or has a .part file, is one of the torrent's.
LEMMA WritingType ==
  ASSUME NEW d \in Disk, NEW k \in 0..NumFiles, NEW opened \in BOOLEAN, k = NumFiles => ~opened
  PROVE  Writing(d, k, opened) \in Disk
<1>1. k + 1 \in Files \/ ~opened BY FilesAssumption DEF Files
<1>2. \A f \in Files : PiecesOf[f] \in Content BY FilesAssumption DEF Content
<1> QED BY <1>1, <1>2 DEF Writing, Disk

LEMMA InterruptedKeeps ==
  ASSUME NEW d \in Disk, NEW e \in Interrupted(d)
  PROVE  e \in Disk /\ Intact(d) \subseteq Intact(e)
<1>1. PICK k \in 0..(NumFiles - 1), opened \in BOOLEAN : e = Writing(d, k, opened)
  BY DEF Interrupted
<1>2. k \in Nat /\ k \in 0..NumFiles /\ k # NumFiles BY FilesAssumption
<1> QED BY <1>1, <1>2, WritingKeeps, WritingType

LEMMA FlushedIsWhole ==
  ASSUME NEW d \in Disk
  PROVE  Flushed(d) \in Disk /\ Whole(Flushed(d)) /\ Intact(d) \subseteq Intact(Flushed(d))
<1>1. NumFiles \in Nat /\ NumFiles \in 0..NumFiles BY FilesAssumption
<1>2. \A f \in Files : Flushed(d).data[f] = PiecesOf[f]
  BY <1>1 DEF Flushed, Writing, Files
<1>3. Readable(Flushed(d))
  BY <1>2, FilesAssumption, ContentAssumption DEF Readable
<1>4. Whole(Flushed(d)) BY <1>2, <1>3 DEF Whole, Intact
<1> QED BY <1>1, <1>4, WritingKeeps, WritingType DEF Flushed

\* Pieces are all there is to verify, so an output that is whole stays so.
LEMMA WholeStays ==
  ASSUME NEW d, NEW e, Whole(d), Intact(d) \subseteq Intact(e)
  PROVE  Whole(e)
BY DEF Whole, Intact

-------------------------------------------------------------------------------
(* The invariant *)

HasTask(job) == job.task \in {"created", "running"}
Asked(job)   == job.status = "stopping" /\ job.stops > 0

\* What is right of a job: `closing` when the process is, `kept` when its torrent is there,
\* d its output.
JobOK(job, closing, kept, d) ==
  /\ job \in JobState
  /\ job.status = "complete" => job.manager.completed
  /\ job.status \in Active /\ ~(job.status = "queued" /\ job.task = "none") =>
       HasTask(job) \/ Asked(job) \/ closing
  /\ HasTask(job) => job.status \in Active /\ kept
  /\ job.cancelled => HasTask(job) /\ (Asked(job) \/ closing)
  /\ job.task # "none" /\ job.manager.written => Whole(d)

Fits(j) == JobOK(jobs[j], server = "closing", TorrentOf[j] \in torrents, OutputOf(j))

\* The session file shows a job as it is, knows every job that has started, and knows no job
\* that the process has lost, unless its torrent is lost too.
SessionOK(j) ==
  /\ session[j] # NoJob /\ session[j].status = "complete" => session[j].completed
  /\ Known(j) /\ session[j] # NoJob => Settled(session[j].status) = Settled(jobs[j].status)
  /\ Known(j) /\ ~Unstarted(j) => session[j] # NoJob
  /\ server # "down" /\ session[j] # NoJob /\ TorrentOf[j] \in torrents => jobs[j] # NoJob

IInv ==
  /\ TypeOK
  /\ \A j \in Jobs : (Known(j) => Fits(j)) /\ SessionOK(j)

\* What a write does to the output of some torrent, if anything.
Improved ==
  /\ output' \in [Torrents -> Disk]
  /\ \A t \in Torrents : Intact(output[t]) \subseteq Intact(output'[t])

LEMMA InitInvariant == Init => IInv
<1> SUFFICES ASSUME Init PROVE IInv OBVIOUS
<1>1. TypeOK BY JobsAssumption DEF Init, TypeOK
<1> QED BY <1>1 DEF Init, IInv, SessionOK, Known

\* _save_session writes what it is given.
LEMMA SaveType ==
  ASSUME NEW js \in [Jobs -> JobState \cup {NoJob}], Save(js)
  PROVE  session' \in [Jobs -> Saved \cup {NoJob}]
<1> SUFFICES ASSUME NEW j \in Jobs, js[j] # NoJob PROVE Entry(js[j]) \in Saved
  BY DEF Save
<1>1. js[j] \in JobState OBVIOUS
<1> QED BY <1>1 DEF Entry, Saved, JobState, Manager

\* The jobs follow the session file when they have just been saved in it.
LEMMA SaveOK ==
  ASSUME NEW j \in Jobs, Save(jobs'), jobs'[j] # NoJob => JobOK(jobs'[j], (server = "closing")', (TorrentOf[j] \in torrents)', OutputOf(j)')
  PROVE  SessionOK(j)'
<1>1. session'[j] = IF jobs'[j] = NoJob THEN NoJob ELSE Entry(jobs'[j])
  BY DEF Save
<1>2. jobs'[j] # NoJob => Entry(jobs'[j]) # NoJob
  BY NoJobAssumption DEF JobOK, Entry, Saved, JobState, Manager
<1> QED BY <1>1, <1>2 DEF SessionOK, JobOK, Entry, Known, Unstarted

\* One job takes a step, and saves; or the session file is left alone because the job is a
\* new one whose start has failed, or is left alone or saved as before because the job shows
\* as before.
LEMMA JobStep ==
  ASSUME IInv, NEW j \in Jobs, NEW job,
         server # "down", UNCHANGED <<server, torrents, crashes>>, Improved,
         jobs' = [jobs EXCEPT ![j] = job],
         JobOK(job, server = "closing", TorrentOf[j] \in torrents, output'[TorrentOf[j]]),
         \/ Save(jobs')
         \/ UNCHANGED session /\ session[j] = NoJob /\ job.status = "queued" /\ job.task = "none"
         \/ /\ UNCHANGED session \/ Save(jobs)
            /\ jobs[j] # NoJob
            /\ job.status = jobs[j].status
            /\ job.task = "none" <=> jobs[j].task = "none"
  PROVE  IInv'
<1> USE DEF IInv
<1>1. job \in JobState /\ job # NoJob
  BY NoJobAssumption DEF JobOK
<1>2. jobs' \in [Jobs -> JobState \cup {NoJob}]
  BY <1>1 DEF TypeOK
<1>3. TypeOK'
  BY <1>2, SaveType DEF TypeOK, Improved
<1>4. \A i \in Jobs : Known(i)' => Fits(i)'
  <2> SUFFICES ASSUME NEW i \in Jobs, Known(i)' PROVE Fits(i)'
    OBVIOUS
  <2>1. CASE i = j
    BY <2>1 DEF Fits, OutputOf, TypeOK
  <2>2. CASE i # j
    <3>1. jobs'[i] = jobs[i] /\ Known(i) /\ Fits(i)
      BY <2>2 DEF Known, TypeOK
    <3>2. Whole(OutputOf(i)) => Whole(OutputOf(i)')
      BY WholeStays, JobsAssumption DEF Improved, OutputOf
    <3> QED BY <3>1, <3>2 DEF Fits, JobOK
  <2> QED BY <2>1, <2>2
<1>5. \A i \in Jobs : SessionOK(i)'
  <2> SUFFICES ASSUME NEW i \in Jobs PROVE SessionOK(i)'
    OBVIOUS
  <2>1. CASE Save(jobs')
    BY <1>4, <2>1, SaveOK DEF Fits, Known
  <2>2. CASE /\ Save(jobs)
             /\ jobs[j] # NoJob /\ job.status = jobs[j].status
             /\ job.task = "none" <=> jobs[j].task = "none"
    <3>1. jobs[i] # NoJob => Fits(i) /\ Entry(jobs[i]) # NoJob
      BY NoJobAssumption DEF Known, Fits, JobOK, Entry, Saved, JobState, Manager
    <3>2. session'[i] = IF jobs[i] = NoJob THEN NoJob ELSE Entry(jobs[i])
      BY <2>2 DEF Save
    <3>3. i # j => jobs'[i] = jobs[i] BY DEF TypeOK
    <3>4. jobs'[j] = job BY DEF TypeOK
    <3> QED BY <1>1, <2>2, <3>1, <3>2, <3>3, <3>4 DEF SessionOK, Known, Unstarted, Entry, Fits, JobOK
  <2>3. CASE /\ UNCHANGED session
             /\ \/ session[j] = NoJob /\ job.status = "queued" /\ job.task = "none"
                \/ /\ jobs[j] # NoJob /\ job.status = jobs[j].status
                   /\ job.task = "none" <=> jobs[j].task = "none"
    <3>1. CASE i = j
      BY <1>1, <2>3, <3>1 DEF SessionOK, Known, Unstarted, TypeOK
    <3>2. CASE i # j
      BY <2>3, <3>2 DEF SessionOK, Known, Unstarted, TypeOK
    <3> QED BY <3>1, <3>2
  <2> QED BY <2>1, <2>2, <2>3
<1> QED BY <1>3, <1>4, <1>5

\* No step but that of a write touches the output.
LEMMA Untouched ==
  ASSUME IInv, UNCHANGED output
  PROVE  Improved
BY DEF IInv, TypeOK, Improved

-------------------------------------------------------------------------------
(* The handlers *)

LEMMA UploadStep == ASSUME IInv, NEW t \in Torrents, Upload(t) PROVE IInv'
<1> USE DEF IInv
<1>1. TypeOK' BY SaveType DEF Upload, TypeOK
<1>2. \A j \in Jobs : Known(j)' => Fits(j)'
  <2> SUFFICES ASSUME NEW j \in Jobs, Known(j)' PROVE Fits(j)' OBVIOUS
  <2> QED BY DEF Upload, Known, Fits, JobOK, OutputOf
<1> QED BY <1>1, <1>2, SaveOK DEF Upload, Fits, Known

\* A torrent with an active job stays, so the torrent of a task does.
LEMMA DeleteStep == ASSUME IInv, NEW t \in Torrents, Delete(t) PROVE IInv'
<1> USE DEF IInv
<1>1. TypeOK' BY SaveType DEF Delete, TypeOK
<1>2. \A j \in Jobs : Known(j)' => Fits(j)'
  <2> SUFFICES ASSUME NEW j \in Jobs, Known(j)' PROVE Fits(j)' OBVIOUS
  <2> QED BY DEF Delete, Known, Fits, JobOK, HasTask, OutputOf
<1> QED BY <1>1, <1>2, SaveOK DEF Delete, Fits, Known

\* A manager that has done nothing yet.
LEMMA FreshManagers ==
  /\ Idle \in Manager /\ ~Idle.completed /\ ~Idle.written
  /\ Started \in Manager /\ ~Started.written
BY DEF Manager, Idle, Started

\* What becomes of a manager.
LEMMA ManagerSteps ==
  ASSUME NEW m \in Manager, NEW w \in BOOLEAN
  PROVE  /\ Verified(m, w) \in Manager /\ Verified(m, w).completed = w /\ Verified(m, w).written = w
         /\ \A n \in {Halted(m), Aborted(m)} :
              n \in Manager /\ n.completed = m.completed /\ n.written = m.written
         /\ Completed(m) \in Manager /\ Completed(m).completed /\ Completed(m).written = m.written
         /\ \A n \in Raises(m) : n \in Manager /\ n.written = m.written
         /\ \A n \in Returns(m) : n \in Manager
<1> USE DEF Manager
<1>1. Verified(m, w) \in Manager /\ Verified(m, w).completed = w /\ Verified(m, w).written = w
  BY DEF Verified
<1>2. \A n \in {Halted(m), Aborted(m)} :
        n \in Manager /\ n.completed = m.completed /\ n.written = m.written
  BY DEF Halted, Aborted
<1>3. Completed(m) \in Manager /\ Completed(m).completed /\ Completed(m).written = m.written
  BY DEF Completed
<1>4. \A n \in Raises(m) : n \in Manager /\ n.written = m.written
  BY DEF Raises
<1>5. \A n \in Returns(m) : n \in Manager
  BY DEF Returns
<1> QED BY <1>1, <1>2, <1>3, <1>4, <1>5

LEMMA HandlerStep ==
  ASSUME IInv, NEW j \in Jobs, Start(j) \/ StartFails(j) \/ Recheck(j) \/ Stop(j) \/ StopDone(j)
  PROVE  IInv'
<1> USE DEF JobState, HasTask, Asked, Active, Terminal
<1>1. 0 \in 0..MaxStops BY JobsAssumption
<1>2. Known(j) => jobs[j] \in JobState /\ JobOK(jobs[j], server = "closing", TorrentOf[j] \in torrents, OutputOf(j))
  BY DEF IInv, Fits, TypeOK, Known
<1>3. CASE Start(j)
  <2> DEFINE job ==
        [status    |-> IF Whole(OutputOf(j)) THEN "complete" ELSE "queued",
         manager   |-> Verified(Idle, Whole(OutputOf(j))),
         task      |-> IF Whole(OutputOf(j)) THEN "none" ELSE "created",
         cancelled |-> FALSE,
         stops     |-> 0]
  <2>1. Whole(OutputOf(j)) \in BOOLEAN BY DEF Whole
  <2>2. LET m == job.manager IN
          m \in Manager /\ m.completed = Whole(OutputOf(j)) /\ m.written = Whole(OutputOf(j))
    BY <2>1, FreshManagers, ManagerSteps
  <2>3. JobOK(job, server = "closing", TorrentOf[j] \in torrents, OutputOf(j))
    BY <1>1, <1>3, <2>2 DEF Start, JobOK
  <2> HIDE DEF job
  <2> QED BY <1>3, <2>3, JobStep, Untouched DEF Start, Leaves, OutputOf, job
<1>4. CASE StartFails(j)
  <2> DEFINE job ==
        [status |-> "queued", manager |-> Idle, task |-> "none", cancelled |-> FALSE, stops |-> 0]
  <2>1. JobOK(job, server = "closing", TorrentOf[j] \in torrents, OutputOf(j))
    BY <1>1, FreshManagers DEF JobOK
  <2>2. session[j] = NoJob /\ job.status = "queued" /\ job.task = "none"
    BY <1>4 DEF StartFails
  <2>3. jobs' = [jobs EXCEPT ![j] = job] BY <1>4 DEF StartFails
  <2> HIDE DEF job
  <2> QED BY <1>4, <2>1, <2>2, <2>3, JobStep, Untouched DEF StartFails, OutputOf
<1>5. CASE Recheck(j)
  <2> DEFINE job ==
        [jobs[j] EXCEPT !.manager = Verified(@, Whole(OutputOf(j))),
                        !.status  = IF Whole(OutputOf(j)) THEN "complete" ELSE "stopped"]
  <2>1. Whole(OutputOf(j)) \in BOOLEAN BY DEF Whole
  <2>2. JobOK(job, server = "closing", TorrentOf[j] \in torrents, OutputOf(j))
    BY <1>2, <1>5, <2>1, ManagerSteps DEF Recheck, JobOK
  <2> HIDE DEF job
  <2> QED BY <1>5, <2>2, JobStep, Untouched DEF Recheck, Leaves, OutputOf, job
<1>6. CASE Stop(j)
  <2> DEFINE job ==
        [jobs[j] EXCEPT !.manager   = Halted(@),
                        !.status    = "stopping",
                        !.cancelled = @ \/ jobs[j].task \in {"created", "running"},
                        !.stops     = @ + 1]
  <2>1. jobs[j].stops + 1 \in 0..MaxStops /\ jobs[j].stops + 1 > 0
    BY <1>2, <1>6, JobsAssumption DEF Stop
  <2>2. job \in JobState
    BY <1>2, <1>6, <2>1, ManagerSteps DEF Stop
  <2>3. JobOK(job, server = "closing", TorrentOf[j] \in torrents, OutputOf(j))
    BY <1>2, <1>6, <2>1, <2>2, ManagerSteps DEF Stop, JobOK
  <2> HIDE DEF job
  <2> QED BY <1>6, <2>3, JobStep, Untouched DEF Stop, Leaves, OutputOf, job
<1>7. CASE StopDone(j)
  <2> DEFINE job ==
        [jobs[j] EXCEPT !.status = IF jobs[j].manager.completed THEN "complete" ELSE "stopped",
                        !.stops  = @ - 1]
  <2>1. jobs[j].stops - 1 \in 0..MaxStops
    BY <1>2, <1>7, JobsAssumption DEF StopDone
  <2>2. job \in JobState
    BY <1>2, <1>7, <2>1 DEF StopDone
  <2>3. JobOK(job, server = "closing", TorrentOf[j] \in torrents, OutputOf(j))
    BY <1>2, <1>7, <2>2 DEF StopDone, JobOK
  <2> HIDE DEF job
  <2> QED BY <1>7, <2>3, JobStep, Untouched DEF StopDone, Leaves, OutputOf, Known, job
<1> QED BY <1>3, <1>4, <1>5, <1>6, <1>7

-------------------------------------------------------------------------------
(* The task of a job *)

\* download() writes its output whole, or less of it, or nothing.
LEMMA OutputSteps ==
  ASSUME NEW m, NEW d \in Disk, NEW e \in Outputs(m, d)
  PROVE  e \in Disk /\ Intact(d) \subseteq Intact(e) /\ (m.written => Whole(e))
<1>1. CASE m.written BY <1>1, FlushedIsWhole DEF Outputs
<1>2. CASE ~m.written /\ m.completed BY <1>2, InterruptedKeeps DEF Outputs
<1>3. CASE ~m.written /\ ~m.completed BY <1>3 DEF Outputs
<1> QED BY <1>1, <1>2, <1>3

\* One output is replaced by one that is no worse.
LEMMA ImprovedOutput ==
  ASSUME IInv, NEW j \in Jobs, NEW e \in Disk, Intact(OutputOf(j)) \subseteq Intact(e),
         output' = [output EXCEPT ![TorrentOf[j]] = e]
  PROVE  Improved /\ output'[TorrentOf[j]] = e
BY JobsAssumption DEF IInv, TypeOK, Improved, OutputOf

LEMMA ReturnStep == ASSUME IInv, NEW j \in Jobs, Return(j) PROVE IInv'
<1> USE DEF JobState, HasTask, Asked, Active, Terminal
<1>1. jobs[j] \in JobState /\ JobOK(jobs[j], server = "closing", TorrentOf[j] \in torrents, OutputOf(j))
  BY DEF Return, IInv, Fits, TypeOK, Known
<1>2. PICK m \in Returns(jobs[j].manager) :
        /\ Leaves(j, [jobs[j] EXCEPT !.status  = IF m.completed THEN "complete" ELSE "stopped",
                                     !.task    = "done",
                                     !.manager = m])
        /\ \E d \in Outputs(m, OutputOf(j)) : output' = [output EXCEPT ![TorrentOf[j]] = d]
  BY DEF Return
<1>3. PICK d \in Outputs(m, OutputOf(j)) : output' = [output EXCEPT ![TorrentOf[j]] = d]
  BY <1>2
<1>4. OutputOf(j) \in Disk BY JobsAssumption DEF IInv, TypeOK, OutputOf
<1>5. d \in Disk /\ Intact(OutputOf(j)) \subseteq Intact(d) /\ (m.written => Whole(d))
  BY <1>3, <1>4, OutputSteps
<1>6. Improved /\ output'[TorrentOf[j]] = d
  BY <1>3, <1>5, ImprovedOutput
<1>7. m \in Manager
  BY <1>1, ManagerSteps
<1> DEFINE job == [jobs[j] EXCEPT !.status  = IF m.completed THEN "complete" ELSE "stopped",
                                  !.task    = "done",
                                  !.manager = m]
<1>8. JobOK(job, server = "closing", TorrentOf[j] \in torrents, d)
  BY <1>1, <1>5, <1>7 DEF Return, JobOK
<1>9. jobs' = [jobs EXCEPT ![j] = job] /\ Save(jobs')
  BY <1>2 DEF Leaves
<1> HIDE DEF job
<1> QED BY <1>6, <1>8, <1>9, JobStep DEF Return, Known

LEMMA TaskStepKeeps ==
  ASSUME IInv, NEW j \in Jobs, Run(j) \/ Fail(j) \/ Cancelled(j) \/ Progress(j) \/ LastPiece(j)
  PROVE  IInv'
<1> USE DEF JobState, HasTask, Asked, Active, Terminal
<1>1. /\ Known(j) /\ server # "down" /\ jobs[j] # NoJob /\ UNCHANGED <<server, torrents, output, crashes>>
      /\ jobs[j] \in JobState
      /\ JobOK(jobs[j], server = "closing", TorrentOf[j] \in torrents, OutputOf(j))
  BY DEF IInv, Fits, TypeOK, Known, Run, Fail, Cancelled, Progress, LastPiece
<1>2. Improved /\ output'[TorrentOf[j]] = OutputOf(j)
  BY <1>1, Untouched DEF OutputOf
<1>3. CASE Run(j)
  <2> DEFINE job == [jobs[j] EXCEPT !.status = "running", !.task = "running", !.manager = Started]
  <2>1. JobOK(job, server = "closing", TorrentOf[j] \in torrents, OutputOf(j))
    BY <1>1, <1>3, FreshManagers DEF Run, JobOK
  <2> HIDE DEF job
  <2> QED BY <1>1, <1>2, <1>3, <2>1, JobStep DEF Run, Leaves, job
<1>4. CASE Fail(j)
  <2>1. PICK m \in Raises(jobs[j].manager) :
          Leaves(j, [jobs[j] EXCEPT !.status = "error", !.task = "done", !.manager = m])
    BY <1>4 DEF Fail
  <2> DEFINE job == [jobs[j] EXCEPT !.status = "error", !.task = "done", !.manager = m]
  <2>2. JobOK(job, server = "closing", TorrentOf[j] \in torrents, OutputOf(j))
    BY <1>1, <1>4, ManagerSteps DEF Fail, JobOK
  <2> HIDE DEF job
  <2> QED BY <1>1, <1>2, <2>1, <2>2, JobStep DEF Leaves, job
<1>5. CASE Cancelled(j) /\ jobs[j].task = "running"
  <2> DEFINE job == [jobs[j] EXCEPT !.status = "stopped", !.task = "done", !.cancelled = FALSE,
                                    !.manager = Aborted(@)]
  <2>1. JobOK(job, server = "closing", TorrentOf[j] \in torrents, OutputOf(j))
    BY <1>1, <1>5, ManagerSteps DEF JobOK
  <2>2. jobs' = [jobs EXCEPT ![j] = job] /\ Save(jobs')
    BY <1>5 DEF Cancelled, Leaves
  <2> HIDE DEF job
  <2> QED BY <1>1, <1>2, <2>1, <2>2, JobStep
<1>6. CASE Cancelled(j) /\ jobs[j].task = "created"
  <2> DEFINE job == [jobs[j] EXCEPT !.task = "done", !.cancelled = FALSE]
  <2>1. JobOK(job, server = "closing", TorrentOf[j] \in torrents, OutputOf(j))
    BY <1>1, <1>6 DEF Cancelled, JobOK
  <2>2. jobs' = [jobs EXCEPT ![j] = job] /\ UNCHANGED session
    BY <1>1, <1>6 DEF Cancelled, IInv, TypeOK
  <2>3. job.status = jobs[j].status /\ (job.task = "none" <=> jobs[j].task = "none")
    BY <1>1, <1>6
  <2> HIDE DEF job
  <2> QED BY <1>1, <1>2, <2>1, <2>2, <2>3, JobStep
<1>7. CASE Progress(j)
  <2>1. jobs' = [jobs EXCEPT ![j] = jobs[j]] /\ Save(jobs')
    BY <1>7 DEF Progress, IInv, TypeOK
  <2> QED BY <1>1, <1>2, <2>1, JobStep
<1>8. CASE LastPiece(j)
  <2> DEFINE job == [jobs[j] EXCEPT !.manager = Completed(@)]
  <2>1. JobOK(job, server = "closing", TorrentOf[j] \in torrents, OutputOf(j))
    BY <1>1, ManagerSteps DEF JobOK
  <2>2. jobs' = [jobs EXCEPT ![j] = job] /\ Save(jobs)
    BY <1>8 DEF LastPiece
  <2>3. job.status = jobs[j].status /\ job.task = jobs[j].task
    BY <1>1
  <2> HIDE DEF job
  <2> QED BY <1>1, <1>2, <2>1, <2>2, <2>3, JobStep
<1> QED BY <1>3, <1>4, <1>5, <1>6, <1>7, <1>8 DEF Cancelled

-------------------------------------------------------------------------------
(* The process *)

LEMMA CloseJobStep == ASSUME IInv, NEW j \in Jobs, CloseJob(j) PROVE IInv'
<1> USE DEF JobState, HasTask, Asked, Active, Terminal
<1>1. /\ server = "closing" /\ jobs[j] # NoJob
      /\ jobs[j] \in JobState
      /\ JobOK(jobs[j], server = "closing", TorrentOf[j] \in torrents, OutputOf(j))
  BY DEF IInv, Fits, TypeOK, Known, CloseJob
<1>2. Improved /\ output'[TorrentOf[j]] = OutputOf(j)
  BY Untouched DEF OutputOf, CloseJob
<1> DEFINE job == Closes(jobs[j])
<1>3. JobOK(job, server = "closing", TorrentOf[j] \in torrents, OutputOf(j))
  BY <1>1, ManagerSteps DEF JobOK, Closes
<1>4. job.status = jobs[j].status /\ (job.task = "none" <=> jobs[j].task = "none")
  BY <1>1 DEF Closes
<1>5. jobs' = [jobs EXCEPT ![j] = job] /\ UNCHANGED <<server, torrents, session, crashes>>
  BY DEF CloseJob
<1> HIDE DEF job
<1> QED BY <1>1, <1>2, <1>3, <1>4, <1>5, JobStep

\* A process that ends leaves the session file as it is, or saves its jobs in it; the output
\* does not matter, because nothing is known of it any more.
LEMMA EndStep ==
  ASSUME IInv, server' = "down", jobs' = [j \in Jobs |-> NoJob], UNCHANGED torrents,
         server # "down", crashes' \in 0..MaxCrashes, output' \in [Torrents -> Disk],
         UNCHANGED session \/ Save(jobs)
  PROVE  IInv'
<1> USE DEF IInv
<1>1. TypeOK' BY SaveType DEF TypeOK
<1>2. ASSUME NEW j \in Jobs PROVE SessionOK(j)'
  <2>1. CASE UNCHANGED session BY <2>1 DEF SessionOK, Known
  <2>2. CASE Save(jobs)
    BY <2>2, NoJobAssumption DEF SessionOK, Known, Save, Entry, Fits, JobOK
  <2> QED BY <2>1, <2>2
<1> QED BY <1>1, <1>2 DEF Known

LEMMA ProcessEnds ==
  ASSUME IInv, Exit \/ Crash \/ \E j \in Jobs : CrashWriting(j)
  PROVE  IInv'
<1>1. CASE Exit BY <1>1, EndStep DEF Exit, IInv, TypeOK
<1>2. MaxCrashes \in Nat /\ crashes \in 0..MaxCrashes /\ output \in [Torrents -> Disk]
  BY JobsAssumption DEF IInv, TypeOK
<1>3. CASE Crash BY <1>2, <1>3, EndStep DEF Crash
<1>4. ASSUME NEW j \in Jobs, CrashWriting(j) PROVE IInv'
  <2>1. PICK d \in Interrupted(OutputOf(j)) \cup {Flushed(OutputOf(j))} :
          output' = [output EXCEPT ![TorrentOf[j]] = d]
    BY <1>4 DEF CrashWriting
  <2>2. d \in Disk
    BY <1>2, <2>1, InterruptedKeeps, FlushedIsWhole, JobsAssumption DEF OutputOf
  <2>3. output' \in [Torrents -> Disk] BY <1>2, <2>1, <2>2
  <2> QED BY <1>2, <1>4, <2>3, EndStep DEF CrashWriting
<1> QED BY <1>1, <1>3, <1>4

LEMMA RestartStep == ASSUME IInv, Restart PROVE IInv'
<1> USE DEF IInv, Active, Terminal
<1>1. ASSUME NEW j \in Jobs, session[j] # NoJob
      PROVE  /\ Restored(j, session[j]) \in JobState
             /\ Restored(j, session[j]).status = Settled(session[j].status)
             /\ Restored(j, session[j]).task = "none"
             /\ ~Restored(j, session[j]).cancelled
             /\ session[j].status = "complete" => Restored(j, session[j]).manager.completed
  <2>1. session[j] \in Saved BY <1>1 DEF TypeOK
  <2>2. 0 \in 0..MaxStops BY JobsAssumption
  <2>3. Exists(OutputOf(j)) \in BOOLEAN BY DEF Exists
  <2>4. Restored(j, session[j]).manager \in Manager
    BY <2>1, <2>3 DEF Restored, Idle, Manager, Saved
  <2>5. session[j].status = "complete" => session[j].completed
    BY <1>1 DEF SessionOK
  <2> QED BY <2>1, <2>2, <2>4, <2>5 DEF Restored, Settled, JobState, Saved, Idle
<1>2. jobs' \in [Jobs -> JobState \cup {NoJob}]
  BY <1>1 DEF Restart
<1>3. TypeOK' BY <1>2 DEF Restart, TypeOK
<1>4. ASSUME NEW j \in Jobs, jobs'[j] # NoJob
      PROVE  /\ session[j] # NoJob /\ jobs'[j] \in JobState
             /\ jobs'[j].status = Settled(session[j].status)
             /\ jobs'[j].task = "none" /\ ~jobs'[j].cancelled
             /\ jobs'[j].status = "complete" => jobs'[j].manager.completed
  BY <1>1, <1>4 DEF Restart, Settled
<1>5. ASSUME NEW j \in Jobs, Known(j)' PROVE Fits(j)'
  BY <1>4, <1>5 DEF Known, Fits, JobOK, HasTask, Settled
<1>6. ASSUME NEW j \in Jobs PROVE SessionOK(j)'
  <2>1. jobs'[j] # NoJob => Settled(session[j].status) = Settled(jobs'[j].status)
    BY <1>4 DEF Settled
  <2>2. session[j] # NoJob /\ TorrentOf[j] \in torrents => jobs'[j] # NoJob
    BY <1>1, NoJobAssumption DEF Restart
  <2> QED BY <1>4, <2>1, <2>2 DEF Restart, SessionOK, Known
<1> QED BY <1>3, <1>5, <1>6

-------------------------------------------------------------------------------
(* The theorems *)

LEMMA NextKeeps == IInv /\ [Next]_vars => IInv'
<1> SUFFICES ASSUME IInv, [Next]_vars PROVE IInv' OBVIOUS
<1>1. ASSUME NEW j \in Jobs,
             Start(j) \/ StartFails(j) \/ Recheck(j) \/ Stop(j) \/ StopDone(j) \/ TaskStep(j)
               \/ CloseJob(j) \/ CrashWriting(j)
      PROVE  IInv'
  BY <1>1, HandlerStep, ReturnStep, TaskStepKeeps, CloseJobStep, ProcessEnds DEF TaskStep
<1>2. ASSUME NEW t \in Torrents, Upload(t) \/ Delete(t) PROVE IInv'
  BY <1>2, UploadStep, DeleteStep
<1>3. CASE Shutdown
  BY <1>3 DEF Shutdown, IInv, TypeOK, Known, Fits, JobOK, SessionOK, OutputOf, Unstarted
<1>4. CASE Exit \/ Crash \/ Restart
  BY <1>4, ProcessEnds, RestartStep
<1>5. CASE UNCHANGED vars
  BY <1>5 DEF vars, IInv, TypeOK, Known, Fits, JobOK, SessionOK, OutputOf, Unstarted
<1> QED BY <1>1, <1>2, <1>3, <1>4, <1>5 DEF Next

\* Whatever users, disks and crashes do, each job and the session file are as IInv says.
THEOREM Invariant == Spec => []IInv
<1> QED BY InitInvariant, NextKeeps, PTL DEF Spec

\* Every variable has its type; in particular no more stop requests come back than wait.
THEOREM TypesHold == Spec => []TypeOK
<1>1. IInv => TypeOK BY DEF IInv
<1> QED BY <1>1, Invariant, PTL

\* A job is shown or saved as complete only when every piece is verified.
THEOREM NoFalseCompleteHolds == Spec => []NoFalseComplete
<1>1. IInv => NoFalseComplete BY DEF IInv, NoFalseComplete, Fits, JobOK, SessionOK
<1> QED BY <1>1, Invariant, PTL

\* A crash at any moment loses no status of a job that has started.
THEOREM CrashLosesNothingHolds == Spec => []CrashLosesNothing
<1>1. IInv => CrashLosesNothing BY DEF IInv, CrashLosesNothing, SessionOK
<1> QED BY <1>1, Invariant, PTL

\* No started job is active without a task or a stop request that will end that.
THEOREM ActiveHasTaskHolds == Spec => []ActiveHasTask
<1>1. IInv => ActiveHasTask
  BY DEF IInv, ActiveHasTask, Fits, JobOK, HasTask, Asked, Unstarted, Known
<1> QED BY <1>1, Invariant, PTL

\* No download goes on without its torrent.
THEOREM TaskHasTorrentHolds == Spec => []TaskHasTorrent
<1>1. IInv => TaskHasTorrent BY DEF IInv, TaskHasTorrent, Fits, JobOK, HasTask
<1> QED BY <1>1, Invariant, PTL

\* What a job of this process calls written is whole on disk.
THEOREM WrittenIsWholeHolds == Spec => []WrittenIsWhole
<1>1. IInv => WrittenIsWhole BY DEF IInv, WrittenIsWhole, Fits, JobOK
<1> QED BY <1>1, Invariant, PTL

-------------------------------------------------------------------------------
(* What no step does *)

\* No write takes away a piece that a recheck could have resumed from.
THEOREM ResumeNeverShrinksHolds == Spec => ResumeNeverShrinks
<1>1. ASSUME IInv, [Next]_vars, NEW t \in Torrents
      PROVE  Intact(output[t]) \subseteq Intact(output'[t])
  <2>1. CASE UNCHANGED output BY <2>1
  <2>2. ASSUME NEW j \in Jobs, NEW e \in Disk, Intact(OutputOf(j)) \subseteq Intact(e),
               output' = [output EXCEPT ![TorrentOf[j]] = e]
        PROVE  Intact(output[t]) \subseteq Intact(output'[t])
    BY <1>1, <2>2, ImprovedOutput DEF Improved
  <2>3. ASSUME NEW j \in Jobs PROVE OutputOf(j) \in Disk
    BY <1>1, JobsAssumption DEF IInv, TypeOK, OutputOf
  <2>4. ASSUME NEW j \in Jobs, Return(j)
        PROVE  Intact(output[t]) \subseteq Intact(output'[t])
    <3>1. PICK m \in Returns(jobs[j].manager) : \E d \in Outputs(m, OutputOf(j)) :
                 output' = [output EXCEPT ![TorrentOf[j]] = d]
      BY <2>4 DEF Return
    <3> QED BY <2>2, <2>3, <3>1, OutputSteps
  <2>5. ASSUME NEW j \in Jobs, CrashWriting(j)
        PROVE  Intact(output[t]) \subseteq Intact(output'[t])
    <3>1. PICK d \in Interrupted(OutputOf(j)) \cup {Flushed(OutputOf(j))} :
                 output' = [output EXCEPT ![TorrentOf[j]] = d]
      BY <2>5 DEF CrashWriting
    <3> QED BY <2>2, <2>3, <3>1, InterruptedKeeps, FlushedIsWhole
  <2>6. ASSUME NEW j \in Jobs,
               Start(j) \/ StartFails(j) \/ Recheck(j) \/ Stop(j) \/ StopDone(j) \/ Run(j) \/ Fail(j)
                 \/ Cancelled(j) \/ Progress(j) \/ LastPiece(j) \/ CloseJob(j)
        PROVE  UNCHANGED output
    BY <2>6 DEF Start, StartFails, Recheck, Stop, StopDone, Run, Fail, Cancelled, Progress,
                LastPiece, CloseJob
  <2>7. CASE (\E u \in Torrents : Upload(u) \/ Delete(u)) \/ Shutdown \/ Exit \/ Crash \/ Restart
               \/ UNCHANGED vars
    BY <2>1, <2>7 DEF Upload, Delete, Shutdown, Exit, Crash, Restart, vars
  <2> QED BY <1>1, <2>1, <2>4, <2>5, <2>6, <2>7 DEF Next, TaskStep
<1>2. IInv /\ [Next]_vars
        => [\A t \in Torrents : Intact(output[t]) \subseteq Intact(output'[t])]_vars
  BY <1>1
<1> QED BY <1>2, Invariant, PTL DEF Spec, ResumeNeverShrinks

\* What the session file has as complete, a step leaves complete, unless the output of the
\* job or its torrent is gone.
Complete(j) == session[j] # NoJob /\ session[j].status = "complete"

LEMMA SavedComplete ==
  ASSUME IInv, NEW j \in Jobs, Complete(j), server # "down", TorrentOf[j] \in torrents
  PROVE  Known(j) /\ jobs[j].status = "complete" /\ jobs[j].manager.completed /\ ~HasTask(jobs[j])
<1>1. Known(j) BY DEF IInv, SessionOK, Complete, Known
<1>2. Settled(jobs[j].status) = "complete"
  BY <1>1 DEF IInv, SessionOK, Complete, Settled, Active
<1>3. jobs[j].status = "complete" BY <1>2 DEF Settled
<1> QED BY <1>1, <1>3 DEF IInv, Fits, JobOK, Active

\* A job that stays complete is saved as complete, if it is saved.
LEMMA StaysSaved ==
  ASSUME NEW j \in Jobs, Complete(j), NEW js, js[j] # NoJob, js[j] \in JobState,
         js[j].status = "complete", Save(js) \/ UNCHANGED session
  PROVE  Complete(j)'
<1>1. CASE UNCHANGED session BY <1>1 DEF Complete
<1>2. CASE Save(js)
  <2>1. session'[j] = Entry(js[j]) BY <1>2 DEF Save
  <2> QED BY <2>1, NoJobAssumption DEF Complete, Entry, Saved, JobState, Manager
<1> QED BY <1>1, <1>2

Shown(j) == jobs[j] # NoJob /\ jobs[j] \in JobState /\ jobs[j].status = "complete"

\* What one job does leaves a complete one with its output on disk complete.
LEMMA JobStaysComplete ==
  ASSUME IInv, NEW j \in Jobs, Complete(j), Whole(OutputOf(j)), TorrentOf[j] \in torrents,
         NEW i \in Jobs,
         Start(i) \/ StartFails(i) \/ Recheck(i) \/ Stop(i) \/ StopDone(i) \/ TaskStep(i) \/ CloseJob(i)
  PROVE  Complete(j)'
<1>1. server # "down"
  BY DEF Start, StartFails, Recheck, Stop, StopDone, TaskStep, Run, Return, Fail, Cancelled, Progress,
         LastPiece, CloseJob, Known
<1>2. /\ Known(j) /\ jobs[j].status = "complete" /\ jobs[j].manager.completed /\ ~HasTask(jobs[j])
      /\ Shown(j)
  BY <1>1, SavedComplete DEF Known, IInv, Fits, JobOK, Shown
<1>3. ASSUME i # j PROVE Shown(j)'
  <2>1. jobs'[j] = jobs[j]
    BY <1>3 DEF Start, StartFails, Recheck, Stop, StopDone, TaskStep, Run, Return, Fail, Cancelled,
                Progress, LastPiece, CloseJob, Leaves, IInv, TypeOK
  <2> QED BY <1>2, <2>1 DEF Shown
<1>4. ASSUME i = j PROVE Shown(j)'
  <2> USE DEF JobState, Active, Terminal, Shown
  <2>1. CASE Start(i) \/ StartFails(i) \/ Stop(i)
    BY <1>2, <1>4, <2>1 DEF Start, StartFails, Stop
  <2>2. CASE Run(i) \/ Return(i) \/ Fail(i) \/ Cancelled(i)
    BY <1>2, <1>4, <2>2 DEF Run, Return, Fail, Cancelled, HasTask
  <2>3. ASSUME NEW job \in JobState, job.status = "complete", jobs' = [jobs EXCEPT ![j] = job]
        PROVE  Shown(j)'
    <3>1. jobs'[j] = job BY <2>3 DEF IInv, TypeOK
    <3>2. job # NoJob BY NoJobAssumption
    <3> QED BY <2>3, <3>1, <3>2
  <2>4. CASE Recheck(i)
    <3> DEFINE job == [jobs[j] EXCEPT !.manager = Verified(@, Whole(OutputOf(j))),
                                      !.status  = IF Whole(OutputOf(j)) THEN "complete" ELSE "stopped"]
    <3>1. job \in JobState /\ job.status = "complete" BY <1>2, ManagerSteps
    <3>2. jobs' = [jobs EXCEPT ![j] = job] BY <1>4, <2>4 DEF Recheck, Leaves
    <3> HIDE DEF job
    <3> QED BY <2>3, <3>1, <3>2
  <2>5. CASE StopDone(i)
    <3> DEFINE job == [jobs[j] EXCEPT
                         !.status = IF jobs[j].manager.completed THEN "complete" ELSE "stopped",
                         !.stops  = @ - 1]
    <3>1. jobs[j].stops - 1 \in 0..MaxStops
      BY <1>2, <1>4, <2>5, JobsAssumption DEF StopDone
    <3>2. job \in JobState /\ job.status = "complete" BY <1>2, <3>1
    <3>3. jobs' = [jobs EXCEPT ![j] = job] BY <1>4, <2>5 DEF StopDone, Leaves
    <3> HIDE DEF job
    <3> QED BY <2>3, <3>2, <3>3
  <2>6. CASE Progress(i) BY <1>2, <2>6 DEF Progress
  <2>7. CASE LastPiece(i)
    BY <1>2, <1>4, <2>7 DEF LastPiece
  <2>8. CASE CloseJob(i)
    <3> DEFINE job == Closes(jobs[j])
    <3>1. job \in JobState /\ job.status = "complete" BY <1>2, ManagerSteps DEF Closes
    <3>2. jobs' = [jobs EXCEPT ![j] = job] BY <1>4, <2>8 DEF CloseJob
    <3> HIDE DEF job
    <3> QED BY <2>3, <3>1, <3>2
  <2> QED BY <2>1, <2>2, <2>4, <2>5, <2>6, <2>7, <2>8 DEF TaskStep
<1>5. Save(jobs') \/ Save(jobs) \/ UNCHANGED session
  BY DEF Start, StartFails, Recheck, Stop, StopDone, TaskStep, Run, Return, Fail, Cancelled, Progress,
         LastPiece, CloseJob, Leaves
<1>6. Shown(j)' BY <1>3, <1>4
<1>7. Save(jobs') => Complete(j)' BY <1>6, StaysSaved DEF Shown
<1>8. ~Save(jobs') => Complete(j)' BY <1>2, <1>5, StaysSaved DEF Shown
<1> QED BY <1>7, <1>8

\* A job saved as complete whose output is there is complete for good, unless its torrent is
\* deleted.
THEOREM CompleteSurvivesHolds == Spec => CompleteSurvives
<1>1. ASSUME IInv, [Next]_vars, NEW j \in Jobs,
             Complete(j), Whole(OutputOf(j)), TorrentOf[j] \in torrents'
      PROVE  Complete(j)'
  <2>1. TorrentOf[j] \in torrents
    <3>1. ASSUME NEW t \in Torrents, Upload(t) PROVE TorrentOf[j] \in torrents
      BY <1>1, <3>1 DEF Upload, Complete
    <3>2. ASSUME NEW t \in Torrents, Delete(t) PROVE TorrentOf[j] \in torrents
      BY <1>1, <3>2 DEF Delete
    <3>3. CASE UNCHANGED torrents BY <1>1, <3>3
    <3>4. UNCHANGED torrents \/ \E t \in Torrents : Upload(t) \/ Delete(t)
      BY <1>1 DEF Next, TaskStep, Start, StartFails, Recheck, Stop, StopDone, Run, Return, Fail, Cancelled,
                  Progress, LastPiece, CloseJob, CrashWriting, Shutdown, Exit, Crash, Restart, vars
    <3> QED BY <3>1, <3>2, <3>3, <3>4
  <2>2. ASSUME NEW i \in Jobs,
               Start(i) \/ StartFails(i) \/ Recheck(i) \/ Stop(i) \/ StopDone(i) \/ TaskStep(i) \/ CloseJob(i)
        PROVE  Complete(j)'
    BY <1>1, <2>1, <2>2, JobStaysComplete
  <2>3. CASE UNCHANGED session BY <1>1, <2>3 DEF Complete
  <2>4. CASE Exit \/ \E t \in Torrents : Upload(t) \/ Delete(t)
    <3>1. server # "down" /\ Save(jobs) BY <2>4 DEF Exit, Upload, Delete
    <3>2. jobs[j] # NoJob /\ jobs[j] \in JobState /\ jobs[j].status = "complete"
      BY <1>1, <2>1, <3>1, SavedComplete DEF Known, IInv, TypeOK
    <3> QED BY <1>1, <3>1, <3>2, StaysSaved
  <2>5. CASE Shutdown \/ Crash \/ Restart \/ (\E i \in Jobs : CrashWriting(i)) \/ UNCHANGED vars
    BY <2>3, <2>5 DEF Shutdown, Crash, Restart, CrashWriting, vars
  <2> QED BY <1>1, <2>2, <2>4, <2>5 DEF Next
<1>2. IInv /\ [Next]_vars =>
        [\A j \in Jobs :
           session[j] # NoJob /\ session[j].status = "complete" /\ Whole(OutputOf(j)) /\ TorrentOf[j] \in torrents'
             => session'[j] # NoJob /\ session'[j].status = "complete"]_vars
  BY <1>1 DEF Complete
<1> QED BY <1>2, Invariant, PTL DEF Spec, CompleteSurvives
===============================================================================
