----------------------------- MODULE WorkerApp -----------------------------
(***************************************************************************)
(* One conversion job over any number of launches of the worker process    *)
(* (run_worker_app): a new job, --resume or --overwrite, the deletion of a *)
(* previous output, the job row, the PST session, the import pipeline, the *)
(* validation of the finished PST and the exit code.                       *)
(*                                                                         *)
(* The job lives in two files, the PST and its state database, that are    *)
(* created and deleted one after the other, so a launch may find any       *)
(* combination of them.  Variables of ImportPipeline keep their meaning;   *)
(* its actions run while phase = "pipeline".                               *)
(***************************************************************************)
EXTENDS ImportPipeline

CONSTANTS
  MaxLaunches,  \* bound: launches of the worker
  AppFaults     \* what may go wrong outside the pipeline, see AppFaultKind

AppFaultKind ==
  { "checks",      \* scan, preflight, MAPI preflight or folder plan refuses
    "delete",      \* an existing PST cannot be deleted
    "remove",      \* the state database cannot be deleted (error ignored)
    "foreign",     \* somebody puts a PST of theirs at the free output path
    "create",      \* create_new fails: nothing is committed
    "session",     \* create_session("convert") fails
    "jobstatus",   \* set_job_status fails (its Status is discarded)
    "validation" } \* the validation session or one of its reads fails

ASSUME MaxLaunchesAssumption == MaxLaunches \in Nat \ {0}
ASSUME AppFaultsAssumption   == AppFaults \subseteq AppFaultKind
ASSUME EveryLaunchMayRun     == MaxLaunches <= MaxRuns

Mode == {"new", "resume", "overwrite"}

\* "running": no exit code yet.  "environment" stands for the codes of the
\* checks before the job is set up (10, 11, 13, 14, 16, 17, 23).
ExitCode ==
  {"running", "kSuccess", "kSuccessWithFallbacks", "kSuccessWithReadFailures",
   "kOutputExists", "environment", "kOutputWriteFailure", "kValidationFailed",
   "kStateDbIncompatible", "kResumeIntegrityError", "kCancelled"}

SuccessCode == {"kSuccess", "kSuccessWithFallbacks", "kSuccessWithReadFailures"}

VARIABLES
  launches,  \* launches so far
  mode,      \* options of this launch
  phase,     \* where run_worker_app is
  pstFile,   \* the file at the output path: "none", the "tool"'s or "foreign"
  job,       \* status of the job row; "none": no state database, or none in it
  exitCode   \* of the last launch

appVars == <<launches, mode, phase, pstFile, job, exitCode>>
allVars == <<vars, appVars>>

Phase == {"off", "overwrite", "removeDb", "checks", "setup", "session",
          "pipeline", "validation", "exited"}

AppInit ==
  /\ Init
  /\ launches = 0 /\ mode = "new" /\ phase = "off"
  /\ pstFile = "none" /\ job = "none" /\ exitCode = "running"

-----------------------------------------------------------------------------
(* Helpers *)

\* set_job_status; the Status is discarded.
SetJobStatus(s) ==
  \/ job' = s
  \/ "jobstatus" \in AppFaults /\ UNCHANGED job

Exit(c) == phase' = "exited" /\ exitCode' = c

\* return fail(...) before there is a job to mark.
Refuse(c) == Exit(c) /\ UNCHANGED <<vars, launches, mode, pstFile, job>>

Quiet == phase \in {"off", "exited"}

PstExists == pstFile # "none"

\* CreateMsgService with a path that has no file creates the PST.
OpenOrCreatePst == pstFile' = IF PstExists THEN pstFile ELSE "tool"

-----------------------------------------------------------------------------
(* Launches *)

Launch(m) ==
  /\ Quiet /\ launches < MaxLaunches
  /\ launches' = launches + 1 /\ mode' = m
  /\ phase' = "overwrite" /\ exitCode' = "running"
  /\ UNCHANGED <<vars, pstFile, job>>

\* The process dies, in the pipeline or outside it.
Die ==
  /\ "crash" \in Faults /\ ~Quiet
  /\ IF pc \in {"off", "exit"} THEN UNCHANGED vars ELSE Crash
  /\ phase' = "off"
  /\ UNCHANGED <<launches, mode, pstFile, job, exitCode>>

\* Outside the program: a file that is not the tool's appears.
PutForeignPst ==
  /\ "foreign" \in AppFaults /\ Quiet /\ ~PstExists
  /\ pstFile' = "foreign"
  /\ UNCHANGED <<vars, launches, mode, phase, job, exitCode>>

-----------------------------------------------------------------------------
(* --overwrite *)

OverwritePst == mode = "overwrite" /\ PstExists

NothingToOverwrite ==
  /\ phase = "overwrite" /\ ~OverwritePst
  /\ phase' = "checks"
  /\ UNCHANGED <<vars, launches, mode, pstFile, job, exitCode>>

\* No job row proves that the PST is the tool's own, or the PST is in use.
OverwriteRefused ==
  /\ phase = "overwrite" /\ OverwritePst
  /\ job = "none" \/ "delete" \in AppFaults
  /\ Refuse("kOutputExists")

\* std::filesystem::remove of the PST, the first of the files.
DeletePst ==
  /\ phase = "overwrite" /\ OverwritePst /\ job # "none"
  /\ pstFile' = "none" /\ pst' = {}
  /\ phase' = "removeDb"
  /\ UNCHANGED <<nextId, rows, folderMap, viewVars, rowVars, cacheVars, loopVars,
                 processVars, pc, cancelled, launches, mode, job, exitCode>>

\* Then the state database; its error is not looked at.
RemoveStateDb ==
  /\ phase = "removeDb"
  /\ \/ job' = "none"
     \/ "remove" \in AppFaults /\ UNCHANGED job
  /\ phase' = "checks"
  /\ UNCHANGED <<vars, launches, mode, pstFile, exitCode>>

-----------------------------------------------------------------------------
(* Checks and job setup *)

ChecksFail ==
  /\ phase = "checks"
  /\ \/ mode = "new" /\ PstExists /\ Refuse("kOutputExists")
     \/ "checks" \in AppFaults /\ Refuse("environment")

ChecksPass ==
  /\ phase = "checks" /\ (mode = "new" => ~PstExists)
  /\ phase' = "setup"
  /\ UNCHANGED <<vars, launches, mode, pstFile, job, exitCode>>

\* A file is missing, or check_resume_compatible finds a difference.
ResumeRefused ==
  /\ phase = "setup" /\ mode = "resume"
  /\ ~PstExists \/ job = "none" \/ "checks" \in AppFaults
  /\ Refuse("kStateDbIncompatible")

ResumeAccepted ==
  /\ phase = "setup" /\ mode = "resume" /\ PstExists /\ job # "none"
  /\ phase' = "session"
  /\ UNCHANGED <<vars, launches, mode, pstFile, job, exitCode>>

\* create_new: the job row and one PENDING row per file in one transaction.
CreateJob ==
  /\ phase = "setup" /\ mode # "resume" /\ job = "none"
  /\ job' = "RUNNING"
  /\ rows' = [r \in Row |-> [status |-> "PENDING", entry |-> 0]]
  /\ folderMap' = {} /\ txRows' = rows' /\ txFolderMap' = {}
  /\ phase' = "session"
  /\ UNCHANGED <<pst, nextId, tx, rowVars, cacheVars, loopVars, processVars, pc,
                 cancelled, launches, mode, pstFile, exitCode>>

\* A job row is there already (its primary key is 1), or SQLite fails.
CreateJobFails ==
  /\ phase = "setup" /\ mode # "resume"
  /\ job # "none" \/ "create" \in AppFaults
  /\ Refuse("kStateDbIncompatible")

-----------------------------------------------------------------------------
(* The conversion session and the pipeline *)

SessionOpens ==
  /\ phase = "session"
  /\ OpenOrCreatePst
  /\ SetJobStatus("RUNNING")
  /\ StartRun(mode = "resume")
  /\ phase' = "pipeline"
  /\ UNCHANGED <<launches, mode, exitCode>>

\* create_session fails before or after the PST file came into being.
SessionFails ==
  /\ phase = "session" /\ "session" \in AppFaults
  /\ UNCHANGED pstFile \/ OpenOrCreatePst
  /\ SetJobStatus("FAILED")
  /\ Exit("environment")
  /\ UNCHANGED <<vars, launches, mode>>

Pipeline ==
  /\ phase = "pipeline"
  /\ PipelineStep
  /\ UNCHANGED appVars

Interrupt == phase = "pipeline" /\ RequestCancel /\ UNCHANGED appVars

PipelineFailed ==
  /\ phase = "pipeline" /\ pc = "exit"
  /\ \/ outcome = "databaseFailure" /\ Exit("kStateDbIncompatible")
     \/ outcome \in {"kResumeIntegrityError", "kOutputWriteFailure"} /\ Exit(outcome)
  /\ SetJobStatus("FAILED")
  /\ UNCHANGED <<vars, launches, mode, pstFile>>

PipelineCancelled ==
  /\ phase = "pipeline" /\ pc = "exit" /\ outcome = "cancelled"
  /\ SetJobStatus("CANCELLED") /\ Exit("kCancelled")
  /\ UNCHANGED <<vars, launches, mode, pstFile>>

\* Mutant of PipelineCompleted: a cancelled pipeline is validated as well.
PipelineStopped ==
  /\ phase = "pipeline" /\ pc = "exit" /\ outcome \in {"completed", "cancelled"}
  /\ phase' = "validation"
  /\ UNCHANGED <<vars, launches, mode, pstFile, job, exitCode>>

PipelineCompleted ==
  /\ phase = "pipeline" /\ pc = "exit" /\ outcome = "completed"
  /\ phase' = "validation"
  /\ UNCHANGED <<vars, launches, mode, pstFile, job, exitCode>>

-----------------------------------------------------------------------------
(* validate_pst and the exit code *)

With(s) == {r \in Row : rows[r].status = s}

InFolder(f) == {m \in pst : FolderOf(m) = f}

\* Expected folders: those of imported rows and the materialized ones of
\* folder_map (each was ensured by some session, so none is missing).
Expected == {Target[r] : r \in With("IMPORTED")} \cup folderMap

ImportedIn(f) == {r \in With("IMPORTED") : Target[r] = f}

\* The tracked messages of folder f that name row r.
Tracked(r, f) == {m \in InFolder(f) : m.row = r}

\* Mutant of CountsAgree: surplus messages are not noticed.
CountsAgreeAbove ==
  \A f \in Expected : Cardinality(InFolder(f)) >= Cardinality(ImportedIn(f))

CountsAgree ==
  /\ \A f \in Expected : Cardinality(InFolder(f)) = Cardinality(ImportedIn(f))
  /\ With("PRESERVED_AS_ATTACHMENT") # {} =>
       Cardinality(InFolder(ErrorsFolder)) =
         Cardinality(With("PRESERVED_AS_ATTACHMENT"))

RowsFound ==
  /\ \A r \in With("IMPORTED") : Cardinality(Tracked(r, Target[r])) = 1
  /\ \A r \in With("PRESERVED_AS_ATTACHMENT") :
       Cardinality(Tracked(r, ErrorsFolder)) = 1

Validated == CountsAgree /\ RowsFound

\* Mutant of SuccessExitCode: read failures are reported as fallbacks.
SuccessExitCodeSwapped ==
  CASE With("FAILED_MAPI") # {} -> "kOutputWriteFailure"
    [] With("FAILED_MAPI") = {} /\ With("PRESERVED_AS_ATTACHMENT") # {} ->
         "kSuccessWithFallbacks"
    [] OTHER -> "kSuccess"

\* From the counters of count_by_status, taken over all rows of the job.
SuccessExitCode ==
  CASE With("FAILED_MAPI") # {} -> "kOutputWriteFailure"
    [] With("FAILED_MAPI") = {} /\ With("FAILED_SOURCE_READ") # {} ->
         "kSuccessWithReadFailures"
    [] With("FAILED_MAPI") = {} /\ With("FAILED_SOURCE_READ") = {}
         /\ With("PRESERVED_AS_ATTACHMENT") # {} -> "kSuccessWithFallbacks"
    [] OTHER -> "kSuccess"

ValidationSucceeds ==
  /\ phase = "validation" /\ Validated
  /\ SetJobStatus("COMPLETED") /\ Exit(SuccessExitCode)
  /\ UNCHANGED <<vars, launches, mode, pstFile>>

ValidationFails ==
  /\ phase = "validation"
  /\ ~Validated \/ "validation" \in AppFaults
  /\ SetJobStatus("FAILED") /\ Exit("kValidationFailed")
  /\ UNCHANGED <<vars, launches, mode, pstFile>>

-----------------------------------------------------------------------------
WorkerStep ==
  \/ NothingToOverwrite \/ OverwriteRefused \/ DeletePst \/ RemoveStateDb
  \/ ChecksFail \/ ChecksPass
  \/ ResumeRefused \/ ResumeAccepted \/ CreateJob \/ CreateJobFails
  \/ SessionOpens \/ SessionFails
  \/ Pipeline \/ PipelineFailed \/ PipelineCancelled \/ PipelineCompleted
  \/ ValidationSucceeds \/ ValidationFails

\* Nothing runs and the bound on launches is reached.
AllDone == Quiet /\ launches = MaxLaunches /\ UNCHANGED allVars

AppNext ==
  \/ WorkerStep
  \/ \E m \in Mode : Launch(m)
  \/ Die \/ Interrupt \/ PutForeignPst \/ AllDone

AppSpec == AppInit /\ [][AppNext]_allVars

\* The worker is one thread and every call it makes returns; launching it,
\* killing it and pressing Ctrl+C are nobody's duty.
AppFairSpec == AppSpec /\ WF_allVars(WorkerStep)
-----------------------------------------------------------------------------
(* Properties *)

AppTypeOK ==
  /\ TypeOK
  /\ launches \in 0..MaxLaunches /\ mode \in Mode /\ phase \in Phase
  /\ pstFile \in {"none", "tool", "foreign"} /\ exitCode \in ExitCode
  /\ job \in {"none", "RUNNING", "COMPLETED", "FAILED", "CANCELLED"}

\* A successful exit code vouches for the mail: in every folder the job knows,
\* each message is the recorded import of a file, two messages never stem from
\* one file, and the code is no better than the worst row.  Leftovers of
\* crashes, failed deletions and unreadable entry ids do not get past the
\* validation.
SuccessIsEarned ==
  phase = "exited" /\ exitCode \in SuccessCode =>
    /\ \A m \in pst : Converted(m) /\ FolderOf(m) \in Expected =>
         /\ rows[m.row] = [status |-> "IMPORTED", entry |-> m.id]
         /\ \A n \in pst : n.row = m.row /\ Converted(n) => n = m
    /\ With("FAILED_MAPI") = {}
    /\ exitCode # "kSuccessWithReadFailures" => With("FAILED_SOURCE_READ") = {}
    /\ exitCode = "kSuccess" => With("PRESERVED_AS_ATTACHMENT") = {}

\* The job row says COMPLETED only while the rows and the PST next to it are
\* settled and agree, and stays true whatever is launched afterwards.
CompletedJobHolds ==
  job = "COMPLETED" /\ pstFile = "tool" /\ "dbwrite" \notin Faults =>
    PendingRows = {} /\ Validated

\* After Ctrl+C there is work left for --resume, and a first run leaves no
\* message behind that its rows do not account for: the current message is
\* finished and its batch is committed.
CancelIsClean ==
  phase = "exited" /\ exitCode = "kCancelled" /\ "dbwrite" \notin Faults =>
    /\ PstExists /\ job # "none" /\ PendingRows # {}
    /\ ~resumeMode => \A m \in pst : rows[m.row].status # "PENDING"

\* Every launch comes to an end.
EveryLaunchEnds == (phase = "overwrite") ~> Quiet
=============================================================================
