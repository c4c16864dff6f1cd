--------------------------- MODULE WorkerAppProofs ---------------------------
(***************************************************************************)
(* Theorems about WorkerApp, for any number of files, folders and launches *)
(* in any of the three modes and under every set of faults.                *)
(*                                                                         *)
(* The layers of ImportPipelineProofs are reused.  RecordedIsSaved is not  *)
(* among them: --overwrite may delete the PST and leave the database, and  *)
(* a PST that appears at its place is taken for the job's by --resume.     *)
(* What holds instead is that the claims of a row are either backed or     *)
(* the PST has nothing at all of the row (Lost).                           *)
(***************************************************************************)
EXTENDS WorkerApp, ImportPipelineProofs, FiniteSetTheorems

-----------------------------------------------------------------------------
(* Under the launches: the process and its two stores *)

Base == LoopInv /\ MessageInv /\ RowInv /\ SaveInv

\* A process that is gone remembers no message.
Forgotten == pc \in {"off", "exit"} => resumeIndex = {}

\* Rows with a result of which the PST holds nothing.
Lost == {r \in Row : rows[r].status # "PENDING" /\ \A m \in pst : m.row # r}

StoresInv == Base /\ Forgotten /\ RecordedExcept(Lost)

\* The pipeline runs in its phase only.
PhaseInv == phase # "pipeline" => pc \in {"off", "exit"}

\* A step outside the pipeline touches its variables in three places only.
LEMMA StepKinds ==
  ASSUME [AppNext]_allVars
  PROVE  [Next]_vars \/ DeletePst \/ CreateJob \/ SessionOpens
<1>1. CASE WorkerStep
  <2>1. CASE Pipeline
    BY <2>1 DEF Pipeline, Next
  <2>2. CASE ~Pipeline /\ ~DeletePst /\ ~CreateJob /\ ~SessionOpens
    BY <1>1, <2>2
    DEF WorkerStep, NothingToOverwrite, OverwriteRefused, RemoveStateDb, ChecksFail,
        ChecksPass, ResumeRefused, ResumeAccepted, CreateJobFails, SessionFails,
        PipelineFailed, PipelineCancelled, PipelineCompleted, ValidationSucceeds,
        ValidationFails, Refuse
  <2> QED
    BY <2>1, <2>2
<1>2. CASE \E m \in Mode : Launch(m)
  BY <1>2 DEF Launch
<1>3. CASE Die
  BY <1>3 DEF Die, Next
<1>4. CASE Interrupt
  BY <1>4 DEF Interrupt, Next
<1>5. CASE PutForeignPst
  BY <1>5 DEF PutForeignPst
<1>6. CASE UNCHANGED allVars
  BY <1>6 DEF allVars
<1> QED
  BY <1>1, <1>2, <1>3, <1>4, <1>5, <1>6 DEF AppNext, AllDone

\* A process that ends forgets what it read.
LEMMA ForgetStep == ASSUME Forgotten, [Next]_vars PROVE Forgotten'
<1> USE DEF Forgotten
<1>1. CASE pc' \notin {"off", "exit"}
  BY <1>1
<1>2. CASE BeginFails \/ CommitFails
  BY <1>2 DEF BeginFails, CommitFails, DatabaseFails, FreshRun
<1>3. CASE FinalCommit
  BY <1>3 DEF FinalCommit, FreshRun
<1>4. CASE CountFails
  BY <1>4 DEF CountFails, FreshRun
<1>5. CASE Crash
  BY <1>5 DEF Crash, FreshRun
<1>6. CASE UNCHANGED vars
  BY <1>6 DEF vars, cacheVars
<1>7. CASE \/ \E r \in Row : BeginRow(r)
           \/ HonourCancel \/ LoopEnds
           \/ AdoptOne \/ AdoptNone \/ AdoptMany \/ AdoptUnreadable
  <2>1. pc' \notin {"off", "exit"}
    BY <1>7 DEF BeginRow, HonourCancel, LoopEnds, AdoptOne, AdoptNone, AdoptMany,
                AdoptUnreadable, LeaveLoop
  <2> QED
    BY <2>1
<1>8. CASE SourceUnreadable \/ SourceRead \/ ConvertFails \/ SaveChanges
           \/ EntryIdFails \/ IntegrityRejects \/ ImportSucceeds \/ StreamFailed
  <2>1. pc' \notin {"off", "exit"}
    BY <1>8 DEF SourceUnreadable, RecordReadFailure, SourceRead, ConvertFails,
                SaveChanges, EntryIdFails, IntegrityRejects, ImportSucceeds,
                StreamFailed, FailAttempt, LeaveLoop
  <2> QED
    BY <2>1
<1>9. CASE BreakerTrips \/ ConversionFailed \/ FallbackSaves \/ FallbackSucceeds
           \/ FallbackFails \/ BatchGoesOn \/ BatchFull \/ StartRun(run > 0)
  <2>1. pc' \notin {"off", "exit"}
    BY <1>9 DEF BreakerTrips, ConversionFailed, FallbackSaves, FallbackSucceeds,
                FallbackFails, BatchGoesOn, BatchFull, StartRun, LeaveLoop
  <2> QED
    BY <2>1
<1>10. CASE RequestCancel
  BY <1>10 DEF RequestCancel, cacheVars
<1> QED
  BY <1>2, <1>3, <1>4, <1>5, <1>6, <1>7, <1>8, <1>9, <1>10
  DEF Next, PipelineStep, Stopped

\* What the PST has nothing of stays so, as the row is not worked on again.
LEMMA ClaimStep ==
  ASSUME Base, RecordedExcept(Lost), [Next]_vars PROVE RecordedExcept(Lost)'
<1>1. PICK D \in SUBSET Row : D = Lost
  BY DEF Lost
<1>2. RecordedExcept(D)'
  BY <1>1, BackedStep DEF Base
<1>3. ASSUME NEW r \in D PROVE r \in Lost'
  <2>1. r \in Row /\ rows[r].status # "PENDING" /\ \A m \in pst : m.row # r
    BY <1>1, <1>3 DEF Lost
  <2>2. rows'[r] = rows[r]
    BY <2>1, StoreStep DEF StoreMove, Base, RowInv
  <2>3. InRow => row # r
    BY <2>1 DEF Base, RowInv
  <2>4. \A m \in pst' : m.row # r
    BY <2>1, <2>3, StoreStep DEF StoreMove, SaveMessage
  <2> QED
    BY <2>1, <2>2, <2>4 DEF Lost
<1> QED
  BY <1>2, <1>3 DEF RecordedExcept

\* A launch starts the pipeline on the rows and messages as they are.
LEMMA StartKeeps ==
  ASSUME StoresInv, NEW b \in BOOLEAN, StartRun(b) PROVE StoresInv'
<1> USE DEF StartRun, FreshRun, FreshRow, durableVars, viewVars
<1>1. LoopInv'
  <2>1. cancelled' \in BOOLEAN
    BY Zenon DEF StartRun
  <2> QED
    BY <2>1, ConstantsOK
    DEF StoresInv, Base, LoopInv, TypeLoop, RowAtWork, BreakerBelow, InRow, Assumptions,
        Row, Location, ErrorClass, Outcome, PendingRows
<1>2. MessageInv' /\ SaveInv'
  BY DEF StoresInv, Base, MessageInv, TypeMessages, SaveInv
<1>3. RowInv'
  BY DEF StoresInv, Base, RowInv, TypeRows, PendingRows, InRow
<1>4. Forgotten'
  BY DEF Forgotten
<1>5. RecordedExcept(Lost)'
  BY DEF StoresInv, RecordedExcept, Lost, Backed
<1> QED
  BY <1>1, <1>2, <1>3, <1>4, <1>5 DEF StoresInv, Base

\* With the PST all messages go, and every claim of a row with them.
LEMMA DeleteKeeps ==
  ASSUME StoresInv, PhaseInv, DeletePst PROVE StoresInv'
<1> USE DEF DeletePst, viewVars, rowVars, cacheVars, loopVars, processVars
<1>1. pc \in {"off", "exit"} /\ pc' = pc /\ resumeIndex' = {}
  BY DEF PhaseInv, StoresInv, Forgotten
<1>2. LoopInv'
  BY DEF StoresInv, Base, LoopInv, TypeLoop, RowAtWork, BreakerBelow, InRow
<1>3. MessageInv' /\ SaveInv'
  BY <1>1 DEF StoresInv, Base, MessageInv, TypeMessages, SaveInv
<1>4. RowInv'
  BY DEF StoresInv, Base, RowInv, TypeRows, InRow
<1>5. RecordedExcept(Lost)'
  BY <1>1 DEF StoresInv, Base, RowInv, RecordedExcept, Lost, Backed
<1> QED
  BY <1>1, <1>2, <1>3, <1>4, <1>5 DEF StoresInv, Base, Forgotten

\* The rows of a new job claim nothing.
LEMMA CreateKeeps ==
  ASSUME StoresInv, PhaseInv, CreateJob PROVE StoresInv'
<1> USE DEF CreateJob, rowVars, cacheVars, loopVars, processVars
<1>1. pc \in {"off", "exit"} /\ pc' = pc
  BY DEF PhaseInv
<1>2. LoopInv'
  BY DEF StoresInv, Base, LoopInv, TypeLoop, RowAtWork, BreakerBelow, InRow
<1>3. MessageInv' /\ SaveInv' /\ Forgotten'
  BY <1>1 DEF StoresInv, Base, MessageInv, TypeMessages, SaveInv, Forgotten
<1>4. RowInv'
  BY <1>1 DEF StoresInv, Base, LoopInv, TypeLoop, RowInv, TypeRows, InRow, FileRow, Status
<1>5. RecordedExcept(Lost)'
  BY DEF RecordedExcept, Backed
<1> QED
  BY <1>2, <1>3, <1>4, <1>5 DEF StoresInv, Base

\* No launch disturbs the two stores.
LEMMA StoresStep ==
  ASSUME StoresInv, PhaseInv, [AppNext]_allVars PROVE StoresInv'
<1>1. CASE [Next]_vars
  BY <1>1, LoopStep, MessageStep, RowStep, SaveStep, ForgetStep, ClaimStep
  DEF StoresInv, Base
<1>2. CASE SessionOpens
  <2>1. StartRun(mode = "resume") /\ (mode = "resume") \in BOOLEAN
    BY <1>2 DEF SessionOpens
  <2> QED
    BY <2>1, StartKeeps
<1> QED
  BY <1>1, <1>2, StepKinds, DeleteKeeps, CreateKeeps

-----------------------------------------------------------------------------
(* The launch and its two files *)

TypeApp ==
  /\ launches \in 0..MaxLaunches /\ mode \in Mode /\ phase \in Phase
  /\ pstFile \in {"none", "tool", "foreign"} /\ exitCode \in ExitCode
  /\ job \in {"none", "RUNNING", "COMPLETED", "FAILED", "CANCELLED"}

\* What each phase has found out about the two files.
FilesInv ==
  /\ ~PstExists => pst = {}
  /\ phase = "removeDb" => ~PstExists
  /\ phase \in {"checks", "setup", "session"} /\ mode = "overwrite" => ~PstExists
  /\ phase \in {"setup", "session"} /\ mode = "new" => ~PstExists
  /\ phase = "session" =>
       IF mode = "resume" THEN PstExists /\ job # "none" ELSE job = "RUNNING"
  /\ phase \in {"pipeline", "validation"} => PstExists /\ job # "none"

LaunchInv == TypeApp /\ FilesInv /\ PhaseInv

\* Every step keeps the types of the launch and what it knows of the files.
LEMMA LaunchStep == ASSUME LaunchInv, [AppNext]_allVars PROVE LaunchInv'
<1> USE DEF LaunchInv, TypeApp, FilesInv, PhaseInv, PstExists, Phase, Mode, ExitCode,
            appVars, Exit, SetJobStatus, Quiet, OpenOrCreatePst
<1>1. CASE NothingToOverwrite
  BY <1>1 DEF NothingToOverwrite, OverwritePst, vars, durableVars
<1>2. CASE OverwriteRefused
  BY <1>2 DEF OverwriteRefused, Refuse, vars, durableVars
<1>3. CASE DeletePst
  BY <1>3 DEF DeletePst
<1>4. CASE RemoveStateDb
  BY <1>4 DEF RemoveStateDb, vars, durableVars
<1>5. CASE ChecksFail
  BY <1>5 DEF ChecksFail, Refuse, vars, durableVars
<1>6. CASE ChecksPass
  BY <1>6 DEF ChecksPass, vars, durableVars
<1>7. CASE ResumeRefused
  BY <1>7 DEF ResumeRefused, Refuse, vars, durableVars
<1>8. CASE ResumeAccepted
  BY <1>8 DEF ResumeAccepted, vars, durableVars
<1>9. CASE CreateJob
  BY <1>9 DEF CreateJob
<1>10. CASE CreateJobFails
  BY <1>10 DEF CreateJobFails, Refuse, vars, durableVars
<1>11. CASE SessionOpens
  BY <1>11 DEF SessionOpens, StartRun, durableVars
<1>12. CASE SessionFails
  BY <1>12 DEF SessionFails, vars, durableVars
<1>13. CASE Pipeline
  BY <1>13 DEF Pipeline
<1>14. CASE PipelineFailed
  BY <1>14 DEF PipelineFailed, vars, durableVars
<1>15. CASE PipelineCancelled
  BY <1>15 DEF PipelineCancelled, vars, durableVars
<1>16. CASE PipelineCompleted
  BY <1>16 DEF PipelineCompleted, vars, durableVars
<1>17. CASE ValidationSucceeds
  <2>1. SuccessExitCode \in ExitCode
    BY DEF SuccessExitCode
  <2> QED
    BY <1>17, <2>1 DEF ValidationSucceeds, vars, durableVars
<1>18. CASE ValidationFails
  BY <1>18 DEF ValidationFails, vars, durableVars
<1>19. ASSUME NEW m \in Mode, Launch(m) PROVE LaunchInv'
  BY <1>19, MaxLaunchesAssumption DEF Launch, vars, durableVars
<1>20. CASE Die
  <2>1. pst' = pst /\ pc' \in {"off", "exit"}
    BY <1>20 DEF Die, Crash, vars, durableVars
  <2> QED
    BY <1>20, <2>1 DEF Die
<1>21. CASE Interrupt
  BY <1>21 DEF Interrupt, RequestCancel, durableVars
<1>22. CASE PutForeignPst
  BY <1>22 DEF PutForeignPst, vars, durableVars
<1>23. CASE UNCHANGED allVars
  BY <1>23 DEF allVars, vars, durableVars
<1> QED
  BY <1>1, <1>2, <1>3, <1>4, <1>5, <1>6, <1>7, <1>8, <1>9, <1>10, <1>11,
     <1>12, <1>13, <1>14, <1>15, <1>16, <1>17, <1>18, <1>19, <1>20, <1>21,
     <1>22, <1>23
  DEF AppNext, WorkerStep, AllDone

AppInv == StoresInv /\ LaunchInv

LEMMA AppStart == AppInit => AppInv
<1> SUFFICES ASSUME AppInit PROVE AppInv
  OBVIOUS
<1>1. IInv
  BY InitIInv DEF AppInit
<1>2. Forgotten /\ RecordedExcept(Lost)
  BY <1>1 DEF AppInit, Init, Forgotten, RecordedExcept, IInv, RecordedIsSaved
<1>3. LaunchInv
  BY MaxLaunchesAssumption
  DEF AppInit, Init, LaunchInv, TypeApp, FilesInv, PhaseInv, PstExists, Mode, Phase,
      ExitCode
<1> QED
  BY <1>1, <1>2, <1>3 DEF AppInv, StoresInv, Base, IInv

\* What the launches rest on holds in every state.
LEMMA AppInvariance == AppSpec => []AppInv
<1>1. AppInv /\ [AppNext]_allVars => AppInv'
  BY StoresStep, LaunchStep DEF AppInv, LaunchInv
<1> QED
  BY <1>1, AppStart, PTL DEF AppSpec

\* Every variable of the worker keeps its type, in any sequence of launches.
THEOREM AppTyped == AppSpec => []AppTypeOK
<1>1. AppInv => AppTypeOK
  BY DEF AppInv, StoresInv, Base, LoopInv, MessageInv, RowInv, LaunchInv, TypeApp,
         TypeOK, AppTypeOK
<1> QED
  BY <1>1, AppInvariance, PTL

-----------------------------------------------------------------------------
(* What validation finds out *)

Finite == IsFiniteSet(pst)

\* The PST only ever holds finitely many messages, so that they can be counted.
LEMMA FinitePst == AppSpec => []Finite
<1>1. AppInit => Finite
  BY FS_EmptySet DEF Finite, AppInit, Init
<1>2. Finite /\ [AppNext]_allVars => Finite'
  <2> SUFFICES ASSUME Finite, [AppNext]_allVars PROVE IsFiniteSet(pst')
    BY DEF Finite
  <2> USE DEF Finite
  <2>1. CASE [Next]_vars
    <3>1. CASE pst' = pst
      BY <3>1
    <3>2. CASE \E k \in Kind : SaveMessage(k)
      BY <3>2, FS_AddElement DEF SaveMessage
    <3>3. CASE pst' = {m \in pst : m.id # saved}
      BY <3>3, FS_Subset
    <3> QED
      BY <2>1, <3>1, <3>2, <3>3, StoreStep DEF StoreMove
  <2>2. CASE DeletePst
    BY <2>2, FS_EmptySet DEF DeletePst
  <2>3. CASE CreateJob \/ SessionOpens
    BY <2>3 DEF CreateJob, SessionOpens, StartRun, durableVars
  <2> QED
    BY <2>1, <2>2, <2>3, StepKinds
<1> QED
  BY <1>1, <1>2, PTL DEF AppSpec

\* If every row imported into folder f has just one message there, and there are
\* as many messages as rows, every message is the one of such a row.
LEMMA CountDecides ==
  ASSUME NEW f, IsFiniteSet(pst),
         \A r \in ImportedIn(f) : Cardinality(Tracked(r, f)) = 1,
         Cardinality(InFolder(f)) = Cardinality(ImportedIn(f))
  PROVE  \A m \in InFolder(f) : m.row \in ImportedIn(f) /\ Tracked(m.row, f) = {m}
<1> DEFINE S == InFolder(f)
           T == ImportedIn(f)
           g == [r \in T |-> CHOOSE m : Tracked(r, f) = {m}]
<1>1. IsFiniteSet(S)
  BY FS_Subset DEF InFolder
<1>2. ASSUME NEW r \in T PROVE Tracked(r, f) = {g[r]} /\ g[r] \in S /\ g[r].row = r
  <2>1. IsFiniteSet(Tracked(r, f))
    BY <1>1, FS_Subset DEF Tracked
  <2>2. \E m : Tracked(r, f) = {m}
    BY <2>1, <1>2, FS_Singleton
  <2>3. Tracked(r, f) = {g[r]}
    BY <2>2
  <2>4. g[r] \in Tracked(r, f)
    BY <2>3
  <2> QED
    BY <2>3, <2>4 DEF Tracked
<1> HIDE DEF g
<1>3. g \in Injection(T, S)
  <2>1. g \in [T -> S]
    BY <1>2 DEF g
  <2> QED
    BY <2>1, <1>2 DEF Injection, IsInjective
<1>4. g \in Surjection(T, S)
  BY <1>1, <1>3, FS_Injection
<1>5. ASSUME NEW m \in S PROVE m.row \in T /\ Tracked(m.row, f) = {m}
  <2>1. PICK r \in T : g[r] = m
    BY <1>4 DEF Surjection
  <2> QED
    BY <2>1, <1>2
<1> QED
  BY <1>5

\* In the folders of the job every message is its row's import, and the only one.
Vouched ==
  \A m \in pst : Converted(m) /\ FolderOf(m) \in Expected =>
    /\ rows[m.row] = [status |-> "IMPORTED", entry |-> m.id]
    /\ \A n \in pst : n.row = m.row /\ Converted(n) => n = m

\* Counting and one look at each recorded row are enough to know that.
LEMMA ValidationVouches == ASSUME StoresInv, Finite, Validated PROVE Vouched
<1> SUFFICES ASSUME NEW m \in pst, Converted(m), FolderOf(m) \in Expected
             PROVE  /\ rows[m.row] = [status |-> "IMPORTED", entry |-> m.id]
                    /\ \A n \in pst : n.row = m.row /\ Converted(n) => n = m
  BY DEF Vouched
<1> DEFINE f == FolderOf(m)
<1>1. m.row \in Row /\ f = Target[m.row]
  BY DEF StoresInv, Base, MessageInv, TypeMessages, Message, FolderOf, Converted
<1>2. Cardinality(InFolder(f)) = Cardinality(ImportedIn(f))
  BY DEF Validated, CountsAgree
<1>3. \A r \in ImportedIn(f) : Cardinality(Tracked(r, f)) = 1
  BY DEF Validated, RowsFound, ImportedIn
<1>4. m \in InFolder(f)
  BY DEF InFolder
<1> HIDE DEF f
<1>5. m.row \in ImportedIn(f) /\ Tracked(m.row, f) = {m}
  BY <1>2, <1>3, <1>4, CountDecides DEF Finite
<1>6. ASSUME NEW n \in pst, n.row = m.row, Converted(n) PROVE n = m
  <2>1. n \in Tracked(m.row, f)
    BY <1>1, <1>6 DEF Tracked, InFolder, FolderOf, Converted
  <2> QED
    BY <2>1, <1>5
<1>7. rows[m.row].status = "IMPORTED" /\ rows[m.row] \in FileRow
  BY <1>1, <1>5 DEF ImportedIn, With, StoresInv, Base, RowInv, TypeRows
<1>8. Backed(rows, m.row)
  BY <1>1 DEF StoresInv, RecordedExcept, Lost
<1>9. rows[m.row].entry = m.id
  BY <1>6, <1>7, <1>8 DEF Backed
<1> QED
  BY <1>6, <1>7, <1>9 DEF FileRow

\* The exit code is no better than the worst row.
LEMMA CodeIsHonest ==
  ASSUME SuccessExitCode \in SuccessCode
  PROVE  /\ With("FAILED_MAPI") = {}
         /\ SuccessExitCode # "kSuccessWithReadFailures" => With("FAILED_SOURCE_READ") = {}
         /\ SuccessExitCode = "kSuccess" => With("PRESERVED_AS_ATTACHMENT") = {}
  BY DEF SuccessExitCode, SuccessCode

\* A launch that has ended with a success code changes nothing any more.
LEMMA SuccessStays ==
  ASSUME SuccessIsEarned, UNCHANGED vars, exitCode' = exitCode, phase' = phase
  PROVE  SuccessIsEarned'
  BY DEF SuccessIsEarned, vars, durableVars, Expected, With, FolderOf, Converted

\* No launch ends with a success code for a PST in which a folder of the job holds
\* mail twice, or mail that is not the recorded import of its file, or with a code
\* better than its worst row, whatever happened in this launch and before it.
THEOREM SuccessEarned == AppSpec => []SuccessIsEarned
<1>1. AppInit => SuccessIsEarned
  BY DEF AppInit, SuccessIsEarned
<1>2. AppInv /\ Finite /\ SuccessIsEarned /\ [AppNext]_allVars => SuccessIsEarned'
  <2> SUFFICES ASSUME AppInv, Finite, SuccessIsEarned, [AppNext]_allVars
               PROVE  SuccessIsEarned'
    OBVIOUS
  <2>1. CASE phase' # "exited" \/ exitCode' \notin SuccessCode
    BY <2>1 DEF SuccessIsEarned
  <2>2. CASE ValidationSucceeds
    <3>1. Validated /\ UNCHANGED vars /\ exitCode' = SuccessExitCode
      BY <2>2 DEF ValidationSucceeds, Exit
    <3>2. Vouched
      BY <3>1, ValidationVouches DEF AppInv
    <3>3. CASE SuccessExitCode \in SuccessCode
      <4>1. SuccessIsEarned'
        BY <3>1, <3>2, <3>3, CodeIsHonest
        DEF SuccessIsEarned, Vouched, vars, durableVars, Expected, With, FolderOf, Converted
      <4> QED
        BY <4>1
    <3> QED
      BY <3>1, <3>3, <2>1
  <2>3. CASE PutForeignPst \/ UNCHANGED allVars
    BY <2>3, SuccessStays DEF PutForeignPst, allVars, appVars
  <2>4. CASE \/ OverwriteRefused \/ ChecksFail \/ ResumeRefused \/ CreateJobFails
             \/ SessionFails \/ PipelineFailed \/ PipelineCancelled \/ ValidationFails
    <3>1. exitCode' \notin SuccessCode
      BY <2>4
      DEF OverwriteRefused, ChecksFail, ResumeRefused, CreateJobFails, SessionFails,
          PipelineFailed, PipelineCancelled, ValidationFails, Refuse, Exit, SuccessCode
    <3> QED
      BY <3>1, <2>1
  <2>5. CASE \/ NothingToOverwrite \/ DeletePst \/ RemoveStateDb \/ ChecksPass
             \/ ResumeAccepted \/ CreateJob \/ SessionOpens \/ PipelineCompleted
             \/ \E m \in Mode : Launch(m)
             \/ Die
    <3>1. phase' # "exited"
      BY <2>5
      DEF NothingToOverwrite, DeletePst, RemoveStateDb, ChecksPass, ResumeAccepted,
          CreateJob, SessionOpens, PipelineCompleted, Launch, Die
    <3> QED
      BY <3>1, <2>1
  <2>6. CASE Pipeline \/ Interrupt
    <3>1. phase' # "exited"
      BY <2>6 DEF Pipeline, Interrupt, appVars
    <3> QED
      BY <3>1, <2>1
  <2> QED
    BY <2>2, <2>3, <2>4, <2>5, <2>6 DEF AppNext, WorkerStep, AllDone
<1> QED
  BY <1>1, <1>2, AppInvariance, FinitePst, PTL DEF AppSpec

-----------------------------------------------------------------------------
(* What the pipeline leaves to its caller *)

\* In a first run every message is that of a settled row, or of the row at work; a
\* cancelled run has stopped between two rows.
Accounted ==
  /\ ~resumeMode /\ pc \notin {"off", "commit", "exit"} =>
       \A m \in pst : txRows[m.row].status # "PENDING" \/ (InRow /\ m.row = row)
  /\ outcome = "cancelled" => pc \in {"commit", "exit"}
  /\ pc = "commit" /\ outcome = "cancelled" =>
       /\ \E r \in Row : txRows[r].status = "PENDING"
       /\ ~resumeMode => \A m \in pst : txRows[m.row].status # "PENDING"
  /\ pc = "exit" /\ outcome = "cancelled" =>
       /\ \E r \in Row : rows[r].status = "PENDING"
       /\ ~resumeMode => \A m \in pst : rows[m.row].status # "PENDING"

\* What the pipeline does within a launch.
WithinLaunch == PipelineStep \/ Crash \/ RequestCancel

\* The row at work is settled, with all its messages.
LEMMA RowAccounted ==
  ASSUME Accounted, InRow, \A m \in pst : m.row \in Row, Records(row),
         pst' = pst, resumeMode' = resumeMode,
         \/ pc' = "rowDone" /\ outcome' = outcome
         \/ pc' = "commit" /\ outcome' # "cancelled"
  PROVE  Accounted'
  BY DEF Accounted, Records, InRow

\* Nothing is recorded, and messages come and go for the row at work only.
LEMMA WorkAccounted ==
  ASSUME Accounted, InRow, txRows' = txRows, resumeMode' = resumeMode, row' = row,
         \A m \in pst' : m \in pst \/ m.row = row,
         \/ InRow' /\ outcome' = outcome
         \/ pc' = "commit" /\ outcome' # "cancelled"
  PROVE  Accounted'
  BY DEF Accounted, InRow

\* Every step of the pipeline accounts for its messages.
LEMMA AccountStep ==
  ASSUME "dbwrite" \notin Faults, Base, Accounted, WithinLaunch
  PROVE  Accounted'
<1>0. /\ txRows \in [Row -> FileRow] /\ (~tx => txRows = rows)
      /\ (InRow => row \in Row) /\ \A m \in pst : m.row \in Row
      /\ todo \subseteq Row /\ \A r \in todo : txRows[r].status = "PENDING"
  BY DEF Base, LoopInv, TypeLoop, RowAtWork, RowInv, TypeRows, MessageInv, TypeMessages,
         Message
<1> USE DEF LeaveLoop, durableVars, viewVars, rowVars, cacheVars, loopVars, processVars,
            FreshRun, FreshRow
<1>1. CASE \E r \in Row : BeginRow(r)
  BY <1>0, <1>1 DEF BeginRow, Accounted, InRow
<1>2. CASE BeginFails \/ CommitFails
  BY <1>2 DEF BeginFails, CommitFails, DatabaseFails, Accounted
<1>3. CASE HonourCancel
  BY <1>0, <1>3 DEF HonourCancel, Accounted, InRow
<1>4. CASE LoopEnds
  BY <1>4 DEF LoopEnds, Accounted
<1>5. CASE \/ AdoptNone \/ AdoptMany \/ AdoptUnreadable \/ SourceRead \/ BreakerTrips
           \/ ConversionFailed
  <2>1. /\ InRow /\ txRows' = txRows /\ resumeMode' = resumeMode /\ row' = row
        /\ pst' = pst
    BY <1>5 DEF AdoptNone, AdoptMany, AdoptUnreadable, SourceRead, BreakerTrips,
                ConversionFailed, ReadIndex, InRow
  <2>2. \/ InRow' /\ outcome' = outcome
        \/ pc' = "commit" /\ outcome' # "cancelled"
    BY <1>5 DEF AdoptNone, AdoptMany, AdoptUnreadable, SourceRead, BreakerTrips,
                ConversionFailed, InRow
  <2> QED
    BY <2>1, <2>2, WorkAccounted
<1>6. CASE \/ ConvertFails \/ SaveChanges \/ EntryIdFails \/ IntegrityRejects
           \/ FallbackSaves
  <2>1. /\ InRow /\ txRows' = txRows /\ resumeMode' = resumeMode /\ row' = row
        /\ InRow' /\ outcome' = outcome
    BY <1>6 DEF ConvertFails, SaveChanges, EntryIdFails, IntegrityRejects, FallbackSaves,
                FailAttempt, InRow
  <2>2. \A m \in pst' : m \in pst \/ m.row = row
    BY <1>6 DEF ConvertFails, SaveChanges, EntryIdFails, IntegrityRejects, FallbackSaves,
                SaveMessage
  <2> QED
    BY <2>1, <2>2, WorkAccounted
<1>7. CASE \/ AdoptOne \/ SourceUnreadable \/ ImportSucceeds \/ StreamFailed
           \/ FallbackSucceeds \/ FallbackFails
  <2>1. \/ \E i : MarkImported(row, i)
        \/ \E s \in Status \ {"PENDING"} : MarkStatus(row, s)
    <3>1. CASE AdoptOne \/ ImportSucceeds
      BY <3>1 DEF AdoptOne, ImportSucceeds
    <3>2. CASE SourceUnreadable \/ StreamFailed \/ FallbackSucceeds \/ FallbackFails
      BY <3>2 DEF SourceUnreadable, StreamFailed, RecordReadFailure, FallbackSucceeds,
                  FallbackFails, Status
    <3> QED
      BY <1>7, <3>1, <3>2
  <2>2. /\ InRow /\ pst' = pst /\ resumeMode' = resumeMode
        /\ \/ pc' = "rowDone" /\ outcome' = outcome
           \/ pc' = "commit" /\ outcome' # "cancelled"
    BY <1>7 DEF AdoptOne, SourceUnreadable, ImportSucceeds, StreamFailed,
                RecordReadFailure, FallbackSucceeds, FallbackFails, ReadIndex, InRow
  <2>3. Records(row)
    BY <1>0, <2>1, <2>2, MarkRecords
  <2> QED
    BY <1>0, <2>2, <2>3, RowAccounted
<1>8. CASE BatchGoesOn
  BY <1>8 DEF BatchGoesOn, Accounted, InRow
<1>9. CASE BatchFull
  BY <1>9 DEF BatchFull, Commit, Accounted, InRow
<1>10. CASE FinalCommit
  BY <1>0, <1>10 DEF FinalCommit, Commit, Accounted
<1>11. CASE CountFails
  BY <1>11 DEF CountFails, Accounted
<1>12. CASE Crash
  BY <1>12 DEF Crash, Accounted
<1>13. CASE RequestCancel
  BY <1>13 DEF RequestCancel, Accounted, InRow
<1> QED
  BY <1>1, <1>2, <1>3, <1>4, <1>5, <1>6, <1>7, <1>8, <1>9, <1>10, <1>11, <1>12, <1>13
  DEF WithinLaunch, PipelineStep

\* What run_worker_app may rely on when it looks at the result of the pipeline.
RunInv ==
  /\ phase = "pipeline" => Settling /\ Accounted
  /\ phase = "validation" => PendingRows = {}

\* Every launch keeps it, as long as no row update is lost.
LEMMA RunStep ==
  ASSUME "dbwrite" \notin Faults, AppInv, RunInv, [AppNext]_allVars
  PROVE  RunInv'
<1>1. CASE phase' \notin {"pipeline", "validation"}
  BY <1>1 DEF RunInv
<1>2. CASE SessionOpens
  <2>1. StartRun(mode = "resume") /\ phase' = "pipeline" /\ phase = "session"
    BY <1>2 DEF SessionOpens
  <2>2. txRows = rows
    BY <2>1 DEF StartRun, AppInv, StoresInv, Base, RowInv
  <2>3. Settling'
    BY <2>1, <2>2 DEF StartRun, Settling, PendingRows, durableVars, viewVars
  <2>4. resumeMode' \/ pst = {}
    BY <2>1 DEF StartRun, AppInv, LaunchInv, TypeApp, FilesInv, Mode
  <2>5. Accounted'
    BY <2>1, <2>4 DEF StartRun, Accounted, durableVars
  <2> QED
    BY <2>1, <2>3, <2>5 DEF RunInv
<1>3. CASE Pipeline \/ Interrupt
  <2>1. WithinLaunch /\ [Next]_vars /\ phase = "pipeline" /\ phase' = "pipeline"
    BY <1>3 DEF Pipeline, Interrupt, WithinLaunch, Next, appVars
  <2>2. Settling'
    BY <2>1, SettlingStep DEF RunInv, AppInv, StoresInv, Base
  <2>3. Accounted'
    BY <2>1, AccountStep DEF RunInv, AppInv, StoresInv
  <2> QED
    BY <2>1, <2>2, <2>3 DEF RunInv
<1>4. CASE PipelineCompleted
  <2>1. /\ phase = "pipeline" /\ pc = "exit" /\ outcome = "completed"
        /\ phase' = "validation" /\ rows' = rows
    BY <1>4 DEF PipelineCompleted, vars, durableVars
  <2>2. PendingRows' = {}
    BY <2>1 DEF RunInv, Settling, PendingRows
  <2> QED
    BY <2>1, <2>2 DEF RunInv
<1>5. CASE UNCHANGED allVars
  <2>1. UNCHANGED <<rows, txRows, pst, todo, row, pc, outcome, resumeMode, phase>>
    BY <1>5 DEF allVars, appVars, vars, durableVars, viewVars, rowVars, loopVars, processVars
  <2> QED
    BY <2>1 DEF RunInv, Settling, Accounted, PendingRows, InRow
<1>6. CASE /\ ~SessionOpens /\ ~Pipeline /\ ~Interrupt /\ ~PipelineCompleted
           /\ AppNext /\ ~AllDone
  <2>1. phase' \notin {"pipeline", "validation"}
    <3>1. CASE WorkerStep
      BY <1>6, <3>1
      DEF WorkerStep, NothingToOverwrite, OverwriteRefused, DeletePst, RemoveStateDb,
          ChecksFail, ChecksPass, ResumeRefused, ResumeAccepted, CreateJob,
          CreateJobFails, SessionFails, PipelineFailed, PipelineCancelled,
          ValidationSucceeds, ValidationFails, Refuse, Exit
    <3>2. CASE (\E m \in Mode : Launch(m)) \/ Die \/ PutForeignPst
      BY <3>2 DEF Launch, Die, PutForeignPst, Quiet
    <3> QED
      BY <1>6, <3>1, <3>2 DEF AppNext
  <2> QED
    BY <2>1, <1>1
<1> QED
  BY <1>2, <1>3, <1>4, <1>5, <1>6 DEF AllDone

\* When every file is settled and no batch is open, the pipeline has nothing to do.
LEMMA NothingToDo ==
  ASSUME Base, PendingRows = {}, ~tx, pc \in {"off", "exit", "loop", "commit"},
         WithinLaunch
  PROVE  /\ rows' = rows /\ pst' = pst /\ folderMap' = folderMap
         /\ ~tx' /\ pc' \in {"off", "exit", "loop", "commit"}
<1>1. todo = {}
  BY DEF Base, LoopInv, TypeLoop, RowInv, PendingRows
<1> USE DEF durableVars, viewVars, LeaveLoop
<1>2. CASE BeginFails \/ CommitFails
  BY <1>2 DEF BeginFails, CommitFails, DatabaseFails
<1>3. CASE LoopEnds
  BY <1>3 DEF LoopEnds
<1>4. CASE FinalCommit \/ CountFails
  BY <1>4 DEF FinalCommit, CountFails
<1>5. CASE Crash
  BY <1>5 DEF Crash
<1>6. CASE RequestCancel
  BY <1>6 DEF RequestCancel
<1>7. CASE \/ \E r \in Row : BeginRow(r)
           \/ HonourCancel \/ AdoptOne \/ AdoptNone \/ AdoptMany \/ AdoptUnreadable
           \/ SourceUnreadable \/ SourceRead \/ ConvertFails \/ SaveChanges
           \/ EntryIdFails \/ IntegrityRejects \/ ImportSucceeds \/ StreamFailed
           \/ BreakerTrips \/ ConversionFailed \/ FallbackSaves \/ FallbackSucceeds
           \/ FallbackFails \/ BatchGoesOn \/ BatchFull
  BY <1>1, <1>7
  DEF BeginRow, HonourCancel, AdoptOne, AdoptNone, AdoptMany, AdoptUnreadable,
      SourceUnreadable, SourceRead, ConvertFails, SaveChanges, EntryIdFails,
      IntegrityRejects, ImportSucceeds, StreamFailed, BreakerTrips, ConversionFailed,
      FallbackSaves, FallbackSucceeds, FallbackFails, BatchGoesOn, BatchFull
<1> QED
  BY <1>2, <1>3, <1>4, <1>5, <1>6, <1>7 DEF WithinLaunch, PipelineStep

-----------------------------------------------------------------------------
(* A completed job, a cancelled job *)

Completed == job = "COMPLETED" /\ pstFile = "tool"

\* What COMPLETED stands for, and that no pipeline has anything left to do.
Finished ==
  /\ PendingRows = {} /\ Validated
  /\ ~tx /\ pc \in {"off", "exit", "loop", "commit"}

\* A job that is finished stays so while its rows, messages and folders stay.
LEMMA FinishedStays ==
  ASSUME Finished, rows' = rows, pst' = pst, folderMap' = folderMap,
         ~tx', pc' \in {"off", "exit", "loop", "commit"}
  PROVE  Finished'
<1>1. PendingRows' = PendingRows
  BY DEF PendingRows
<1>2. \A s : With(s)' = With(s)
  BY DEF With
<1>3. \A f : InFolder(f)' = InFolder(f)
  BY DEF InFolder, FolderOf
<1>4. \A f : ImportedIn(f)' = ImportedIn(f)
  BY <1>2 DEF ImportedIn
<1>5. \A r, f : Tracked(r, f)' = Tracked(r, f)
  BY <1>3 DEF Tracked
<1>6. Expected' = Expected
  BY <1>2 DEF Expected
<1>7. Validated'
  BY <1>2, <1>3, <1>4, <1>5, <1>6 DEF Finished, Validated, CountsAgree, RowsFound
<1> QED
  BY <1>1, <1>7 DEF Finished

\* A job becomes COMPLETED by a validation, and what it stands for is touched only
\* when the PST or the job row goes.
LEMMA FinishedStep ==
  ASSUME "dbwrite" \notin Faults, AppInv, RunInv, Completed => Finished,
         [AppNext]_allVars, Completed'
  PROVE  Finished'
<1> USE DEF Completed, PstExists, SetJobStatus, OpenOrCreatePst
<1>1. CASE Completed /\ UNCHANGED vars
  <2>1. /\ rows' = rows /\ pst' = pst /\ folderMap' = folderMap
        /\ tx' = tx /\ pc' = pc
    BY <1>1 DEF vars, durableVars, viewVars
  <2> QED
    BY <1>1, <2>1, FinishedStays DEF Finished
<1>2. CASE Pipeline \/ Interrupt
  <2>1. WithinLaunch /\ Completed
    BY <1>2 DEF Pipeline, Interrupt, WithinLaunch, appVars
  <2> QED
    BY <2>1, NothingToDo, FinishedStays DEF Finished, AppInv, StoresInv
<1>3. CASE Die
  <2>1. Completed /\ (UNCHANGED vars \/ Crash)
    BY <1>3 DEF Die
  <2> QED
    BY <1>1, <2>1, NothingToDo, FinishedStays
    DEF Finished, AppInv, StoresInv, WithinLaunch
<1>4. CASE SessionOpens
  <2>1. /\ pc \in {"off", "exit"} /\ pc' = "loop" /\ tx' = tx
        /\ rows' = rows /\ pst' = pst /\ folderMap' = folderMap
    BY <1>4 DEF SessionOpens, StartRun, durableVars, viewVars
  <2>2. Completed
    BY <1>4 DEF SessionOpens, AppInv, LaunchInv, TypeApp, FilesInv
  <2> QED
    BY <2>1, <2>2, FinishedStays DEF Finished
<1>5. CASE SessionFails
  <2>1. Completed /\ UNCHANGED vars
    BY <1>5 DEF SessionFails, AppInv, LaunchInv, TypeApp, FilesInv
  <2> QED
    BY <2>1, <1>1
<1>6. CASE ValidationSucceeds
  <2>1. /\ Validated /\ PendingRows = {} /\ phase = "validation"
        /\ rows' = rows /\ pst' = pst /\ folderMap' = folderMap
        /\ tx' = tx /\ pc' = pc
    BY <1>6 DEF ValidationSucceeds, RunInv, vars, durableVars, viewVars
  <2>2. pc \in {"off", "exit"} /\ ~tx
    BY <2>1 DEF AppInv, LaunchInv, PhaseInv, StoresInv, Base, RowInv
  <2> QED
    BY <2>1, <2>2, FinishedStays DEF Finished
<1>7. CASE DeletePst \/ CreateJob \/ PutForeignPst
  BY <1>7 DEF DeletePst, CreateJob, PutForeignPst
<1>8. CASE \/ NothingToOverwrite \/ OverwriteRefused \/ RemoveStateDb
           \/ ChecksFail \/ ChecksPass \/ ResumeRefused \/ ResumeAccepted
           \/ CreateJobFails \/ PipelineFailed \/ PipelineCancelled
           \/ PipelineCompleted \/ ValidationFails
           \/ \E m \in Mode : Launch(m)
  <2>1. UNCHANGED vars /\ Completed
    BY <1>8
    DEF NothingToOverwrite, OverwriteRefused, RemoveStateDb, ChecksFail, ChecksPass,
        ResumeRefused, ResumeAccepted, CreateJobFails, PipelineFailed,
        PipelineCancelled, PipelineCompleted, ValidationFails, Launch, Refuse
  <2> QED
    BY <2>1, <1>1
<1>9. CASE UNCHANGED allVars
  BY <1>1, <1>9 DEF allVars, appVars
<1> QED
  BY <1>2, <1>3, <1>4, <1>5, <1>6, <1>7, <1>8, <1>9 DEF AppNext, WorkerStep, AllDone

\* The job row says COMPLETED only of a PST and rows that are settled and agree,
\* whatever is launched, killed or refused later.
THEOREM CompletedHolds == AppSpec => []CompletedJobHolds
<1>1. CASE "dbwrite" \notin Faults
  <2>1. AppInit => RunInv /\ (Completed => Finished)
    BY DEF AppInit, RunInv, Completed
  <2>2. AppInv /\ RunInv /\ (Completed => Finished) /\ [AppNext]_allVars
          => RunInv' /\ (Completed => Finished)'
    BY <1>1, RunStep, FinishedStep
  <2>3. (Completed => Finished) => CompletedJobHolds
    BY DEF Completed, Finished, CompletedJobHolds
  <2> QED
    BY <2>1, <2>2, <2>3, AppInvariance, PTL DEF AppSpec
<1>2. CASE "dbwrite" \in Faults
  <2>1. CompletedJobHolds
    BY <1>2 DEF CompletedJobHolds
  <2> QED
    BY <2>1, PTL
<1> QED
  BY <1>1, <1>2

\* A cancelled launch leaves files to resume and a PST its rows account for.
LEMMA CancelStep ==
  ASSUME "dbwrite" \notin Faults, AppInv, RunInv, CancelIsClean, [AppNext]_allVars
  PROVE  CancelIsClean'
<1>1. CASE phase' # "exited" \/ exitCode' # "kCancelled"
  BY <1>1 DEF CancelIsClean
<1>2. CASE PipelineCancelled
  <2>1. /\ phase = "pipeline" /\ pc = "exit" /\ outcome = "cancelled"
        /\ rows' = rows /\ pst' = pst /\ resumeMode' = resumeMode
        /\ pstFile' = pstFile /\ (job' = job \/ job' = "CANCELLED")
    BY <1>2
    DEF PipelineCancelled, SetJobStatus, vars, durableVars, processVars
  <2>2. Accounted /\ PstExists /\ job # "none"
    BY <2>1 DEF RunInv, AppInv, LaunchInv, FilesInv
  <2> QED
    BY <2>1, <2>2 DEF CancelIsClean, Accounted, PendingRows, PstExists
<1>3. CASE UNCHANGED allVars
  <2>1. UNCHANGED <<rows, pst, resumeMode, pstFile, job, phase, exitCode>>
    BY <1>3 DEF allVars, appVars, vars, durableVars, processVars
  <2> QED
    BY <2>1 DEF CancelIsClean, PendingRows, PstExists
<1>4. CASE PutForeignPst
  <2>1. /\ ~PstExists /\ phase' = phase /\ exitCode' = exitCode
    BY <1>4 DEF PutForeignPst
  <2> QED
    BY <2>1, <1>1 DEF CancelIsClean
<1>5. CASE \/ OverwriteRefused \/ ChecksFail \/ ResumeRefused \/ CreateJobFails
           \/ SessionFails \/ PipelineFailed \/ ValidationSucceeds \/ ValidationFails
  <2>1. exitCode' # "kCancelled"
    BY <1>5
    DEF OverwriteRefused, ChecksFail, ResumeRefused, CreateJobFails, SessionFails,
        PipelineFailed, ValidationSucceeds, ValidationFails, Refuse, Exit,
        SuccessExitCode
  <2> QED
    BY <2>1, <1>1
<1>6. CASE \/ NothingToOverwrite \/ DeletePst \/ RemoveStateDb \/ ChecksPass
           \/ ResumeAccepted \/ CreateJob \/ SessionOpens \/ PipelineCompleted
           \/ Pipeline \/ Interrupt \/ Die
           \/ \E m \in Mode : Launch(m)
  <2>1. phase' # "exited"
    BY <1>6
    DEF NothingToOverwrite, DeletePst, RemoveStateDb, ChecksPass, ResumeAccepted,
        CreateJob, SessionOpens, PipelineCompleted, Pipeline, Interrupt, Die, Launch,
        appVars
  <2> QED
    BY <2>1, <1>1
<1> QED
  BY <1>2, <1>3, <1>4, <1>5, <1>6 DEF AppNext, WorkerStep, AllDone

\* Ctrl+C, at whatever moment it comes, ends in a job that can be resumed, and a
\* first run in a PST without mail that no row knows of.
THEOREM CancelledClean == AppSpec => []CancelIsClean
<1>1. CASE "dbwrite" \notin Faults
  <2>1. AppInit => RunInv /\ CancelIsClean
    BY DEF AppInit, RunInv, CancelIsClean
  <2>2. AppInv /\ RunInv /\ CancelIsClean /\ [AppNext]_allVars => RunInv' /\ CancelIsClean'
    BY <1>1, RunStep, CancelStep
  <2> QED
    BY <2>1, <2>2, AppInvariance, PTL DEF AppSpec
<1>2. CASE "dbwrite" \in Faults
  <2>1. CancelIsClean
    BY <1>2 DEF CancelIsClean
  <2> QED
    BY <2>1, PTL
<1> QED
  BY <1>1, <1>2
=============================================================================
