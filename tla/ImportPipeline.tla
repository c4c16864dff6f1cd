--------------------------- MODULE ImportPipeline ---------------------------
(***************************************************************************)
(* The import pipeline of the worker (PipelineRun), the part of the MAPI   *)
(* session it drives (import_eml, import_fallback, read_tracked_messages)  *)
(* and the rows of the state database it keeps.                            *)
(*                                                                         *)
(* Two stores are written one after the other.  A message is durable in    *)
(* the PST as soon as SaveChanges returns; the row that accounts for it is *)
(* durable in the database only when the batch of rows it belongs to is    *)
(* committed.  The process may die between any two steps and be started    *)
(* again with --resume, which sees the PST as it was left and the rows as  *)
(* of the last commit.                                                     *)
(*                                                                         *)
(* Each action is the code from one call to an outside party (SQLite, the  *)
(* file system, MAPI) to the next, so that Crash and RequestCancel can     *)
(* fall between any two of those calls.                                    *)
(***************************************************************************)
EXTENDS Naturals, FiniteSets

CONSTANTS
  NRows,      \* files in the manifest; a row is its primary key 1..NRows
  Folder,     \* target folders of folder_map ("_Conversion Errors" is not one)
  Target,     \* Target[r]: target_folder_path of row r
  BatchSize,  \* db_batch_size: rows per transaction (25 in the code)
  Threshold,  \* circuit_breaker_threshold (10 in the code)
  MaxRuns,    \* bound: processes started, the first one not in resume mode
  Faults      \* what may go wrong in this instance, see FaultKind

FaultKind ==
  { "crash",      \* the process dies
    "cancel",     \* the user presses Ctrl+C
    "source",     \* sha256_file or read_prefix fails
    "folder",     \* ensure_folder fails
    "stream",     \* SHCreateStreamOnFileEx fails in a conversion attempt
    "conversion", \* a per-message MAPI call fails before SaveChanges
    "store",      \* a systemic MAPI call fails (CreateMessage, SaveChanges...)
    "corrupt",    \* MIMEToMAPI "succeeds" and the message lost its content
    "entryid",    \* PR_ENTRYID is unreadable after a successful SaveChanges
    "delete",     \* DeleteMessages fails on a message the gate rejected
    "index",      \* read_tracked_messages fails
    "dbwrite",    \* a row-level statement fails (its Status is discarded)
    "dbfolder",   \* set_folder_entry_id fails (its Status is discarded too)
    "database" }  \* load, BEGIN, COMMIT or the final count fails

ASSUME NRowsAssumption     == NRows \in Nat \ {0}
ASSUME TargetAssumption    == Target \in [1..NRows -> Folder]
ASSUME BatchSizeAssumption == BatchSize \in Nat \ {0}
ASSUME ThresholdAssumption == Threshold \in Nat \ {0}
ASSUME MaxRunsAssumption   == MaxRuns \in Nat \ {0}
ASSUME FolderAssumption    == "_Conversion Errors" \notin Folder
ASSUME FaultsAssumption    == Faults \subseteq FaultKind

Row == 1..NRows

ErrorsFolder == "_Conversion Errors"

Status == {"PENDING", "IMPORTED", "PRESERVED_AS_ATTACHMENT",
           "FAILED_SOURCE_READ", "FAILED_MAPI"}

\* A row of table files, without the columns no decision reads.  Entry id 0
\* stands for SQL NULL.
FileRow == [status : Status, entry : Nat]

\* A message in the PST: its entry id, the row named by its tracking
\* properties and what it is.  A "corrupt" message is one that
\* verify_conversion_integrity rejects; a "fallback" lives in ErrorsFolder,
\* the others in Target[row].
Kind == {"converted", "corrupt", "fallback"}
Message == [id : Nat, row : Row, kind : Kind]

VARIABLES
  (*************************************************************************)
  (* Durable: what a crash leaves behind.                                  *)
  (*************************************************************************)
  pst,        \* messages saved in the PST
  nextId,     \* next entry id the message store hands out
  rows,       \* table files as of the last COMMIT
  folderMap,  \* folders with a target_entry_id in table folder_map, committed
  (*************************************************************************)
  (* The connection's view: the open batch on top of the last COMMIT.      *)
  (*************************************************************************)
  tx,         \* a batch transaction is open
  txRows,
  txFolderMap,
  (*************************************************************************)
  (* Memory of the worker process.                                         *)
  (*************************************************************************)
  run,        \* processes started so far
  resumeMode, \* PipelineContext::resume_mode of this process
  pc,         \* where the process is
  todo,       \* rows of the snapshot, PENDING and not reached by the loop
  row,        \* the row process_row works on
  attempt,    \* conversion attempt of import_eml, 1 or 2
  err,        \* class of the last attempt's error
  saved,      \* entry id of the message SaveChanges just stored
  batchOpen,  \* rows processed in the open batch
  consecutiveSystemic, \* circuit breaker counter
  folderIds,  \* folders ensured by this process
  resumeIndex, \* tracked messages read so far, per folder read once
  indexed,    \* folders whose messages are in resumeIndex
  cancelled,  \* the cancel token is set
  outcome     \* how run() ended

durableVars == <<pst, nextId, rows, folderMap>>
viewVars    == <<tx, txRows, txFolderMap>>
rowVars     == <<row, attempt, err, saved>>
cacheVars   == <<folderIds, resumeIndex, indexed>>
loopVars    == <<todo, batchOpen, consecutiveSystemic, outcome>>
processVars == <<run, resumeMode>>
vars == <<durableVars, viewVars, rowVars, cacheVars, loopVars, processVars, pc,
          cancelled>>

Location == {"off", "loop", "adopt", "source", "convert", "saved", "failed",
             "fallback", "fallbackSaved", "rowDone", "commit", "exit"}

ErrorClass == {"none", "stream", "conversion", "store", "integrity"}

Outcome == {"running", "completed", "cancelled", "databaseFailure",
            "kResumeIntegrityError", "kOutputWriteFailure"}

\* The locals of process_row, and the members of PipelineRun, as constructed.
FreshRow == row' = 0 /\ attempt' = 1 /\ err' = "none" /\ saved' = 0

FreshRun ==
  /\ FreshRow
  /\ folderIds' = {} /\ resumeIndex' = {} /\ indexed' = {}
  /\ batchOpen' = 0 /\ consecutiveSystemic' = 0

Init ==
  /\ pst = {} /\ nextId = 1
  /\ rows = [r \in Row |-> [status |-> "PENDING", entry |-> 0]]
  /\ folderMap = {}
  /\ tx = FALSE /\ txRows = rows /\ txFolderMap = {}
  /\ run = 0 /\ resumeMode = FALSE /\ pc = "off" /\ todo = {}
  /\ row = 0 /\ attempt = 1 /\ err = "none" /\ saved = 0
  /\ batchOpen = 0 /\ consecutiveSystemic = 0
  /\ folderIds = {} /\ resumeIndex = {} /\ indexed = {}
  /\ cancelled = FALSE /\ outcome = "running"

-----------------------------------------------------------------------------
(* Helpers *)

\* Mutant of PendingRows: a failed row is tried again.
RetriedRows == {r \in Row : rows[r].status \in {"PENDING", "FAILED_MAPI"}}

PendingRows == {r \in Row : rows[r].status = "PENDING"}

FolderOf(m) == IF m.kind = "fallback" THEN ErrorsFolder ELSE Target[m.row]

\* The statements' Status is discarded with (void): a failing one changes
\* nothing and nobody notices.
LostWrite == "dbwrite" \in Faults /\ UNCHANGED txRows

MarkImported(r, id) ==
  \/ txRows' = [txRows EXCEPT ![r] = [status |-> "IMPORTED", entry |-> id]]
  \/ LostWrite

MarkStatus(r, s) ==
  \/ txRows' = [txRows EXCEPT ![r].status = s]
  \/ LostWrite

\* Mutant of EnsureFolder: the errors folder gets a folder_map row too.
EnsureFolderUpserted(f) ==
  IF f \in folderIds THEN UNCHANGED <<folderIds, txFolderMap>>
  ELSE folderIds' = folderIds \cup {f} /\ txFolderMap' = txFolderMap \cup {f}

\* ensure_target_folder, when it succeeds.  The entry id is lost if the update
\* fails, or if the folder has no row (the process that created the job died
\* before upsert_folder): folder_map is then as it was.
EnsureFolder(f) ==
  \/ f \in folderIds /\ UNCHANGED <<folderIds, txFolderMap>>
  \/ /\ f \notin folderIds
     /\ folderIds' = folderIds \cup {f}
     /\ \/ txFolderMap' = txFolderMap \cup ({f} \cap Folder)
        \/ "dbfolder" \in Faults /\ UNCHANGED txFolderMap

FolderFails(f) == "folder" \in Faults /\ f \notin folderIds

\* Mutant of SaveMessage: the HRESULT of SaveChanges is not looked at.
SaveMessageUnchecked(k) ==
  saved' = nextId /\ nextId' = nextId + 1 /\ UNCHANGED pst

SaveMessage(k) ==
  /\ pst' = pst \cup {[id |-> nextId, row |-> row, kind |-> k]}
  /\ nextId' = nextId + 1
  /\ saved' = nextId

\* run() leaves the row loop; an open batch is still to be committed.
LeaveLoop(result) == pc' = "commit" /\ outcome' = result

\* fatal_db: run() returns, the Transaction's destructor rolls the batch back.
DatabaseFails ==
  /\ "database" \in Faults
  /\ pc' = "exit" /\ outcome' = "databaseFailure"
  /\ tx' = FALSE /\ txRows' = rows /\ txFolderMap' = folderMap
  /\ FreshRun /\ todo' = {}
  /\ UNCHANGED <<durableVars, processVars, cancelled>>

Commit ==
  /\ rows' = txRows /\ folderMap' = txFolderMap /\ tx' = FALSE
  /\ UNCHANGED <<pst, nextId, txRows, txFolderMap>>

\* Mutant of Trips: off by one.
TripsLate(n) == n > Threshold

\* The circuit breaker, at n consecutive systemic failures.
Trips(n) == n >= Threshold

\* is_systemic_operation.
Systemic(e) == e \in {"store", "integrity"}

-----------------------------------------------------------------------------
(* The process and its user *)

\* The user starts the worker: a new job first, --resume afterwards.  run()
\* loads the rows and will visit the PENDING ones in the order of their ids.
\* Ctrl+C may have been pressed before.
StartRun(resume) ==
  /\ pc \in {"off", "exit"} /\ run < MaxRuns
  /\ run' = run + 1 /\ resumeMode' = resume
  /\ FreshRun /\ outcome' = "running"
  /\ cancelled' \in {c \in BOOLEAN : c => "cancel" \in Faults}
  /\ pc' = "loop"
  /\ todo' = PendingRows
  /\ UNCHANGED <<durableVars, viewVars>>

\* The process dies: its memory and the open batch are lost.
Crash ==
  /\ "crash" \in Faults
  /\ pc \notin {"off", "exit"}
  /\ FreshRun /\ outcome' = "running" /\ cancelled' = FALSE
  /\ pc' = "off" /\ todo' = {}
  /\ tx' = FALSE /\ txRows' = rows /\ txFolderMap' = folderMap
  /\ UNCHANGED <<durableVars, processVars>>

RequestCancel ==
  /\ "cancel" \in Faults
  /\ pc \notin {"off", "exit"} /\ ~cancelled
  /\ cancelled' = TRUE
  /\ UNCHANGED <<durableVars, viewVars, rowVars, cacheVars, loopVars, processVars, pc>>

-----------------------------------------------------------------------------
(* run(): the loop over the rows *)

BeginRow(r) ==
  /\ pc = "loop" /\ ~cancelled
  /\ r \in todo /\ \A s \in todo : r <= s
  /\ tx' = TRUE
  /\ batchOpen' = IF tx THEN batchOpen ELSE 0
  /\ todo' = todo \ {r}
  /\ row' = r
  /\ pc' = IF resumeMode THEN "adopt" ELSE "source"
  /\ UNCHANGED <<durableVars, txRows, txFolderMap, attempt, err, saved,
                 cacheVars, consecutiveSystemic, outcome, processVars, cancelled>>

\* load_all_files or BEGIN IMMEDIATE fails; no batch is open.
BeginFails == pc = "loop" /\ ~tx /\ DatabaseFails

HonourCancel ==
  /\ pc = "loop" /\ todo # {} /\ cancelled
  /\ LeaveLoop("cancelled")
  /\ UNCHANGED <<durableVars, viewVars, rowVars, cacheVars, todo, batchOpen,
                 consecutiveSystemic, processVars, cancelled>>

LoopEnds ==
  /\ pc = "loop" /\ todo = {}
  /\ LeaveLoop("completed")
  /\ UNCHANGED <<durableVars, viewVars, rowVars, cacheVars, todo, batchOpen,
                 consecutiveSystemic, processVars, cancelled>>
-----------------------------------------------------------------------------
(* process_row(): resume recovery, then the source file *)

\* Messages of row's folder as read_tracked_messages sees them: once per
\* folder and process, then from the cache.
\* Mutant of KnownMessages: one index for all folders.
KnownMessagesUnkeyed ==
  IF indexed # {} THEN resumeIndex ELSE {m \in pst : FolderOf(m) = Target[row]}

KnownMessages ==
  IF Target[row] \in indexed THEN resumeIndex
  ELSE resumeIndex \cup {m \in pst : FolderOf(m) = Target[row]}

Matches == {m \in KnownMessages : m.row = row}

ReadIndex ==
  /\ EnsureFolder(Target[row])
  /\ resumeIndex' = KnownMessages
  /\ indexed' = indexed \cup {Target[row]}
  /\ UNCHANGED <<durableVars, tx, todo, batchOpen, consecutiveSystemic,
                 row, attempt, err, saved, processVars, cancelled>>

\* Exactly one match: the message saved before the crash is the import.
AdoptOne ==
  /\ pc = "adopt"
  /\ \E m \in Matches : Matches = {m} /\ MarkImported(row, m.id)
  /\ ReadIndex
  /\ pc' = "rowDone"
  /\ UNCHANGED outcome

AdoptNone ==
  /\ pc = "adopt" /\ Matches = {}
  /\ ReadIndex
  /\ pc' = "source"
  /\ UNCHANGED <<txRows, outcome>>

AdoptMany ==
  /\ pc = "adopt" /\ Cardinality(Matches) > 1
  /\ ReadIndex
  /\ LeaveLoop("kResumeIntegrityError")
  /\ UNCHANGED txRows

\* Folder or table unreadable: treated as "not found".
AdoptUnreadable ==
  /\ pc = "adopt" /\ Target[row] \notin indexed
  /\ \/ "index" \in Faults /\ EnsureFolder(Target[row])
     \/ FolderFails(Target[row]) /\ UNCHANGED <<folderIds, txFolderMap>>
  /\ pc' = "source"
  /\ UNCHANGED <<durableVars, tx, txRows, rowVars, resumeIndex, indexed,
                 loopVars, processVars, cancelled>>

\* record_read_failure
RecordReadFailure ==
  /\ MarkStatus(row, "FAILED_SOURCE_READ")
  /\ pc' = "rowDone"

SourceUnreadable ==
  /\ pc = "source" /\ "source" \in Faults
  /\ RecordReadFailure
  /\ UNCHANGED <<durableVars, tx, txFolderMap, rowVars, cacheVars, loopVars,
                 processVars, cancelled>>

SourceRead ==
  /\ pc = "source"
  /\ \/ EnsureFolder(Target[row]) /\ pc' = "convert" /\ UNCHANGED outcome
     \/ /\ FolderFails(Target[row])
        /\ LeaveLoop("kOutputWriteFailure")
        /\ UNCHANGED <<folderIds, txFolderMap>>
  /\ attempt' = 1 /\ err' = "none"
  /\ UNCHANGED <<durableVars, tx, txRows, row, saved, resumeIndex, indexed,
                 todo, batchOpen, consecutiveSystemic, processVars, cancelled>>

-----------------------------------------------------------------------------
(* import_eml(): two attempts, each into a new message *)

\* Mutant of FailAttempt: the second attempt is not counted.
FailAttemptForever(e) ==
  /\ err' = e /\ saved' = 0 /\ attempt' = 1 /\ pc' = "convert"
  /\ UNCHANGED <<rows, folderMap, nextId, viewVars, row, cacheVars, loopVars,
                 processVars, cancelled>>

\* An attempt ended with an error of class e.  A second one follows the
\* first if write_normalized_copy had something to repair.
FailAttempt(e) ==
  /\ err' = e /\ saved' = 0
  /\ \/ attempt = 1 /\ attempt' = 2 /\ pc' = "convert"
     \/ attempt' = attempt /\ pc' = "failed"
  /\ UNCHANGED <<rows, folderMap, nextId, viewVars, row, cacheVars, loopVars,
                 processVars, cancelled>>

ConvertFails ==
  /\ pc = "convert"
  /\ \E e \in {"stream", "conversion", "store"} \cap Faults : FailAttempt(e)
  /\ UNCHANGED pst

\* MIMEToMAPI, state, dates, tracking, then SaveChanges succeeds.
SaveChanges ==
  /\ pc = "convert"
  /\ \/ SaveMessage("converted")
     \/ "corrupt" \in Faults /\ SaveMessage("corrupt")
  /\ pc' = "saved"
  /\ UNCHANGED <<rows, folderMap, viewVars, row, attempt, err, cacheVars,
                 loopVars, processVars, cancelled>>

SavedIs(k) == \E m \in pst : m.id = saved /\ m.kind = k

EntryIdFails ==
  /\ pc = "saved" /\ "entryid" \in Faults
  /\ FailAttempt("conversion")
  /\ UNCHANGED pst

\* Mutant of IntegrityRejects: the row is recorded before the gate has spoken.
IntegrityRejectsLate ==
  /\ pc = "saved" /\ SavedIs("corrupt")
  /\ pst' = {m \in pst : m.id # saved}
  /\ MarkImported(row, saved)
  /\ saved' = 0 /\ pc' = "rowDone"
  /\ UNCHANGED <<rows, folderMap, nextId, tx, txFolderMap, row, attempt, err,
                 cacheVars, loopVars, processVars, cancelled>>

\* The conversion-integrity gate looks at the message only now that it is
\* saved, and deletes it if it must.
IntegrityRejects ==
  /\ pc = "saved" /\ SavedIs("corrupt")
  /\ \/ pst' = {m \in pst : m.id # saved}
     \/ "delete" \in Faults /\ UNCHANGED pst
  /\ FailAttempt("integrity")

ImportSucceeds ==
  /\ pc = "saved" /\ SavedIs("converted")
  /\ MarkImported(row, saved)
  /\ consecutiveSystemic' = 0
  /\ saved' = 0
  /\ pc' = "rowDone"
  /\ UNCHANGED <<durableVars, tx, txFolderMap, row, attempt, err, cacheVars,
                 todo, batchOpen, outcome, processVars, cancelled>>
-----------------------------------------------------------------------------
(* process_row(): both attempts failed *)

\* "Stream-open failures are read failures, not conversion failures."
StreamFailed ==
  /\ pc = "failed" /\ err = "stream"
  /\ RecordReadFailure
  /\ UNCHANGED <<durableVars, tx, txFolderMap, rowVars, cacheVars, loopVars,
                 processVars, cancelled>>

\* A systemic failure counts; at the threshold the run stops and the row
\* stays PENDING.
BreakerTrips ==
  /\ pc = "failed" /\ Systemic(err)
  /\ Trips(consecutiveSystemic + 1)
  /\ consecutiveSystemic' = consecutiveSystemic + 1
  /\ LeaveLoop("kOutputWriteFailure")
  /\ UNCHANGED <<durableVars, viewVars, rowVars, cacheVars, todo, batchOpen,
                 processVars, cancelled>>

ConversionFailed ==
  /\ pc = "failed" /\ err # "stream"
  /\ Systemic(err) => ~Trips(consecutiveSystemic + 1)
  /\ consecutiveSystemic' = consecutiveSystemic + (IF Systemic(err) THEN 1 ELSE 0)
  /\ \/ EnsureFolder(ErrorsFolder) /\ pc' = "fallback" /\ UNCHANGED outcome
     \/ /\ FolderFails(ErrorsFolder)
        /\ LeaveLoop("kOutputWriteFailure")
        /\ UNCHANGED <<folderIds, txFolderMap>>
  /\ UNCHANGED <<durableVars, tx, txRows, rowVars, resumeIndex, indexed, todo,
                 batchOpen, processVars, cancelled>>

-----------------------------------------------------------------------------
(* import_fallback(): the original EML as an attachment *)

FallbackSaves ==
  /\ pc = "fallback"
  /\ SaveMessage("fallback")
  /\ pc' = "fallbackSaved"
  /\ UNCHANGED <<rows, folderMap, viewVars, row, attempt, err, cacheVars,
                 loopVars, processVars, cancelled>>

FallbackSucceeds ==
  /\ pc = "fallbackSaved"
  /\ MarkStatus(row, "PRESERVED_AS_ATTACHMENT")
  /\ consecutiveSystemic' = 0
  /\ saved' = 0
  /\ pc' = "rowDone"
  /\ UNCHANGED <<durableVars, tx, txFolderMap, row, attempt, err, cacheVars,
                 todo, batchOpen, outcome, processVars, cancelled>>

\* The fallback fails before its SaveChanges (a per-message or a systemic
\* call) or, once saved, at its entry id.
FallbackFails ==
  /\ \/ pc = "fallback" /\ err' \in {"conversion", "store"} \cap Faults
     \/ pc = "fallbackSaved" /\ "entryid" \in Faults /\ err' = "conversion"
  /\ MarkStatus(row, "FAILED_MAPI")
  /\ saved' = 0
  /\ consecutiveSystemic' = consecutiveSystemic + (IF Systemic(err') THEN 1 ELSE 0)
  /\ \/ /\ Systemic(err') /\ Trips(consecutiveSystemic')
        /\ LeaveLoop("kOutputWriteFailure")
     \/ /\ Systemic(err') => ~Trips(consecutiveSystemic')
        /\ pc' = "rowDone" /\ UNCHANGED outcome
  /\ UNCHANGED <<durableVars, tx, txFolderMap, row, attempt, cacheVars, todo,
                 batchOpen, processVars, cancelled>>

-----------------------------------------------------------------------------
(* run(): batches and the end *)

\* Mutant of BatchIsFull: off by one.
BatchIsOverfull == batchOpen + 1 > BatchSize

BatchIsFull == batchOpen + 1 >= BatchSize

BatchGoesOn ==
  /\ pc = "rowDone" /\ ~BatchIsFull
  /\ batchOpen' = batchOpen + 1
  /\ pc' = "loop"
  /\ FreshRow
  /\ UNCHANGED <<durableVars, viewVars, cacheVars, todo,
                 consecutiveSystemic, outcome, processVars, cancelled>>

BatchFull ==
  /\ pc = "rowDone" /\ BatchIsFull
  /\ Commit
  /\ batchOpen' = 0
  /\ pc' = "loop"
  /\ FreshRow
  /\ UNCHANGED <<cacheVars, todo, consecutiveSystemic, outcome, processVars,
                 cancelled>>

\* Mutant of FinalCommit: the last, partial batch is left to the destructor.
FinalRollback ==
  /\ pc = "commit"
  /\ tx' = FALSE /\ txRows' = rows /\ txFolderMap' = folderMap
  /\ pc' = "exit"
  /\ FreshRun /\ todo' = {}
  /\ UNCHANGED <<durableVars, outcome, processVars, cancelled>>

\* After the loop, on every way out of it: commit the open batch, count.
FinalCommit ==
  /\ pc = "commit"
  /\ IF tx THEN Commit ELSE UNCHANGED <<durableVars, viewVars>>
  /\ pc' = "exit"
  /\ FreshRun /\ todo' = {}
  /\ UNCHANGED <<outcome, processVars, cancelled>>

CommitFails ==
  /\ \/ pc = "rowDone" /\ BatchIsFull
     \/ pc = "commit"
  /\ DatabaseFails

\* count_by_status fails after the last commit.
CountFails ==
  /\ pc = "commit" /\ "database" \in Faults
  /\ IF tx THEN Commit ELSE UNCHANGED <<durableVars, viewVars>>
  /\ pc' = "exit" /\ outcome' = "databaseFailure"
  /\ FreshRun /\ todo' = {}
  /\ UNCHANGED <<processVars, cancelled>>

-----------------------------------------------------------------------------
PipelineStep ==
  \/ \E r \in Row : BeginRow(r)
  \/ BeginFails \/ HonourCancel \/ LoopEnds
  \/ AdoptOne \/ AdoptNone \/ AdoptMany \/ AdoptUnreadable
  \/ SourceUnreadable \/ SourceRead
  \/ ConvertFails \/ SaveChanges \/ EntryIdFails \/ IntegrityRejects
  \/ ImportSucceeds
  \/ StreamFailed \/ BreakerTrips \/ ConversionFailed
  \/ FallbackSaves \/ FallbackSucceeds \/ FallbackFails
  \/ BatchGoesOn \/ BatchFull \/ FinalCommit \/ CommitFails \/ CountFails

\* Nothing runs and the bound on processes is reached.
Stopped == pc \in {"off", "exit"} /\ run = MaxRuns /\ UNCHANGED vars

Next == PipelineStep \/ StartRun(run > 0) \/ Crash \/ RequestCancel \/ Stopped

Spec == Init /\ [][Next]_vars
-----------------------------------------------------------------------------
(* Properties *)

TypeRows ==
  /\ rows \in [Row -> FileRow] /\ txRows \in [Row -> FileRow]
  /\ folderMap \subseteq Folder /\ txFolderMap \subseteq Folder
  /\ tx \in BOOLEAN

TypeMessages ==
  /\ pst \subseteq Message /\ nextId \in Nat \ {0} /\ saved \in Nat
  /\ resumeIndex \subseteq Message /\ indexed \subseteq Folder
  /\ folderIds \subseteq Folder \cup {ErrorsFolder}

TypeLoop ==
  /\ run \in 0..MaxRuns /\ resumeMode \in BOOLEAN
  /\ pc \in Location /\ todo \subseteq Row
  /\ row \in 0..NRows /\ attempt \in 1..2 /\ err \in ErrorClass
  /\ batchOpen \in 0..BatchSize /\ consecutiveSystemic \in 0..Threshold
  /\ cancelled \in BOOLEAN /\ outcome \in Outcome

TypeOK == TypeRows /\ TypeMessages /\ TypeLoop

Converted(m) == m.kind # "fallback"

\* Is what row r of table t claims true of the PST?
Backed(t, r) ==
  /\ t[r].status = "IMPORTED" =>
       \E m \in pst : m.id = t[r].entry /\ m.row = r /\ Converted(m)
  /\ t[r].status = "PRESERVED_AS_ATTACHMENT" =>
       \E m \in pst : m.row = r /\ ~Converted(m)

\* A row never claims a message that is not in the PST, neither the committed
\* row nor the one in the open batch: the save always comes first, the entry
\* id recorded is that of a message of this very row, and no message so
\* recorded is deleted by a later integrity failure or lost to a rollback.
RecordedIsSaved == \A r \in Row : Backed(rows, r) /\ Backed(txRows, r)

\* A committed result is final: no later run, crash or rollback takes it back
\* or replaces it.
SettledRowsAreFinal ==
  [][\A r \in Row : rows[r].status # "PENDING" => rows'[r] = rows[r]]_rows

\* Nothing is put into or taken out of the PST for a row whose result is
\* committed: a resumed run leaves finished files alone.
SettledRowsAreLeftAlone ==
  [][\A m \in (pst \ pst') \cup (pst' \ pst) : rows[m.row].status = "PENDING"]_pst

\* Two messages converted from one source file (duplicated mail) need a
\* failing entry-id read, delete or resume index: crashes, rollbacks, lost row
\* updates and cancellations alone never produce them, however often the job
\* is resumed.
OneConversionPerRow ==
  Faults \cap {"entryid", "delete", "index", "folder"} = {} =>
    \A m, n \in pst : m.row = n.row /\ Converted(m) /\ Converted(n) => m = n

\* A run that reports completion has a committed result for every file.
CompletedMeansSettled ==
  "dbwrite" \notin Faults /\ pc = "exit" /\ outcome = "completed" => PendingRows = {}

\* The pipeline keeps the ledger: refinement of MessageLedger.
HeldFor(r) ==
  (IF \E m \in pst : m.row = r /\ Converted(m) THEN {"message"} ELSE {})
  \cup (IF \E m \in pst : m.row = r /\ ~Converted(m) THEN {"attachment"} ELSE {})

Ledger == INSTANCE MessageLedger WITH
  status <- [r \in Row |-> rows[r].status],
  held   <- [r \in Row |-> HeldFor(r)]

KeepsLedger == Ledger!LedgerSpec
-----------------------------------------------------------------------------
(* What comments of the code say and its behaviour refutes *)

\* import_pipeline.h:49-50, "the crash window is closed by resume recovery":
\* a source file never has two messages in the PST, be they conversions or
\* fallbacks.  Recovery looks only into the row's own target folder, never
\* into "_Conversion Errors".
RecoveryClosesCrashWindow == \A m, n \in pst : m.row = n.row => m = n

\* import_pipeline.cpp:97-99, "A run of integrity failures means the converter
\* is not converting at all - stop instead of preserving thousands of messages
\* as fallback attachments": with integrity failures as the only fault, no
\* Threshold consecutive rows end up preserved.
IntegrityRunStops ==
  ~ \E r \in Row : /\ r + Threshold - 1 \in Row
                   /\ \A i \in r..(r + Threshold - 1) :
                        txRows[i].status = "PRESERVED_AS_ATTACHMENT"
=============================================================================
