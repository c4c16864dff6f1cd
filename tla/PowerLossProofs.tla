--------------------------- MODULE PowerLossProofs ---------------------------
(***************************************************************************)
(* Theorems about PowerLoss, that is, about the pipeline with any number   *)
(* of crashes, resumed runs and power failures that lose committed         *)
(* batches.                                                                *)
(*                                                                         *)
(* The inductive invariant of ImportPipeline still holds, because what the *)
(* database falls back to is behind what it held; a run that reports       *)
(* completion has settled every row; and no mail is there twice.  The      *)
(* proof of the last never looks at the rows: what protects the mail is    *)
(* that a resumed run asks the PST.  The crash window stays small because  *)
(* every run begins with the first open files again, in the same order.    *)
(***************************************************************************)
EXTENDS PowerLoss, ImportPipelineProofs, FiniteSetTheorems

\* A power failure is a crash to what the process and the PST hold.
LEMMA FailureKeeps ==
  ASSUME LoopInv, MessageInv, SaveInv, PowerFails
  PROVE  LoopInv' /\ MessageInv' /\ SaveInv'
<1> USE ConstantsOK DEF PowerFails, FreshRun, FreshRow, processVars, Assumptions, Row
<1>0. cancelled' \in BOOLEAN
  BY Zenon DEF PowerFails
<1>1. LoopInv'
  BY <1>0 DEF LoopInv, TypeLoop, RowAtWork, BreakerBelow, InRow, Location, ErrorClass, Outcome
<1>2. MessageInv'
  BY DEF MessageInv, TypeMessages
<1>3. SaveInv'
  BY DEF SaveInv
<1> QED
  BY <1>1, <1>2, <1>3

-----------------------------------------------------------------------------
(* The rows *)

\* What the power may take the database back to: results that are there are
\* those of the database now.
LogBehind ==
  \A v \in unsynced :
    /\ v.rows \in [Row -> FileRow] /\ v.folderMap \subseteq Folder
    /\ \A r \in Row : v.rows[r].status # "PENDING" => rows[r] = v.rows[r]

PowerInv == IInv /\ LogBehind

\* A step of the pipeline adds the version before a commit, and a commit changes
\* no result.
LEMMA LogStep == PowerInv /\ [Next]_vars /\ PipelineNext => LogBehind'
<1> SUFFICES ASSUME PowerInv, [Next]_vars, PipelineNext PROVE LogBehind'
  OBVIOUS
<1>1. rows' = rows \/ rows' = txRows
  BY StoreStep DEF StoreMove
<1>2. \A r \in Row : rows[r].status # "PENDING" => rows'[r] = rows[r]
  BY <1>1 DEF PowerInv, IInv, RowInv
<1>3. rows \in [Row -> FileRow] /\ folderMap \subseteq Folder
  BY DEF PowerInv, IInv, RowInv, TypeRows
<1>4. unsynced' = unsynced \/ unsynced' = unsynced \cup {Version}
  BY DEF PipelineNext, Log
<1>5. ASSUME NEW v \in unsynced'
      PROVE  /\ v.rows \in [Row -> FileRow] /\ v.folderMap \subseteq Folder
             /\ \A r \in Row : v.rows[r].status # "PENDING" => rows'[r] = v.rows[r]
  <2>1. CASE v \in unsynced
    BY <2>1, <1>2 DEF PowerInv, LogBehind
  <2>2. CASE v = Version
    BY <2>2, <1>2, <1>3 DEF Version
  <2> QED
    BY <1>4, <1>5, <2>1, <2>2
<1> QED
  BY <1>5 DEF LogBehind

\* What was recorded in the version fallen back to was recorded in the one lost.
LEMMA FallBack == PowerInv /\ PowerFails => PowerInv'
<1> SUFFICES ASSUME PowerInv, PowerFails PROVE PowerInv'
  OBVIOUS
<1>1. LoopInv' /\ MessageInv' /\ SaveInv'
  BY FailureKeeps DEF PowerInv, IInv
<1>2. PICK v \in unsynced : /\ rows' = v.rows /\ folderMap' = v.folderMap
                           /\ txRows' = rows' /\ txFolderMap' = folderMap'
  BY DEF PowerFails
<1>3. /\ pst' = pst /\ tx' = FALSE /\ todo' = {} /\ pc' = "off" /\ unsynced' = {}
  BY DEF PowerFails
<1>4. /\ v.rows \in [Row -> FileRow] /\ v.folderMap \subseteq Folder
      /\ \A r \in Row : v.rows[r].status # "PENDING" => rows[r] = v.rows[r]
  BY DEF PowerInv, LogBehind
<1>5. RowInv'
  BY <1>2, <1>3, <1>4 DEF RowInv, TypeRows, InRow
<1>6. RecordedIsSaved'
  <2> SUFFICES ASSUME NEW r \in Row PROVE Backed(rows, r)' /\ Backed(txRows, r)'
    BY DEF RecordedIsSaved
  <2>1. CASE v.rows[r].status = "PENDING"
    BY <1>2, <2>1 DEF Backed
  <2>2. CASE v.rows[r].status # "PENDING"
    <3>1. Backed(rows, r) /\ rows[r] = v.rows[r]
      BY <1>4, <2>2 DEF PowerInv, IInv, RecordedIsSaved
    <3> QED
      BY <1>2, <1>3, <3>1 DEF Backed
  <2> QED
    BY <2>1, <2>2
<1>7. LogBehind'
  BY <1>3 DEF LogBehind
<1> QED
  BY <1>1, <1>5, <1>6, <1>7 DEF PowerInv, IInv

\* The invariant of the pipeline and the log under it hold in every state.
LEMMA PowerInvariance == PowerSpec => []PowerInv
<1>1. PowerInit => PowerInv
  BY InitIInv DEF PowerInit, PowerInv, LogBehind
<1>2. PowerInv /\ [PowerNext]_powerVars => PowerInv'
  <2> SUFFICES ASSUME PowerInv, [PowerNext]_powerVars PROVE PowerInv'
    OBVIOUS
  <2>1. CASE PowerFails
    BY <2>1, FallBack
  <2>2. CASE PipelineNext
    <3>1. [Next]_vars
      BY <2>2 DEF PipelineNext
    <3> QED
      BY <2>2, <3>1, IInvStep, LogStep DEF PowerInv
  <2>3. CASE UNCHANGED powerVars
    <3>1. [Next]_vars
      BY <2>3 DEF powerVars
    <3>2. unsynced' = unsynced /\ rows' = rows
      BY <2>3 DEF powerVars, vars, durableVars
    <3> QED
      BY <3>1, <3>2, IInvStep DEF PowerInv, LogBehind
  <2> QED
    BY <2>1, <2>2, <2>3 DEF PowerNext
<1> QED
  BY <1>1, <1>2, PTL DEF PowerSpec

\* A row never claims a message that the PST does not hold, also after any
\* number of power failures.
THEOREM RecordedSurvivesPower == PowerSpec => []RecordedIsSaved
<1>1. PowerInv => RecordedIsSaved
  BY DEF PowerInv, IInv
<1> QED
  BY <1>1, PowerInvariance, PTL

-----------------------------------------------------------------------------
(* Completion *)

\* A run that reports completion has left no file PENDING, whatever crashed or was
\* lost with the power before, as long as no row update is lost.
THEOREM CompletionSettles == PowerSpec => []CompletedMeansSettled
<1>1. CASE "dbwrite" \notin Faults
  <2>1. PowerInit => Settling
    BY DEF PowerInit, Init, Settling
  <2>2. PowerInv /\ Settling /\ [PowerNext]_powerVars => Settling'
    <3> SUFFICES ASSUME PowerInv, Settling, [PowerNext]_powerVars PROVE Settling'
      OBVIOUS
    <3>1. CASE PowerFails
      BY <3>1 DEF PowerFails, Settling
    <3>2. CASE [Next]_vars
      BY <1>1, <3>2, SettlingStep DEF PowerInv, IInv
    <3> QED
      BY <3>1, <3>2 DEF PowerNext, PipelineNext, powerVars
  <2>3. Settling => CompletedMeansSettled
    BY DEF Settling, CompletedMeansSettled, PendingRows
  <2> QED
    BY <2>1, <2>2, <2>3, PowerInvariance, PTL DEF PowerSpec
<1>2. CASE "dbwrite" \in Faults
  <2>1. CompletedMeansSettled
    BY <1>2 DEF CompletedMeansSettled
  <2> QED
    BY <2>1, PTL
<1> QED
  BY <1>1, <1>2

-----------------------------------------------------------------------------
(* No mail twice *)

\* The faults that do duplicate mail are not among those of the instance.
NoDuplicatingFault == Faults \cap {"entryid", "delete", "index", "folder"} = {}

Single ==
  \A m, n \in pst : m.row = n.row /\ Converted(m) /\ Converted(n) => m = n

\* From the source on, and until something is saved, the row has no conversion.
NotConverted ==
  pc \in {"source", "convert", "failed", "fallback", "fallbackSaved"} =>
    \A m \in pst : Converted(m) => m.row # row

\* A first run has saved nothing for the rows it has yet to visit.
FirstRunIsFresh ==
  /\ run = 0 => pst = {}
  /\ pc \notin {"off", "exit"} => run # 0
  /\ ~resumeMode /\ pc \notin {"off", "exit"} => \A m \in pst : m.row \notin todo

\* For rows still to be recovered, the index holds what the folders held.
IndexComplete ==
  \A m \in pst :
    /\ Converted(m) /\ Target[m.row] \in indexed
    /\ m.row \in todo \/ (pc = "adopt" /\ m.row = row)
    => m \in resumeIndex

SingleInv ==
  /\ LoopInv /\ MessageInv /\ SaveInv
  /\ Single /\ NotConverted /\ FirstRunIsFresh /\ IndexComplete

\* Reading a folder's messages completes the index for that folder.
LEMMA IndexRead ==
  ASSUME IndexComplete, pst' = pst, todo' = todo, pc' # "adopt",
         resumeIndex' = KnownMessages, indexed' = indexed \cup {Target[row]}
  PROVE  IndexComplete'
<1> SUFFICES ASSUME NEW m \in pst, Converted(m), Target[m.row] \in indexed', m.row \in todo
             PROVE  m \in KnownMessages
  BY DEF IndexComplete, Converted
<1>1. CASE Target[m.row] \in indexed
  BY <1>1 DEF IndexComplete, KnownMessages
<1>2. CASE Target[m.row] = Target[row]
  <2>1. FolderOf(m) = Target[row]
    BY <1>2 DEF FolderOf, Converted
  <2>2. CASE Target[row] \in indexed
    BY <1>2, <2>2 DEF IndexComplete, KnownMessages
  <2>3. CASE Target[row] \notin indexed
    BY <2>1, <2>3 DEF KnownMessages
  <2> QED
    BY <2>2, <2>3
<1> QED
  BY <1>1, <1>2

\* Every step of the pipeline keeps the conversion of a row single.
LEMMA SingleStep ==
  ASSUME NoDuplicatingFault, SingleInv, [Next]_vars
  PROVE  (Single /\ NotConverted /\ FirstRunIsFresh /\ IndexComplete)'
<1> USE DEF NoDuplicatingFault, SingleInv, Single, NotConverted, FirstRunIsFresh, IndexComplete,
        Converted, FolderOf, InRow, LeaveLoop, durableVars, viewVars, rowVars, cacheVars,
        loopVars, processVars, FreshRun, FreshRow
<1>1. CASE \E r \in Row : BeginRow(r)
  BY <1>1 DEF BeginRow
<1>2. CASE BeginFails
  BY <1>2 DEF BeginFails, DatabaseFails
<1>3. CASE HonourCancel
  BY <1>3 DEF HonourCancel
<1>4. CASE LoopEnds
  BY <1>4 DEF LoopEnds
<1>5. CASE AdoptOne
  <2>1. /\ pst' = pst /\ row' = row /\ todo' = todo /\ pc = "adopt"
        /\ pc' \in {"rowDone", "commit"} /\ resumeMode' = resumeMode /\ run' = run
        /\ resumeIndex' = KnownMessages /\ indexed' = indexed \cup {Target[row]}
    BY <1>5 DEF AdoptOne, ReadIndex
  <2>2. IndexComplete'
    BY <2>1, IndexRead
  <2> QED
    BY <2>1, <2>2
<1>6. CASE AdoptNone
  <2>1. /\ pst' = pst /\ row' = row /\ todo' = todo /\ pc = "adopt" /\ pc' = "source"
        /\ resumeMode' = resumeMode /\ run' = run /\ Matches = {} /\ InRow
        /\ resumeIndex' = KnownMessages /\ indexed' = indexed \cup {Target[row]}
    BY <1>6 DEF AdoptNone, ReadIndex
  <2>2. row \in Row
    BY <2>1 DEF LoopInv, RowAtWork
  <2>3. \A m \in pst : Converted(m) /\ m.row = row => m \in KnownMessages
    BY <2>1 DEF KnownMessages, IndexComplete
  <2>4. \A m \in pst : Converted(m) => m.row # row
    BY <2>1, <2>3 DEF Matches
  <2>5. IndexComplete'
    BY <2>1, IndexRead
  <2> QED
    BY <2>1, <2>4, <2>5
<1>7. CASE AdoptMany
  <2>1. /\ pst' = pst /\ row' = row /\ todo' = todo /\ pc = "adopt"
        /\ pc' \in {"rowDone", "commit"} /\ resumeMode' = resumeMode /\ run' = run
        /\ resumeIndex' = KnownMessages /\ indexed' = indexed \cup {Target[row]}
    BY <1>7 DEF AdoptMany, ReadIndex
  <2>2. IndexComplete'
    BY <2>1, IndexRead
  <2> QED
    BY <2>1, <2>2
<1>8. CASE AdoptUnreadable
  BY <1>8 DEF AdoptUnreadable, FolderFails
<1>9. CASE SourceUnreadable
  BY <1>9 DEF SourceUnreadable, RecordReadFailure
<1>10. CASE SourceRead
  BY <1>10 DEF SourceRead
<1>11. CASE ConvertFails
  BY <1>11 DEF ConvertFails, FailAttempt
<1>12. CASE SaveChanges
  <2>1. PICK k \in {"converted", "corrupt"} : SaveMessage(k)
    BY <1>12 DEF SaveChanges
  <2>2. /\ pc = "convert" /\ pc' = "saved" /\ row' = row /\ todo' = todo /\ InRow
        /\ resumeMode' = resumeMode /\ run' = run /\ run # 0 /\ row \notin todo
        /\ resumeIndex' = resumeIndex /\ indexed' = indexed
    BY <1>12 DEF SaveChanges, LoopInv, RowAtWork
  <2>3. pst' = pst \cup {[id |-> nextId, row |-> row, kind |-> k]}
    BY <2>1 DEF SaveMessage
  <2> QED
    BY <2>2, <2>3
<1>13. CASE EntryIdFails
  BY <1>13 DEF EntryIdFails
<1>14. CASE IntegrityRejects
  <2>1. /\ pc = "saved" /\ pst' = {m \in pst : m.id # saved}
        /\ row' = row /\ todo' = todo /\ resumeMode' = resumeMode /\ run' = run
        /\ resumeIndex' = resumeIndex /\ indexed' = indexed /\ pc' \in {"convert", "failed"}
    BY <1>14 DEF IntegrityRejects, FailAttempt
  <2>2. PICK m \in pst : m.id = saved /\ m.row = row /\ Converted(m)
    BY <2>1 DEF SaveInv
  <2>3. \A n \in pst' : Converted(n) => n.row # row
    BY <2>1, <2>2
  <2> QED
    BY <2>1, <2>3
<1>15. CASE ImportSucceeds
  BY <1>15 DEF ImportSucceeds
<1>16. CASE StreamFailed
  BY <1>16 DEF StreamFailed, RecordReadFailure
<1>17. CASE BreakerTrips
  BY <1>17 DEF BreakerTrips
<1>18. CASE ConversionFailed
  BY <1>18 DEF ConversionFailed
<1>19. CASE FallbackSaves
  <2>1. /\ pst' = pst \cup {[id |-> nextId, row |-> row, kind |-> "fallback"]}
        /\ pc = "fallback" /\ pc' = "fallbackSaved" /\ row' = row /\ todo' = todo
        /\ resumeMode' = resumeMode /\ run' = run
        /\ resumeIndex' = resumeIndex /\ indexed' = indexed
    BY <1>19 DEF FallbackSaves, SaveMessage
  <2>2. row \notin todo
    BY <2>1 DEF LoopInv, RowAtWork
  <2> QED
    BY <2>1, <2>2
<1>20. CASE FallbackSucceeds
  BY <1>20 DEF FallbackSucceeds
<1>21. CASE FallbackFails
  BY <1>21 DEF FallbackFails
<1>22. CASE BatchGoesOn
  BY <1>22 DEF BatchGoesOn
<1>23. CASE BatchFull
  BY <1>23 DEF BatchFull, Commit
<1>24. CASE FinalCommit
  BY <1>24 DEF FinalCommit, Commit
<1>25. CASE CommitFails
  BY <1>25 DEF CommitFails, DatabaseFails
<1>26. CASE CountFails
  BY <1>26 DEF CountFails, Commit
<1>27. CASE StartRun(run > 0)
  <2>1. pst' = pst /\ run' = run + 1 /\ run \in Nat /\ indexed' = {} /\ pc' = "loop"
    BY <1>27 DEF StartRun, LoopInv, TypeLoop
  <2>2. resumeMode' = (run > 0)
    BY <1>27 DEF StartRun
  <2>3. run' # 0
    BY <2>1
  <2>4. ~resumeMode' => pst = {}
    <3>1. CASE run > 0
      BY <2>2, <3>1, Zenon
    <3>2. CASE ~(run > 0)
      BY <2>1, <3>2 DEF FirstRunIsFresh
    <3> QED
      BY <3>1, <3>2
  <2> QED
    BY <2>1, <2>3, <2>4
<1>28. CASE Crash
  BY <1>28 DEF Crash
<1>29. CASE RequestCancel
  BY <1>29 DEF RequestCancel
<1>30. CASE Stopped
  BY <1>30 DEF Stopped, vars
<1>31. CASE UNCHANGED vars
  BY <1>31 DEF vars
<1> QED
  BY <1>1, <1>2, <1>3, <1>4, <1>5, <1>6, <1>7, <1>8, <1>9, <1>10, <1>11,
     <1>12, <1>13, <1>14, <1>15, <1>16, <1>17, <1>18, <1>19, <1>20, <1>21,
     <1>22, <1>23, <1>24, <1>25, <1>26, <1>27, <1>28, <1>29, <1>30, <1>31
  DEF Next, PipelineStep

\* A power failure keeps the conversion of a row single.
LEMMA PowerStep == SingleInv /\ PowerFails => SingleInv'
<1> SUFFICES ASSUME SingleInv, PowerFails PROVE SingleInv'
  OBVIOUS
<1>1. LoopInv' /\ MessageInv' /\ SaveInv'
  BY FailureKeeps DEF SingleInv
<1>2. (Single /\ NotConverted /\ FirstRunIsFresh /\ IndexComplete)'
  BY DEF SingleInv, PowerFails, FreshRun, FreshRow, processVars, Single, NotConverted,
         FirstRunIsFresh, IndexComplete
<1> QED
  BY <1>1, <1>2 DEF SingleInv

\* The invariant is inductive for the pipeline under power failures.
LEMMA SingleInvariance == ASSUME NoDuplicatingFault PROVE PowerSpec => []SingleInv
<1>1. PowerInit => SingleInv
  <2> SUFFICES ASSUME PowerInit PROVE SingleInv
    OBVIOUS
  <2>1. LoopInv /\ MessageInv /\ SaveInv
    BY InitIInv DEF PowerInit, IInv
  <2> QED
    BY <2>1 DEF PowerInit, Init, SingleInv, Single, NotConverted, FirstRunIsFresh, IndexComplete
<1>2. SingleInv /\ [PowerNext]_powerVars => SingleInv'
  <2> SUFFICES ASSUME SingleInv, [PowerNext]_powerVars PROVE SingleInv'
    OBVIOUS
  <2>1. CASE PowerFails
    BY <2>1, PowerStep
  <2>2. CASE [Next]_vars
    <3>1. LoopInv' /\ MessageInv' /\ SaveInv'
      BY <2>2, LoopStep, MessageStep, SaveStep DEF SingleInv
    <3> QED
      BY <2>2, <3>1, NoDuplicatingFault, SingleStep DEF SingleInv
  <2> QED
    BY <2>1, <2>2 DEF PowerNext, PipelineNext, powerVars
<1> QED
  BY <1>1, <1>2, PTL DEF PowerSpec

\* No file ever has two converted messages in the PST, for any number of files,
\* folders, batches, runs, crashes and power failures, unless a failing entry-id
\* read, delete, folder or resume index makes the code save again.
THEOREM NoMailTwice == PowerSpec => []OneConversionPerRow
<1>1. CASE NoDuplicatingFault
  <2>1. SingleInv => OneConversionPerRow
    BY DEF SingleInv, Single, OneConversionPerRow
  <2> QED
    BY <1>1, <2>1, SingleInvariance, PTL
<1>2. CASE ~NoDuplicatingFault
  <2>1. OneConversionPerRow
    BY <1>2 DEF OneConversionPerRow, NoDuplicatingFault
  <2> QED
    BY <2>1, PTL
<1> QED
  BY <1>1, <1>2

-----------------------------------------------------------------------------
(* The crash window *)

\* The files of the property: messages in the PST, none of them accounted for.
Exposed == {r \in Row \ lost : rows[r].status = "PENDING" /\ \E m \in pst : m.row = r}

\* The files without a committed result up to file b, those apart whose results
\* went with the power.
OpenUpTo(b) == {s \in PendingRows \ lost : s <= b}

\* The window does not only hold few files: its last one is among the first
\* BatchSize open files.  This is what makes it stay small over several crashes, as
\* every run begins with the first open files again.
WindowTop ==
  \E b \in 0..NRows : /\ \A r \in Exposed : r <= b
                      /\ Cardinality(OpenUpTo(b)) <= BatchSize

\* The open files that the loop has passed, the row at work among them.
Passed == PendingRows \ todo

\* The loop goes by ascending ids, and what it has passed since the last commit fits
\* the batch.
BatchInv ==
  /\ pc \notin {"off", "exit"} => batchOpen < BatchSize
  /\ pc = "loop" => Cardinality(Passed) <= IF tx THEN batchOpen ELSE 0
  /\ InRow \/ pc = "rowDone" => tx /\ Cardinality(Passed) <= batchOpen + 1
  /\ \A r \in Passed, s \in todo : r < s
  /\ InRow => \A s \in todo : row < s

\* Sets of rows can be counted, and a part never counts more than the whole.
LEMMA RowCount ==
  ASSUME NEW S \in SUBSET Row
  PROVE  /\ IsFiniteSet(S) /\ Cardinality(S) \in Nat
         /\ \A T \in SUBSET S : Cardinality(T) <= Cardinality(S)
<1>1. NRows \in Nat
  BY ConstantsOK DEF Assumptions
<1>2. IsFiniteSet(Row)
  BY <1>1, FS_Interval DEF Row
<1>3. IsFiniteSet(S)
  BY <1>2, FS_Subset
<1>4. Cardinality(S) \in Nat
  BY <1>3, FS_CardinalityType
<1> QED
  BY <1>3, <1>4, FS_Subset

\* Where the loop stands, as far as the window is concerned, before and after a step
\* inside process_row.
InsideRow ==
  /\ InRow /\ (InRow \/ pc \in {"rowDone", "commit"})'
  /\ rows' = rows /\ todo' = todo /\ row' = row /\ tx' = tx /\ batchOpen' = batchOpen

\* A step inside process_row passes no row and leaves the batch open.
LEMMA InsideRowKeeps == ASSUME BatchInv, InsideRow PROVE BatchInv'
<1>1. Passed' = Passed
  BY DEF Passed, PendingRows, InsideRow
<1>2. pc \notin {"off", "exit"} /\ pc' # "loop"
  BY DEF InsideRow, InRow
<1> QED
  BY <1>1, <1>2 DEF BatchInv, InsideRow

\* A step that ends the process, or finds it ended, leaves nothing to count.
LEMMA EndedKeeps ==
  ASSUME pc' \in {"off", "exit"}, todo' = {} PROVE BatchInv'
  BY DEF BatchInv, InRow

\* Every step keeps the batch within its size and the loop in order.
LEMMA BatchStep ==
  ASSUME "dbwrite" \notin Faults, IInv, Settling, BatchInv, [Next]_vars
  PROVE  BatchInv'
<1> USE DEF LeaveLoop, durableVars, viewVars, rowVars, cacheVars, loopVars, processVars,
        FreshRun, FreshRow
<1>0. /\ BatchSize \in Nat \ {0} /\ batchOpen \in Nat /\ todo \in SUBSET Row
      /\ Passed \in SUBSET Row /\ Cardinality(Passed) \in Nat
  <2>1. BatchSize \in Nat \ {0} /\ batchOpen \in Nat /\ todo \in SUBSET Row
    BY ConstantsOK DEF Assumptions, IInv, LoopInv, TypeLoop
  <2>2. Passed \in SUBSET Row
    BY DEF Passed, PendingRows
  <2> QED
    BY <2>1, <2>2, RowCount
<1>1. CASE \E r \in Row : BeginRow(r)
  <2>1. PICK r \in Row : BeginRow(r)
    BY <1>1
  <2>2. /\ r \in todo /\ \A s \in todo : r <= s
        /\ pc = "loop" /\ pc' \in {"adopt", "source"} /\ tx' = TRUE
        /\ batchOpen' = (IF tx THEN batchOpen ELSE 0)
        /\ todo' = todo \ {r} /\ row' = r /\ rows' = rows
    BY <2>1 DEF BeginRow
  <2>3. Passed' \in SUBSET (Passed \cup {r})
    BY <2>2 DEF Passed, PendingRows
  <2>4. /\ IsFiniteSet(Passed) /\ Cardinality(Passed \cup {r}) <= Cardinality(Passed) + 1
        /\ Cardinality(Passed \cup {r}) \in Nat /\ Passed \cup {r} \in SUBSET Row
    BY <1>0, RowCount, FS_AddElement
  <2>5. Cardinality(Passed') <= Cardinality(Passed \cup {r}) /\ Cardinality(Passed') \in Nat
    <3>1. Passed' \in SUBSET Row
      BY <2>3, <2>4
    <3> QED
      BY <2>3, <2>4, <3>1, RowCount
  <2>6. Cardinality(Passed') <= batchOpen' + 1 /\ batchOpen' < BatchSize
    BY <1>0, <2>2, <2>4, <2>5 DEF BatchInv
  <2>7. \A s \in todo' : r < s
    BY <1>0, <2>2 DEF Row
  <2>8. \A q \in Passed', s \in todo' : q < s
    BY <2>2, <2>3, <2>7 DEF BatchInv
  <2> QED
    BY <2>2, <2>6, <2>7, <2>8 DEF BatchInv, InRow
<1>2. CASE BeginFails
  BY <1>2, EndedKeeps DEF BeginFails, DatabaseFails
<1>3. CASE HonourCancel \/ LoopEnds
  <2>1. /\ pc = "loop" /\ pc' = "commit" /\ rows' = rows /\ todo' = todo
        /\ batchOpen' = batchOpen
    BY <1>3 DEF HonourCancel, LoopEnds
  <2>2. Passed' = Passed
    BY <2>1 DEF Passed, PendingRows
  <2> QED
    BY <2>1, <2>2 DEF BatchInv, InRow
<1>5. CASE AdoptOne
  BY <1>5, InsideRowKeeps DEF AdoptOne, ReadIndex, InsideRow, InRow
<1>6. CASE AdoptNone
  BY <1>6, InsideRowKeeps DEF AdoptNone, ReadIndex, InsideRow, InRow
<1>7. CASE AdoptMany
  BY <1>7, InsideRowKeeps DEF AdoptMany, ReadIndex, InsideRow, InRow
<1>8. CASE AdoptUnreadable
  BY <1>8, InsideRowKeeps DEF AdoptUnreadable, InsideRow, InRow
<1>9. CASE SourceUnreadable
  BY <1>9, InsideRowKeeps DEF SourceUnreadable, RecordReadFailure, InsideRow, InRow
<1>10. CASE SourceRead
  BY <1>10, InsideRowKeeps DEF SourceRead, InsideRow, InRow
<1>11. CASE ConvertFails
  BY <1>11, InsideRowKeeps DEF ConvertFails, FailAttempt, InsideRow, InRow
<1>12. CASE SaveChanges
  BY <1>12, InsideRowKeeps DEF SaveChanges, InsideRow, InRow
<1>13. CASE EntryIdFails
  BY <1>13, InsideRowKeeps DEF EntryIdFails, FailAttempt, InsideRow, InRow
<1>14. CASE IntegrityRejects
  BY <1>14, InsideRowKeeps DEF IntegrityRejects, FailAttempt, InsideRow, InRow
<1>15. CASE ImportSucceeds
  BY <1>15, InsideRowKeeps DEF ImportSucceeds, InsideRow, InRow
<1>16. CASE StreamFailed
  BY <1>16, InsideRowKeeps DEF StreamFailed, RecordReadFailure, InsideRow, InRow
<1>17. CASE BreakerTrips
  BY <1>17, InsideRowKeeps DEF BreakerTrips, InsideRow, InRow
<1>18. CASE ConversionFailed
  BY <1>18, InsideRowKeeps DEF ConversionFailed, InsideRow, InRow
<1>19. CASE FallbackSaves
  BY <1>19, InsideRowKeeps DEF FallbackSaves, InsideRow, InRow
<1>20. CASE FallbackSucceeds
  BY <1>20, InsideRowKeeps DEF FallbackSucceeds, InsideRow, InRow
<1>21. CASE FallbackFails
  BY <1>21, InsideRowKeeps DEF FallbackFails, InsideRow, InRow
<1>22. CASE BatchGoesOn
  <2>1. /\ pc = "rowDone" /\ pc' = "loop" /\ rows' = rows /\ todo' = todo /\ tx' = tx
        /\ batchOpen' = batchOpen + 1 /\ ~(batchOpen + 1 >= BatchSize)
    BY <1>22 DEF BatchGoesOn, BatchIsFull
  <2>2. Passed' = Passed
    BY <2>1 DEF Passed, PendingRows
  <2> QED
    BY <1>0, <2>1, <2>2 DEF BatchInv, InRow
<1>23. CASE BatchFull
  <2>1. /\ pc = "rowDone" /\ pc' = "loop" /\ rows' = txRows /\ todo' = todo
        /\ batchOpen' = 0 /\ tx' = FALSE
    BY <1>23 DEF BatchFull, Commit
  <2>2. Passed' = {}
    BY <2>1 DEF Passed, PendingRows, Settling, InRow
  <2> QED
    BY <1>0, <2>1, <2>2, FS_EmptySet DEF BatchInv, InRow
<1>24. CASE FinalCommit
  BY <1>24, EndedKeeps DEF FinalCommit
<1>25. CASE CommitFails
  BY <1>25, EndedKeeps DEF CommitFails, DatabaseFails
<1>26. CASE CountFails
  BY <1>26, EndedKeeps DEF CountFails
<1>27. CASE StartRun(run > 0)
  <2>1. /\ pc' = "loop" /\ rows' = rows /\ todo' = PendingRows /\ batchOpen' = 0
        /\ tx' = tx /\ pc \in {"off", "exit"}
    BY <1>27 DEF StartRun
  <2>2. Passed' = {} /\ ~tx
    BY <2>1 DEF Passed, PendingRows, IInv, RowInv
  <2> QED
    BY <1>0, <2>1, <2>2, FS_EmptySet DEF BatchInv, InRow
<1>28. CASE Crash
  BY <1>28, EndedKeeps DEF Crash
<1>29. CASE RequestCancel \/ Stopped \/ UNCHANGED vars
  <2>1. /\ pc' = pc /\ rows' = rows /\ todo' = todo /\ tx' = tx
        /\ batchOpen' = batchOpen /\ row' = row
    BY <1>29 DEF RequestCancel, Stopped, vars
  <2>2. Passed' = Passed
    BY <2>1 DEF Passed, PendingRows
  <2> QED
    BY <2>1, <2>2 DEF BatchInv, InRow
<1> QED
  BY <1>1, <1>2, <1>3, <1>5, <1>6, <1>7, <1>8, <1>9, <1>10, <1>11,
     <1>12, <1>13, <1>14, <1>15, <1>16, <1>17, <1>18, <1>19, <1>20, <1>21,
     <1>22, <1>23, <1>24, <1>25, <1>26, <1>27, <1>28, <1>29
  DEF Next, PipelineStep

\* What neither exposes a file nor reopens one keeps the window.
LEMMA WindowKept ==
  ASSUME WindowTop, Exposed' \subseteq Exposed,
         (PendingRows \ lost)' \subseteq PendingRows \ lost
  PROVE  WindowTop'
<1>1. PICK b \in 0..NRows : /\ \A r \in Exposed : r <= b
                            /\ Cardinality(OpenUpTo(b)) <= BatchSize
  BY DEF WindowTop
<1> DEFINE before == OpenUpTo(b)
           after  == {s \in (PendingRows \ lost)' : s <= b}
<1>2. before \in SUBSET Row /\ after \in SUBSET before
  BY DEF OpenUpTo, PendingRows
<1>3. after \in SUBSET Row
  BY <1>2
<1>4. BatchSize \in Nat /\ Cardinality(before) \in Nat /\ Cardinality(after) \in Nat
  BY <1>2, <1>3, RowCount, ConstantsOK DEF Assumptions
<1>5. Cardinality(after) <= Cardinality(before)
  BY <1>2, RowCount
<1>6. Cardinality(after) <= BatchSize
  BY <1>1, <1>4, <1>5
<1>7. \A r \in Exposed' : r <= b
  BY <1>1
<1>8. \E a \in 0..NRows : /\ \A r \in Exposed' : r <= a
                          /\ Cardinality({s \in (PendingRows \ lost)' : s <= a}) <= BatchSize
  BY <1>6, <1>7
<1> QED
  BY <1>8 DEF WindowTop, OpenUpTo

\* A message saved for the row at work exposes that row at most, and the open files
\* up to it are among those of the batch.
LEMMA WindowMoves ==
  ASSUME IInv, BatchInv, WindowTop, InRow, rows' = rows, lost' = lost,
         NEW k \in Kind, SaveMessage(k)
  PROVE  WindowTop'
<1>1. PICK b \in 0..NRows : /\ \A r \in Exposed : r <= b
                            /\ Cardinality(OpenUpTo(b)) <= BatchSize
  BY DEF WindowTop
<1>2. row \in Row /\ BatchSize \in Nat /\ NRows \in Nat /\ batchOpen \in Nat
  BY RowAtWorkPending, ConstantsOK DEF Assumptions, IInv, LoopInv, TypeLoop
<1>3. Exposed' \subseteq Exposed \cup {row}
  <2>1. \A m \in pst' : m \in pst \/ m.row = row
    BY DEF SaveMessage
  <2> QED
    BY <2>1 DEF Exposed
<1>4. PendingRows' = PendingRows
  BY DEF PendingRows
<1>5. CASE row <= b
  <2>1. \A r \in Exposed' : r <= b
    BY <1>1, <1>3, <1>5
  <2> QED
    BY <1>1, <1>4, <2>1 DEF WindowTop, OpenUpTo
<1>6. CASE ~(row <= b)
  <2>1. \A r \in Exposed' : r <= row
    <3>1. \A r \in Exposed : r \in Row /\ r <= row
      BY <1>1, <1>2, <1>6 DEF Exposed, Row
    <3> QED
      BY <1>2, <1>3, <3>1 DEF Row
  <2>2. OpenUpTo(row) \in SUBSET Passed
    <3> SUFFICES ASSUME NEW s \in PendingRows, s <= row, s \in todo PROVE FALSE
      BY DEF OpenUpTo, Passed
    <3>1. row < s
      BY DEF BatchInv
    <3> QED
      BY <1>2, <3>1 DEF PendingRows, Row
  <2>3. Passed \in SUBSET Row
    BY DEF Passed, PendingRows
  <2>4. /\ Cardinality(OpenUpTo(row)) <= Cardinality(Passed)
        /\ Cardinality(Passed) \in Nat /\ Cardinality(OpenUpTo(row)) \in Nat
    BY <2>2, <2>3, RowCount
  <2>5. Cardinality(Passed) <= batchOpen + 1 /\ batchOpen < BatchSize
    BY DEF BatchInv, InRow
  <2>6. Cardinality(OpenUpTo(row)) <= BatchSize
    BY <1>2, <2>4, <2>5
  <2>7. row \in 0..NRows
    BY <1>2 DEF Row
  <2> QED
    BY <1>4, <2>1, <2>6, <2>7 DEF WindowTop, OpenUpTo
<1> QED
  BY <1>5, <1>6

\* Every step of the pipeline keeps the window.
LEMMA WindowStep ==
  ASSUME IInv, BatchInv, WindowTop, [Next]_vars, UNCHANGED lost
  PROVE  WindowTop'
<1>1. CASE pst' = pst /\ rows' \in {rows, txRows}
  <2>1. \A r \in Row : rows'[r].status = "PENDING" => rows[r].status = "PENDING"
    BY <1>1 DEF IInv, RowInv
  <2> QED
    BY <1>1, <2>1, WindowKept DEF Exposed, PendingRows
<1>2. CASE rows' = rows /\ InRow /\ \E k \in Kind : SaveMessage(k)
  BY <1>2, WindowMoves
<1>3. CASE rows' = rows /\ pc = "saved" /\ pst' = {m \in pst : m.id # saved}
  BY <1>3, WindowKept DEF Exposed, PendingRows
<1> QED
  BY <1>1, <1>2, <1>3, StoreStep DEF StoreMove

\* A power failure ends the process, and what it reopens it also marks as lost.
LEMMA WindowFails ==
  ASSUME BatchInv, WindowTop, PowerFails PROVE BatchInv' /\ WindowTop'
<1>1. BatchInv'
  BY EndedKeeps DEF PowerFails
<1>2. \A r \in Row \ lost' : r \notin lost /\ rows'[r] = rows[r]
  BY DEF PowerFails
<1>3. WindowTop'
  BY <1>2, WindowKept DEF PowerFails, Exposed, PendingRows
<1> QED
  BY <1>1, <1>3

\* However many crashes and power failures there are, at no time do more than
\* BatchSize files have messages in the PST that no committed row accounts for, apart
\* from files whose committed results the power took back, as long as no row update
\* is lost.
THEOREM WindowSmall == PowerSpec => []WindowBounded
<1>1. CASE "dbwrite" \notin Faults
  <2>1. PowerInit => Settling /\ BatchInv /\ WindowTop
    <3> SUFFICES ASSUME PowerInit PROVE Settling /\ BatchInv /\ WindowTop
      OBVIOUS
    <3>1. Settling /\ BatchInv
      BY DEF PowerInit, Init, Settling, BatchInv, InRow
    <3>2. Exposed = {} /\ OpenUpTo(0) = {}
      BY DEF PowerInit, Init, Exposed, OpenUpTo, PendingRows, Row
    <3>3. 0 \in 0..NRows /\ BatchSize \in Nat
      BY ConstantsOK DEF Assumptions
    <3> QED
      BY <3>1, <3>2, <3>3, FS_EmptySet DEF WindowTop
  <2>2. /\ PowerInv /\ Settling /\ BatchInv /\ WindowTop
        /\ [PowerNext]_powerVars
        => Settling' /\ BatchInv' /\ WindowTop'
    <3> SUFFICES ASSUME PowerInv, Settling, BatchInv, WindowTop, [PowerNext]_powerVars
                 PROVE  Settling' /\ BatchInv' /\ WindowTop'
      OBVIOUS
    <3>1. CASE PowerFails
      <4>1. Settling'
        BY <3>1 DEF PowerFails, Settling
      <4> QED
        BY <3>1, <4>1, WindowFails
    <3>2. CASE [Next]_vars /\ UNCHANGED lost
      BY <1>1, <3>2, SettlingStep, BatchStep, WindowStep DEF PowerInv, IInv
    <3> QED
      BY <3>1, <3>2 DEF PowerNext, PipelineNext, powerVars
  <2>3. WindowTop => WindowBounded
    <3> SUFFICES ASSUME WindowTop PROVE Cardinality(Exposed) <= BatchSize
      BY DEF WindowBounded, Exposed
    <3>1. PICK b \in 0..NRows : /\ \A r \in Exposed : r <= b
                                /\ Cardinality(OpenUpTo(b)) <= BatchSize
      BY DEF WindowTop
    <3>2. Exposed \in SUBSET OpenUpTo(b) /\ OpenUpTo(b) \in SUBSET Row
      BY <3>1 DEF Exposed, OpenUpTo, PendingRows
    <3>3. Exposed \in SUBSET Row
      BY <3>2
    <3>4. /\ Cardinality(Exposed) <= Cardinality(OpenUpTo(b))
          /\ Cardinality(Exposed) \in Nat /\ Cardinality(OpenUpTo(b)) \in Nat
      BY <3>2, <3>3, RowCount
    <3> QED
      BY <3>1, <3>4, ConstantsOK DEF Assumptions
  <2> QED
    BY <2>1, <2>2, <2>3, PowerInvariance, PTL DEF PowerSpec
<1>2. CASE "dbwrite" \in Faults
  <2>1. WindowBounded
    BY <1>2 DEF WindowBounded
  <2> QED
    BY <2>1, PTL
<1> QED
  BY <1>1, <1>2
=============================================================================
