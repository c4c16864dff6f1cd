------------------------ MODULE ImportPipelineProofs ------------------------
(***************************************************************************)
(* Theorems about ImportPipeline for every manifest, folder assignment,    *)
(* batch size, breaker threshold, number of restarts and set of faults.    *)
(*                                                                         *)
(* The inductive invariant is built in layers, each proved to be preserved *)
(* with the help of the ones below it:                                     *)
(*   LoopInv      types of the process's control state                     *)
(*   MessageInv   types of the messages; what is cached was saved          *)
(*   RowInv       types of the rows; the open batch is ahead of the        *)
(*                committed rows and only in rows the loop has passed       *)
(*   SaveInv      entry ids are unique and the message just saved is there *)
(*   RecordedIsSaved                                                       *)
(***************************************************************************)
EXTENDS ImportPipeline, TLAPS

Assumptions ==
  /\ NRows \in Nat \ {0} /\ Target \in [1..NRows -> Folder]
  /\ BatchSize \in Nat \ {0} /\ Threshold \in Nat \ {0} /\ MaxRuns \in Nat \ {0}
  /\ ErrorsFolder \notin Folder

\* process_row is at work on a row and has not settled it.
InRow == pc \in {"adopt", "source", "convert", "saved", "failed", "fallback",
                 "fallbackSaved"}

\* The row at work is one of the manifest and no longer in the loop's list.
RowAtWork == InRow => row \in Row /\ row \notin todo

\* The breaker has not tripped as long as the loop goes on.
BreakerBelow == pc \notin {"commit", "exit"} => consecutiveSystemic < Threshold

LoopInv == TypeLoop /\ RowAtWork /\ BreakerBelow

MessageInv ==
  /\ TypeMessages
  /\ resumeIndex \subseteq pst
  /\ \A m \in resumeIndex : Converted(m)

RowInv ==
  /\ TypeRows
  /\ ~tx => txRows = rows
  /\ pc \in {"off", "exit"} => ~tx
  /\ \A r \in Row : rows[r].status # "PENDING" => txRows[r] = rows[r]
  /\ \A r \in todo : txRows[r].status = "PENDING"
  /\ InRow => tx /\ txRows[row].status = "PENDING"

SaveInv ==
  /\ \A m \in pst : m.id < nextId
  /\ \A m, n \in pst : m.id = n.id => m = n
  /\ pc = "saved" => \E m \in pst : m.id = saved /\ m.row = row /\ Converted(m)
  /\ pc = "saved" => \A m \in resumeIndex : m.id # saved
  /\ pc = "fallbackSaved" => \E m \in pst : m.row = row /\ ~Converted(m)

IInv == LoopInv /\ MessageInv /\ RowInv /\ SaveInv /\ RecordedIsSaved

\* The assumptions on the constants, under one name.
LEMMA ConstantsOK == Assumptions
  BY NRowsAssumption, TargetAssumption, BatchSizeAssumption, ThresholdAssumption,
     MaxRunsAssumption, FolderAssumption
  DEF Assumptions, ErrorsFolder

-----------------------------------------------------------------------------
(* The control state *)

\* Every action keeps the control state: the counters, and the batch open exactly
\* while rows are at work.
LEMMA LoopStep == LoopInv /\ [Next]_vars => LoopInv'
<1> SUFFICES ASSUME LoopInv, [Next]_vars PROVE LoopInv'
  OBVIOUS
<1> USE ConstantsOK
    DEF LoopInv, TypeLoop, RowAtWork, BreakerBelow, InRow, Assumptions, Row,
        Location, ErrorClass, Outcome, durableVars, viewVars, rowVars,
        cacheVars, loopVars, processVars, FreshRun, FreshRow, LeaveLoop, Systemic, Trips
<1>1. CASE \E r \in Row : BeginRow(r)
  BY <1>1 DEF BeginRow
<1>2. CASE BeginFails
  BY <1>2 DEF BeginFails, DatabaseFails
<1>3. CASE HonourCancel
  BY <1>3 DEF HonourCancel
<1>4. CASE LoopEnds
  BY <1>4 DEF LoopEnds
<1>5. CASE AdoptOne
  BY <1>5 DEF AdoptOne, ReadIndex
<1>6. CASE AdoptNone
  BY <1>6 DEF AdoptNone, ReadIndex
<1>7. CASE AdoptMany
  BY <1>7 DEF AdoptMany, ReadIndex
<1>8. CASE AdoptUnreadable
  BY <1>8 DEF AdoptUnreadable
<1>9. CASE SourceUnreadable
  BY <1>9 DEF SourceUnreadable, RecordReadFailure
<1>10. CASE SourceRead
  BY <1>10 DEF SourceRead
<1>11. CASE ConvertFails
  BY <1>11 DEF ConvertFails, FailAttempt
<1>12. CASE SaveChanges
  BY <1>12 DEF SaveChanges
<1>13. CASE EntryIdFails
  BY <1>13 DEF EntryIdFails, FailAttempt
<1>14. CASE IntegrityRejects
  BY <1>14 DEF IntegrityRejects, FailAttempt
<1>15. CASE ImportSucceeds
  BY <1>15 DEF ImportSucceeds
<1>16. CASE StreamFailed
  BY <1>16 DEF StreamFailed, RecordReadFailure
<1>17. CASE BreakerTrips
  BY <1>17 DEF BreakerTrips
<1>18. CASE ConversionFailed
  BY <1>18 DEF ConversionFailed
<1>19. CASE FallbackSaves
  BY <1>19 DEF FallbackSaves
<1>20. CASE FallbackSucceeds
  BY <1>20 DEF FallbackSucceeds
<1>21. CASE FallbackFails
  BY <1>21 DEF FallbackFails
<1>22. CASE BatchGoesOn
  BY <1>22 DEF BatchGoesOn, BatchIsFull
<1>23. CASE BatchFull
  BY <1>23 DEF BatchFull, BatchIsFull
<1>24. CASE FinalCommit
  BY <1>24 DEF FinalCommit
<1>25. CASE CommitFails
  BY <1>25 DEF CommitFails, DatabaseFails
<1>26. CASE CountFails
  BY <1>26 DEF CountFails
<1>27. CASE StartRun(run > 0)
  <2>1. cancelled' \in BOOLEAN
    BY <1>27, Zenon DEF StartRun
  <2> QED
    BY <1>27, <2>1 DEF StartRun, PendingRows
<1>28. CASE Crash
  <2>1. cancelled' \in BOOLEAN
    BY <1>28, Zenon DEF Crash
  <2> QED
    BY <1>28, <2>1 DEF Crash
<1>29. CASE RequestCancel
  BY <1>29 DEF RequestCancel
<1>30. CASE Stopped
  BY <1>30 DEF Stopped, vars
<1>31. CASE UNCHANGED vars
  BY <1>31 DEF vars
<1> QED
  BY <1>1, <1>2, <1>3, <1>4, <1>5, <1>6, <1>7, <1>8, <1>9, <1>10, <1>11,
     <1>12, <1>13, <1>14, <1>15, <1>16, <1>17, <1>18, <1>19, <1>20, <1>21,
     <1>22, <1>23, <1>24, <1>25, <1>26, <1>27, <1>28, <1>29, <1>30, <1>31
  DEF Next, PipelineStep
-----------------------------------------------------------------------------
(* The messages *)

\* Every action keeps what the process remembers about messages of the PST.
LEMMA MessageStep == LoopInv /\ MessageInv /\ SaveInv /\ [Next]_vars => MessageInv'
<1> SUFFICES ASSUME LoopInv, MessageInv, SaveInv, [Next]_vars PROVE MessageInv'
  OBVIOUS
<1> USE ConstantsOK
    DEF LoopInv, TypeLoop, RowAtWork, InRow, MessageInv, TypeMessages, SaveInv,
        Assumptions, Row, Message, Kind, Converted, SaveMessage, EnsureFolder,
        KnownMessages, FolderOf, durableVars, viewVars, rowVars, cacheVars,
        loopVars, processVars, FreshRun, FreshRow
<1>1. CASE \E r \in Row : BeginRow(r)
  BY <1>1 DEF BeginRow
<1>2. CASE BeginFails
  BY <1>2 DEF BeginFails, DatabaseFails
<1>3. CASE HonourCancel
  BY <1>3 DEF HonourCancel
<1>4. CASE LoopEnds
  BY <1>4 DEF LoopEnds
<1>5. CASE AdoptOne
  BY <1>5 DEF AdoptOne, ReadIndex
<1>6. CASE AdoptNone
  BY <1>6 DEF AdoptNone, ReadIndex
<1>7. CASE AdoptMany
  BY <1>7 DEF AdoptMany, ReadIndex
<1>8. CASE AdoptUnreadable
  BY <1>8 DEF AdoptUnreadable
<1>9. CASE SourceUnreadable
  BY <1>9 DEF SourceUnreadable, RecordReadFailure
<1>10. CASE SourceRead
  BY <1>10 DEF SourceRead
<1>11. CASE ConvertFails
  BY <1>11 DEF ConvertFails, FailAttempt
<1>12. CASE SaveChanges
  BY <1>12 DEF SaveChanges
<1>13. CASE EntryIdFails
  BY <1>13 DEF EntryIdFails, FailAttempt
<1>14. CASE IntegrityRejects
  BY <1>14 DEF IntegrityRejects, FailAttempt
<1>15. CASE ImportSucceeds
  BY <1>15 DEF ImportSucceeds
<1>16. CASE StreamFailed
  BY <1>16 DEF StreamFailed, RecordReadFailure
<1>17. CASE BreakerTrips
  BY <1>17 DEF BreakerTrips
<1>18. CASE ConversionFailed
  BY <1>18 DEF ConversionFailed
<1>19. CASE FallbackSaves
  BY <1>19 DEF FallbackSaves
<1>20. CASE FallbackSucceeds
  BY <1>20 DEF FallbackSucceeds
<1>21. CASE FallbackFails
  BY <1>21 DEF FallbackFails
<1>22. CASE BatchGoesOn
  BY <1>22 DEF BatchGoesOn, BatchIsFull
<1>23. CASE BatchFull
  BY <1>23 DEF BatchFull, BatchIsFull, Commit
<1>24. CASE FinalCommit
  BY <1>24 DEF FinalCommit, Commit
<1>25. CASE CommitFails
  BY <1>25 DEF CommitFails, DatabaseFails
<1>26. CASE CountFails
  BY <1>26 DEF CountFails, Commit
<1>27. CASE StartRun(run > 0)
  BY <1>27 DEF StartRun, PendingRows
<1>28. CASE Crash
  BY <1>28 DEF Crash
<1>29. CASE RequestCancel
  BY <1>29 DEF RequestCancel
<1>30. CASE Stopped
  BY <1>30 DEF Stopped, vars
<1>31. CASE UNCHANGED vars
  BY <1>31 DEF vars
<1> QED
  BY <1>1, <1>2, <1>3, <1>4, <1>5, <1>6, <1>7, <1>8, <1>9, <1>10, <1>11,
     <1>12, <1>13, <1>14, <1>15, <1>16, <1>17, <1>18, <1>19, <1>20, <1>21,
     <1>22, <1>23, <1>24, <1>25, <1>26, <1>27, <1>28, <1>29, <1>30, <1>31
  DEF Next, PipelineStep

\* A message newly saved has an entry id of its own.
LEMMA NewMessage ==
  ASSUME NEW k, SaveMessage(k), nextId \in Nat, pst \subseteq Message,
         \A m \in pst : m.id < nextId,
         \A m, n \in pst : m.id = n.id => m = n
  PROVE  /\ \A m \in pst' : m.id < nextId'
         /\ \A m, n \in pst' : m.id = n.id => m = n
         /\ \A m \in pst : m.id # saved'
         /\ \E m \in pst' : m.id = saved' /\ m.row = row /\ m.kind = k
<1> DEFINE new == [id |-> nextId, row |-> row, kind |-> k]
<1>1. pst' = pst \cup {new} /\ nextId' = nextId + 1 /\ saved' = nextId
  BY DEF SaveMessage
<1>2. new.id = nextId /\ new.row = row /\ new.kind = k
  OBVIOUS
<1>3. \A m \in pst : m.id \in Nat /\ m.id < nextId
  BY DEF Message
<1> HIDE DEF new
<1> QED
  BY <1>1, <1>2, <1>3

\* Every action keeps `saved` the message of the row at work.
LEMMA SaveStep == LoopInv /\ MessageInv /\ SaveInv /\ [Next]_vars => SaveInv'
<1> SUFFICES ASSUME LoopInv, MessageInv, SaveInv, [Next]_vars PROVE SaveInv'
  OBVIOUS
<1> USE ConstantsOK
    DEF LoopInv, TypeLoop, RowAtWork, InRow, MessageInv, TypeMessages, SaveInv,
        Assumptions, Row, Message, Kind, Converted, LeaveLoop,
        durableVars, viewVars, rowVars, cacheVars,
        loopVars, processVars, FreshRun, FreshRow
<1>1. CASE \E r \in Row : BeginRow(r)
  BY <1>1 DEF BeginRow
<1>2. CASE BeginFails
  BY <1>2 DEF BeginFails, DatabaseFails
<1>3. CASE HonourCancel
  BY <1>3 DEF HonourCancel
<1>4. CASE LoopEnds
  BY <1>4 DEF LoopEnds
<1>5. CASE AdoptOne
  BY <1>5 DEF AdoptOne, ReadIndex
<1>6. CASE AdoptNone
  BY <1>6 DEF AdoptNone, ReadIndex
<1>7. CASE AdoptMany
  BY <1>7 DEF AdoptMany, ReadIndex
<1>8. CASE AdoptUnreadable
  BY <1>8 DEF AdoptUnreadable
<1>9. CASE SourceUnreadable
  BY <1>9 DEF SourceUnreadable, RecordReadFailure
<1>10. CASE SourceRead
  BY <1>10 DEF SourceRead
<1>11. CASE ConvertFails
  BY <1>11 DEF ConvertFails, FailAttempt
<1>12. CASE SaveChanges
  <2>1. PICK k \in {"converted", "corrupt"} : SaveMessage(k)
    BY <1>12 DEF SaveChanges
  <2>2. pc' = "saved" /\ row' = row /\ resumeIndex' = resumeIndex
    BY <1>12 DEF SaveChanges
  <2> QED
    BY <2>1, <2>2, NewMessage DEF MessageInv, TypeMessages, SaveInv, Converted
<1>13. CASE EntryIdFails
  BY <1>13 DEF EntryIdFails, FailAttempt
<1>14. CASE IntegrityRejects
  BY <1>14 DEF IntegrityRejects, FailAttempt
<1>15. CASE ImportSucceeds
  BY <1>15 DEF ImportSucceeds
<1>16. CASE StreamFailed
  BY <1>16 DEF StreamFailed, RecordReadFailure
<1>17. CASE BreakerTrips
  BY <1>17 DEF BreakerTrips
<1>18. CASE ConversionFailed
  BY <1>18 DEF ConversionFailed
<1>19. CASE FallbackSaves
  <2>1. SaveMessage("fallback")
    BY <1>19 DEF FallbackSaves
  <2>2. pc' = "fallbackSaved" /\ row' = row
    BY <1>19 DEF FallbackSaves
  <2> QED
    BY <2>1, <2>2, NewMessage DEF MessageInv, TypeMessages, SaveInv, Converted
<1>20. CASE FallbackSucceeds
  BY <1>20 DEF FallbackSucceeds
<1>21. CASE FallbackFails
  BY <1>21 DEF FallbackFails
<1>22. CASE BatchGoesOn
  BY <1>22 DEF BatchGoesOn, BatchIsFull
<1>23. CASE BatchFull
  BY <1>23 DEF BatchFull, BatchIsFull, Commit
<1>24. CASE FinalCommit
  BY <1>24 DEF FinalCommit, Commit
<1>25. CASE CommitFails
  BY <1>25 DEF CommitFails, DatabaseFails
<1>26. CASE CountFails
  BY <1>26 DEF CountFails, Commit
<1>27. CASE StartRun(run > 0)
  BY <1>27 DEF StartRun, PendingRows
<1>28. CASE Crash
  BY <1>28 DEF Crash
<1>29. CASE RequestCancel
  BY <1>29 DEF RequestCancel
<1>30. CASE Stopped
  BY <1>30 DEF Stopped, vars
<1>31. CASE UNCHANGED vars
  BY <1>31 DEF vars
<1> QED
  BY <1>1, <1>2, <1>3, <1>4, <1>5, <1>6, <1>7, <1>8, <1>9, <1>10, <1>11,
     <1>12, <1>13, <1>14, <1>15, <1>16, <1>17, <1>18, <1>19, <1>20, <1>21,
     <1>22, <1>23, <1>24, <1>25, <1>26, <1>27, <1>28, <1>29, <1>30, <1>31
  DEF Next, PipelineStep
-----------------------------------------------------------------------------
(* The rows *)

\* What a row-level update may do, lost or not.
LEMMA MarkEffect ==
  ASSUME TypeRows, NEW r \in Row,
         \/ \E i \in Nat : MarkImported(r, i)
         \/ \E s \in Status : MarkStatus(r, s)
  PROVE  /\ txRows' \in [Row -> FileRow]
         /\ \A q \in Row \ {r} : txRows'[q] = txRows[q]
  BY DEF TypeRows, MarkImported, MarkStatus, LostWrite, FileRow, Status

\* Settling the row at work, in the batch only, preserves RowInv.
LEMMA SettleRow ==
  ASSUME RowInv, LoopInv, InRow,
         \/ \E i \in Nat : MarkImported(row, i)
         \/ \E s \in Status : MarkStatus(row, s),
         rows' = rows, folderMap' = folderMap, tx' = tx, todo' = todo,
         txFolderMap' \subseteq Folder, pc' \in {"rowDone", "commit"}
  PROVE  RowInv'
<1>1. row \in Row /\ row \notin todo /\ tx /\ rows[row].status = "PENDING"
  BY DEF LoopInv, RowAtWork, RowInv
<1>2. /\ txRows' \in [Row -> FileRow]
      /\ \A q \in Row \ {row} : txRows'[q] = txRows[q]
  BY <1>1, MarkEffect DEF RowInv
<1>3. TypeRows'
  BY <1>2 DEF RowInv, TypeRows
<1>4. \A r \in Row : rows'[r].status # "PENDING" => txRows'[r] = rows'[r]
  BY <1>1, <1>2 DEF RowInv
<1>5. \A r \in todo' : txRows'[r].status = "PENDING"
  BY <1>1, <1>2 DEF RowInv, LoopInv, TypeLoop
<1>6. ~InRow' /\ tx' /\ pc' \notin {"off", "exit"}
  BY <1>1 DEF InRow
<1> QED
  BY <1>3, <1>4, <1>5, <1>6 DEF RowInv

\* Every action keeps the relation of the view to the committed rows.
LEMMA RowStep == LoopInv /\ MessageInv /\ RowInv /\ [Next]_vars => RowInv'
<1> SUFFICES ASSUME LoopInv, MessageInv, RowInv, [Next]_vars PROVE RowInv'
  OBVIOUS
<1> USE ConstantsOK
    DEF RowInv, TypeRows, LoopInv, TypeLoop, RowAtWork, InRow, EnsureFolder,
        Assumptions, Row, LeaveLoop, Commit,
        durableVars, viewVars, rowVars, cacheVars,
        loopVars, processVars, FreshRun, FreshRow
<1>1. CASE \E r \in Row : BeginRow(r)
  BY <1>1 DEF BeginRow
<1>2. CASE BeginFails
  BY <1>2 DEF BeginFails, DatabaseFails
<1>3. CASE HonourCancel
  BY <1>3 DEF HonourCancel
<1>4. CASE LoopEnds
  BY <1>4 DEF LoopEnds
<1>5. CASE AdoptOne
  <2>1. PICK m \in Matches : MarkImported(row, m.id)
    BY <1>5 DEF AdoptOne
  <2>2. m.id \in Nat
    BY <2>1 DEF Matches, KnownMessages, MessageInv, TypeMessages, Message
  <2>3. /\ InRow /\ rows' = rows /\ folderMap' = folderMap /\ tx' = tx
        /\ todo' = todo /\ txFolderMap' \subseteq Folder /\ pc' = "rowDone"
    BY <1>5 DEF AdoptOne, ReadIndex
  <2> QED
    BY <2>1, <2>2, <2>3, SettleRow
<1>6. CASE AdoptNone
  BY <1>6 DEF AdoptNone, ReadIndex
<1>7. CASE AdoptMany
  BY <1>7 DEF AdoptMany, ReadIndex
<1>8. CASE AdoptUnreadable
  BY <1>8 DEF AdoptUnreadable
<1>9. CASE SourceUnreadable
  <2>1. /\ InRow /\ MarkStatus(row, "FAILED_SOURCE_READ")
        /\ rows' = rows /\ folderMap' = folderMap /\ tx' = tx /\ todo' = todo
        /\ txFolderMap' \subseteq Folder /\ pc' \in {"rowDone", "commit"}
    BY <1>9 DEF SourceUnreadable, RecordReadFailure
  <2> QED
    BY <2>1, SettleRow DEF Status
<1>10. CASE SourceRead
  BY <1>10 DEF SourceRead
<1>11. CASE ConvertFails
  BY <1>11 DEF ConvertFails, FailAttempt
<1>12. CASE SaveChanges
  BY <1>12 DEF SaveChanges
<1>13. CASE EntryIdFails
  BY <1>13 DEF EntryIdFails, FailAttempt
<1>14. CASE IntegrityRejects
  BY <1>14 DEF IntegrityRejects, FailAttempt
<1>15. CASE ImportSucceeds
  <2>1. /\ InRow /\ MarkImported(row, saved) /\ saved \in Nat
        /\ rows' = rows /\ folderMap' = folderMap /\ tx' = tx /\ todo' = todo
        /\ txFolderMap' \subseteq Folder /\ pc' \in {"rowDone", "commit"}
    BY <1>15 DEF ImportSucceeds, MessageInv, TypeMessages
  <2> QED
    BY <2>1, SettleRow DEF Status
<1>16. CASE StreamFailed
  <2>1. /\ InRow /\ MarkStatus(row, "FAILED_SOURCE_READ")
        /\ rows' = rows /\ folderMap' = folderMap /\ tx' = tx /\ todo' = todo
        /\ txFolderMap' \subseteq Folder /\ pc' \in {"rowDone", "commit"}
    BY <1>16 DEF StreamFailed, RecordReadFailure
  <2> QED
    BY <2>1, SettleRow DEF Status
<1>17. CASE BreakerTrips
  BY <1>17 DEF BreakerTrips
<1>18. CASE ConversionFailed
  BY <1>18 DEF ConversionFailed
<1>19. CASE FallbackSaves
  BY <1>19 DEF FallbackSaves
<1>20. CASE FallbackSucceeds
  <2>1. /\ InRow /\ MarkStatus(row, "PRESERVED_AS_ATTACHMENT")
        /\ rows' = rows /\ folderMap' = folderMap /\ tx' = tx /\ todo' = todo
        /\ txFolderMap' \subseteq Folder /\ pc' \in {"rowDone", "commit"}
    BY <1>20 DEF FallbackSucceeds
  <2> QED
    BY <2>1, SettleRow DEF Status
<1>21. CASE FallbackFails
  <2>1. /\ InRow /\ MarkStatus(row, "FAILED_MAPI")
        /\ rows' = rows /\ folderMap' = folderMap /\ tx' = tx /\ todo' = todo
        /\ txFolderMap' \subseteq Folder /\ pc' \in {"rowDone", "commit"}
    BY <1>21 DEF FallbackFails
  <2> QED
    BY <2>1, SettleRow DEF Status
<1>22. CASE BatchGoesOn
  BY <1>22 DEF BatchGoesOn, BatchIsFull
<1>23. CASE BatchFull
  BY <1>23 DEF BatchFull, BatchIsFull
<1>24. CASE FinalCommit
  BY <1>24 DEF FinalCommit
<1>25. CASE CommitFails
  BY <1>25 DEF CommitFails, DatabaseFails
<1>26. CASE CountFails
  BY <1>26 DEF CountFails
<1>27. CASE StartRun(run > 0)
  BY <1>27 DEF StartRun, PendingRows
<1>28. CASE Crash
  BY <1>28 DEF Crash
<1>29. CASE RequestCancel
  BY <1>29 DEF RequestCancel
<1>30. CASE Stopped
  BY <1>30 DEF Stopped, vars
<1>31. CASE UNCHANGED vars
  BY <1>31 DEF vars
<1> QED
  BY <1>1, <1>2, <1>3, <1>4, <1>5, <1>6, <1>7, <1>8, <1>9, <1>10, <1>11,
     <1>12, <1>13, <1>14, <1>15, <1>16, <1>17, <1>18, <1>19, <1>20, <1>21,
     <1>22, <1>23, <1>24, <1>25, <1>26, <1>27, <1>28, <1>29, <1>30, <1>31
  DEF Next, PipelineStep
-----------------------------------------------------------------------------
(* What the rows claim is in the PST *)

\* RecordedIsSaved, but for the rows of D.  A launch with --overwrite may leave the
\* rows behind whose messages it deleted.
RecordedExcept(D) ==
  \A r \in Row \ D : Backed(rows, r) /\ Backed(txRows, r)

\* Nothing is deleted and the rows are the committed or the batch's ones.
LEMMA StillBacked ==
  ASSUME NEW D, RecordedExcept(D), pst \subseteq pst',
         rows' = rows \/ rows' = txRows, txRows' = rows \/ txRows' = txRows
  PROVE  RecordedExcept(D)'
  BY DEF RecordedExcept, Backed

\* The row at work is settled by a claim the PST backs.
LEMMA SettledBacked ==
  ASSUME NEW D, RecordedExcept(D), RowInv, row \in Row, pst' = pst, rows' = rows,
         NEW e \in FileRow,
         txRows' = txRows \/ txRows' = [txRows EXCEPT ![row] = e],
         e.status = "IMPORTED" =>
           \E m \in pst : m.id = e.entry /\ m.row = row /\ Converted(m),
         e.status = "PRESERVED_AS_ATTACHMENT" =>
           \E m \in pst : m.row = row /\ ~Converted(m)
  PROVE  RecordedExcept(D)'
<1>1. \A r \in Row \ D : Backed(rows, r)'
  BY DEF RecordedExcept, Backed
<1>2. ASSUME NEW r \in Row \ D PROVE Backed(txRows, r)'
  <2>1. txRows'[r] = txRows[r] \/ (r = row /\ txRows'[r] = e)
    BY <1>2 DEF RowInv, TypeRows
  <2> QED
    BY <1>2, <2>1 DEF RecordedExcept, Backed
<1> QED
  BY <1>1, <1>2 DEF RecordedExcept

\* A row-level update of the status alone, to one that claims nothing or is
\* backed.
LEMMA MarkBacked ==
  ASSUME NEW D, RecordedExcept(D), RowInv, row \in Row, pst' = pst, rows' = rows,
         NEW s \in Status, MarkStatus(row, s), s # "IMPORTED",
         s = "PRESERVED_AS_ATTACHMENT" => \E m \in pst : m.row = row /\ ~Converted(m)
  PROVE  RecordedExcept(D)'
<1> DEFINE e == [txRows[row] EXCEPT !.status = s]
<1>1. txRows[row] \in FileRow
  BY DEF RowInv, TypeRows
<1>2. e \in FileRow /\ e.status = s
  BY <1>1 DEF FileRow
<1>3. txRows' = txRows \/ txRows' = [txRows EXCEPT ![row] = e]
  BY DEF MarkStatus, LostWrite
<1> HIDE DEF e
<1> QED
  BY <1>2, <1>3, SettledBacked

\* A message of the row's own is recorded as its import.
LEMMA ImportBacked ==
  ASSUME NEW D, RecordedExcept(D), RowInv, MessageInv, row \in Row,
         pst' = pst, rows' = rows,
         NEW m \in pst, m.row = row, Converted(m), MarkImported(row, m.id)
  PROVE  RecordedExcept(D)'
<1> DEFINE e == [status |-> "IMPORTED", entry |-> m.id]
<1>1. m.id \in Nat
  BY DEF MessageInv, TypeMessages, Message
<1>2. e \in FileRow /\ e.status = "IMPORTED" /\ e.entry = m.id
  BY <1>1 DEF FileRow, Status
<1>3. txRows' = txRows \/ txRows' = [txRows EXCEPT ![row] = e]
  BY DEF MarkImported, LostWrite
<1> HIDE DEF e
<1> QED
  BY <1>2, <1>3, SettledBacked

\* The integrity gate deletes only a message no row has recorded.
LEMMA DeleteBacked ==
  ASSUME NEW D, LoopInv, RowInv, SaveInv, RecordedExcept(D), pc = "saved",
         pst' = {m \in pst : m.id # saved}, rows' = rows, txRows' = txRows
  PROVE  RecordedExcept(D)'
<1>1. rows[row].status = "PENDING" /\ txRows[row].status = "PENDING" /\ row \in Row
  BY DEF LoopInv, RowAtWork, RowInv, InRow
<1>2. \A m \in pst : m.id = saved => m.row = row /\ Converted(m)
  BY DEF SaveInv
<1>3. ASSUME NEW r \in Row \ D, r # row PROVE Backed(rows, r)' /\ Backed(txRows, r)'
  BY <1>2, <1>3 DEF RecordedExcept, Backed
<1>4. ASSUME NEW r \in Row \ D, r = row PROVE Backed(rows, r)' /\ Backed(txRows, r)'
  BY <1>1, <1>4 DEF Backed
<1> QED
  BY <1>3, <1>4 DEF RecordedExcept

\* No action records a row without its message or deletes a recorded message.
LEMMA BackedStep ==
  ASSUME NEW D, LoopInv, MessageInv, RowInv, SaveInv, RecordedExcept(D), [Next]_vars
  PROVE  RecordedExcept(D)'
<1> USE DEF durableVars, viewVars
<1>1. CASE \E r \in Row : BeginRow(r)
  BY <1>1, StillBacked DEF BeginRow
<1>2. CASE BeginFails
  BY <1>2, StillBacked DEF BeginFails, DatabaseFails
<1>3. CASE HonourCancel
  BY <1>3, StillBacked DEF HonourCancel
<1>4. CASE LoopEnds
  BY <1>4, StillBacked DEF LoopEnds
<1>5. CASE AdoptOne
  <2>1. PICK m \in Matches : MarkImported(row, m.id)
    BY <1>5 DEF AdoptOne
  <2>2. row \in Row /\ pst' = pst /\ rows' = rows
    BY <1>5 DEF AdoptOne, ReadIndex, LoopInv, RowAtWork, InRow, durableVars
  <2>3. m \in pst /\ m.row = row /\ Converted(m)
    BY <2>2, ConstantsOK
    DEF Matches, KnownMessages, MessageInv, FolderOf, Converted, Assumptions, Row
  <2> QED
    BY <2>1, <2>2, <2>3, ImportBacked
<1>6. CASE AdoptNone
  BY <1>6, StillBacked DEF AdoptNone, ReadIndex
<1>7. CASE AdoptMany
  BY <1>7, StillBacked DEF AdoptMany, ReadIndex
<1>8. CASE AdoptUnreadable
  BY <1>8, StillBacked DEF AdoptUnreadable
<1>9. CASE SourceUnreadable
  <2>1. /\ MarkStatus(row, "FAILED_SOURCE_READ") /\ row \in Row
        /\ pst' = pst /\ rows' = rows
    BY <1>9 DEF SourceUnreadable, RecordReadFailure, LoopInv, RowAtWork, InRow, durableVars
  <2> QED
    BY <2>1, MarkBacked DEF Status
<1>10. CASE SourceRead
  BY <1>10, StillBacked DEF SourceRead
<1>11. CASE ConvertFails
  BY <1>11, StillBacked DEF ConvertFails, FailAttempt
<1>12. CASE SaveChanges
  BY <1>12, StillBacked DEF SaveChanges, SaveMessage
<1>13. CASE EntryIdFails
  BY <1>13, StillBacked DEF EntryIdFails, FailAttempt
<1>14. CASE IntegrityRejects
  <2>1. pc = "saved" /\ rows' = rows /\ txRows' = txRows
    BY <1>14 DEF IntegrityRejects, FailAttempt, viewVars
  <2>2. pst' = {m \in pst : m.id # saved} \/ pst' = pst
    BY <1>14 DEF IntegrityRejects
  <2> QED
    BY <2>1, <2>2, DeleteBacked, StillBacked
<1>15. CASE ImportSucceeds
  <2>1. /\ MarkImported(row, saved) /\ row \in Row
        /\ pst' = pst /\ rows' = rows
    BY <1>15 DEF ImportSucceeds, LoopInv, RowAtWork, InRow, durableVars
  <2>2. PICK m \in pst : m.id = saved /\ m.row = row /\ Converted(m)
    BY <1>15 DEF ImportSucceeds, SaveInv
  <2> QED
    BY <2>1, <2>2, ImportBacked
<1>16. CASE StreamFailed
  <2>1. /\ MarkStatus(row, "FAILED_SOURCE_READ") /\ row \in Row
        /\ pst' = pst /\ rows' = rows
    BY <1>16 DEF StreamFailed, RecordReadFailure, LoopInv, RowAtWork, InRow, durableVars
  <2> QED
    BY <2>1, MarkBacked DEF Status
<1>17. CASE BreakerTrips
  BY <1>17, StillBacked DEF BreakerTrips
<1>18. CASE ConversionFailed
  BY <1>18, StillBacked DEF ConversionFailed
<1>19. CASE FallbackSaves
  BY <1>19, StillBacked DEF FallbackSaves, SaveMessage
<1>20. CASE FallbackSucceeds
  <2>1. /\ MarkStatus(row, "PRESERVED_AS_ATTACHMENT") /\ row \in Row
        /\ pst' = pst /\ rows' = rows
    BY <1>20 DEF FallbackSucceeds, LoopInv, RowAtWork, InRow, durableVars
  <2>2. \E m \in pst : m.row = row /\ ~Converted(m)
    BY <1>20 DEF FallbackSucceeds, SaveInv
  <2> QED
    BY <2>1, <2>2, MarkBacked DEF Status
<1>21. CASE FallbackFails
  <2>1. /\ MarkStatus(row, "FAILED_MAPI") /\ row \in Row
        /\ pst' = pst /\ rows' = rows
    BY <1>21 DEF FallbackFails, LoopInv, RowAtWork, InRow, durableVars
  <2> QED
    BY <2>1, MarkBacked DEF Status
<1>22. CASE BatchGoesOn
  BY <1>22, StillBacked DEF BatchGoesOn, BatchIsFull
<1>23. CASE BatchFull
  BY <1>23, StillBacked DEF BatchFull, BatchIsFull, Commit
<1>24. CASE FinalCommit
  BY <1>24, StillBacked DEF FinalCommit, Commit
<1>25. CASE CommitFails
  BY <1>25, StillBacked DEF CommitFails, DatabaseFails
<1>26. CASE CountFails
  BY <1>26, StillBacked DEF CountFails, Commit
<1>27. CASE StartRun(run > 0)
  BY <1>27, StillBacked DEF StartRun, PendingRows
<1>28. CASE Crash
  BY <1>28, StillBacked DEF Crash
<1>29. CASE RequestCancel
  BY <1>29, StillBacked DEF RequestCancel
<1>30. CASE Stopped
  BY <1>30, StillBacked DEF Stopped, vars
<1>31. CASE UNCHANGED vars
  BY <1>31, StillBacked DEF vars
<1> QED
  BY <1>1, <1>2, <1>3, <1>4, <1>5, <1>6, <1>7, <1>8, <1>9, <1>10, <1>11,
     <1>12, <1>13, <1>14, <1>15, <1>16, <1>17, <1>18, <1>19, <1>20, <1>21,
     <1>22, <1>23, <1>24, <1>25, <1>26, <1>27, <1>28, <1>29, <1>30, <1>31
  DEF Next, PipelineStep

-----------------------------------------------------------------------------
(* The theorems *)

\* The initial states satisfy the inductive invariant.
LEMMA InitIInv == Init => IInv
<1> SUFFICES ASSUME Init PROVE IInv
  OBVIOUS
<1> USE ConstantsOK DEF Init, Assumptions, Row
<1>0. cancelled \in BOOLEAN /\ resumeMode \in BOOLEAN
  BY Zenon DEF Init
<1>1. LoopInv
  BY <1>0 DEF LoopInv, TypeLoop, RowAtWork, BreakerBelow, InRow, Location, ErrorClass,
         Outcome
<1>2. MessageInv
  BY DEF MessageInv, TypeMessages
<1>3. RowInv
  BY DEF RowInv, TypeRows, FileRow, Status, InRow
<1>4. SaveInv
  BY DEF SaveInv
<1>5. RecordedIsSaved
  BY DEF RecordedIsSaved, Backed
<1> QED
  BY <1>1, <1>2, <1>3, <1>4, <1>5 DEF IInv

\* Every step keeps the inductive invariant.
LEMMA IInvStep == IInv /\ [Next]_vars => IInv'
<1> SUFFICES ASSUME IInv, [Next]_vars PROVE IInv'
  OBVIOUS
<1>1. RecordedExcept({})
  BY DEF IInv, RecordedIsSaved, RecordedExcept
<1>2. RecordedExcept({})'
  BY <1>1, BackedStep DEF IInv
<1>3. RecordedIsSaved'
  BY <1>2 DEF RecordedIsSaved, RecordedExcept
<1> QED
  BY <1>3, LoopStep, MessageStep, RowStep, SaveStep DEF IInv

\* The inductive invariant holds in every reachable state.
THEOREM Invariance == Spec => []IInv
  BY InitIInv, IInvStep, PTL DEF Spec

\* Every variable of the pipeline keeps its type; in particular the batch
\* never outgrows BatchSize and the breaker counter never passes Threshold,
\* whatever fails, crashes or is resumed.
THEOREM TypeCorrect == Spec => []TypeOK
<1>1. IInv => TypeOK
  BY DEF IInv, LoopInv, MessageInv, RowInv, TypeOK
<1> QED
  BY <1>1, Invariance, PTL

\* Neither a committed row nor a row of the open batch ever claims a message
\* that the PST does not hold.
THEOREM RecordedSaved == Spec => []RecordedIsSaved
<1>1. IInv => RecordedIsSaved
  BY DEF IInv
<1> QED
  BY <1>1, Invariance, PTL

-----------------------------------------------------------------------------
(* What the loop leaves behind *)

\* Every row the loop has passed is settled, in the open batch at least.
Settling ==
  /\ pc \notin {"off", "commit", "exit"} =>
       \A r \in Row : txRows[r].status = "PENDING" => r \in todo \/ (InRow /\ r = row)
  /\ outcome = "completed" => pc \in {"commit", "exit"}
  /\ pc = "commit" /\ outcome = "completed" =>
       \A r \in Row : txRows[r].status # "PENDING"
  /\ pc = "exit" /\ outcome = "completed" =>
       \A r \in Row : rows[r].status # "PENDING"

\* Row r gets its result, and no other row changes.
Records(r) ==
  /\ txRows'[r].status # "PENDING"
  /\ \A q \in Row \ {r} : txRows'[q] = txRows[q]

\* A statement that records a result, when none is lost.
LEMMA MarkRecords ==
  ASSUME "dbwrite" \notin Faults, txRows \in [Row -> FileRow], NEW r \in Row,
         \/ \E i : MarkImported(r, i)
         \/ \E s \in Status \ {"PENDING"} : MarkStatus(r, s)
  PROVE  Records(r)
  BY DEF Records, MarkImported, MarkStatus, LostWrite, FileRow

\* The row at work is settled and the loop goes on, or ends for another reason.
LEMMA RowSettled ==
  ASSUME Settling, InRow, row \in Row, Records(row), todo' = todo,
         \/ pc' = "rowDone" /\ outcome' = outcome
         \/ pc' = "commit" /\ outcome' # "completed"
  PROVE  Settling'
  BY DEF Settling, Records, InRow

\* Every step of the pipeline settles what it passes.
LEMMA SettlingStep ==
  ASSUME "dbwrite" \notin Faults, LoopInv, RowInv, Settling, [Next]_vars
  PROVE  Settling'
<1>0. /\ txRows \in [Row -> FileRow] /\ (~tx => txRows = rows)
      /\ (pc \in {"off", "exit"} => ~tx) /\ (InRow => row \in Row)
  BY DEF LoopInv, RowAtWork, RowInv, TypeRows
<1> USE DEF Settling, InRow, LeaveLoop, durableVars, viewVars, rowVars, cacheVars,
        loopVars, processVars, FreshRun, FreshRow
<1>1. CASE \E r \in Row : BeginRow(r)
  BY <1>0, <1>1 DEF BeginRow
<1>2. CASE BeginFails
  BY <1>0, <1>2 DEF BeginFails, DatabaseFails
<1>3. CASE HonourCancel
  BY <1>0, <1>3 DEF HonourCancel
<1>4. CASE LoopEnds
  BY <1>0, <1>4 DEF LoopEnds
<1>5. CASE AdoptOne
  <2>1. \E i : MarkImported(row, i)
    BY <1>5 DEF AdoptOne, ReadIndex, Status
  <2>2. /\ InRow /\ todo' = todo
        /\ \/ pc' = "rowDone" /\ outcome' = outcome
           \/ pc' = "commit" /\ outcome' # "completed"
    BY <1>5 DEF AdoptOne, ReadIndex
  <2>3. Records(row)
    BY <1>0, <2>1, <2>2, MarkRecords
  <2> QED
    BY <1>0, <2>2, <2>3, RowSettled
<1>6. CASE AdoptNone
  BY <1>0, <1>6 DEF AdoptNone, ReadIndex
<1>7. CASE AdoptMany
  BY <1>0, <1>7 DEF AdoptMany, ReadIndex
<1>8. CASE AdoptUnreadable
  BY <1>0, <1>8 DEF AdoptUnreadable
<1>9. CASE SourceUnreadable
  <2>1. \E s \in Status \ {"PENDING"} : MarkStatus(row, s)
    BY <1>9 DEF SourceUnreadable, RecordReadFailure, Status
  <2>2. /\ InRow /\ todo' = todo
        /\ \/ pc' = "rowDone" /\ outcome' = outcome
           \/ pc' = "commit" /\ outcome' # "completed"
    BY <1>9 DEF SourceUnreadable, RecordReadFailure
  <2>3. Records(row)
    BY <1>0, <2>1, <2>2, MarkRecords
  <2> QED
    BY <1>0, <2>2, <2>3, RowSettled
<1>10. CASE SourceRead
  BY <1>0, <1>10 DEF SourceRead
<1>11. CASE ConvertFails
  BY <1>0, <1>11 DEF ConvertFails, FailAttempt
<1>12. CASE SaveChanges
  BY <1>0, <1>12 DEF SaveChanges
<1>13. CASE EntryIdFails
  BY <1>0, <1>13 DEF EntryIdFails, FailAttempt
<1>14. CASE IntegrityRejects
  BY <1>0, <1>14 DEF IntegrityRejects, FailAttempt
<1>15. CASE ImportSucceeds
  <2>1. \E i : MarkImported(row, i)
    BY <1>15 DEF ImportSucceeds, Status
  <2>2. /\ InRow /\ todo' = todo
        /\ \/ pc' = "rowDone" /\ outcome' = outcome
           \/ pc' = "commit" /\ outcome' # "completed"
    BY <1>15 DEF ImportSucceeds
  <2>3. Records(row)
    BY <1>0, <2>1, <2>2, MarkRecords
  <2> QED
    BY <1>0, <2>2, <2>3, RowSettled
<1>16. CASE StreamFailed
  <2>1. \E s \in Status \ {"PENDING"} : MarkStatus(row, s)
    BY <1>16 DEF StreamFailed, RecordReadFailure, Status
  <2>2. /\ InRow /\ todo' = todo
        /\ \/ pc' = "rowDone" /\ outcome' = outcome
           \/ pc' = "commit" /\ outcome' # "completed"
    BY <1>16 DEF StreamFailed, RecordReadFailure
  <2>3. Records(row)
    BY <1>0, <2>1, <2>2, MarkRecords
  <2> QED
    BY <1>0, <2>2, <2>3, RowSettled
<1>17. CASE BreakerTrips
  BY <1>0, <1>17 DEF BreakerTrips
<1>18. CASE ConversionFailed
  BY <1>0, <1>18 DEF ConversionFailed
<1>19. CASE FallbackSaves
  BY <1>0, <1>19 DEF FallbackSaves
<1>20. CASE FallbackSucceeds
  <2>1. \E s \in Status \ {"PENDING"} : MarkStatus(row, s)
    BY <1>20 DEF FallbackSucceeds, Status
  <2>2. /\ InRow /\ todo' = todo
        /\ \/ pc' = "rowDone" /\ outcome' = outcome
           \/ pc' = "commit" /\ outcome' # "completed"
    BY <1>20 DEF FallbackSucceeds
  <2>3. Records(row)
    BY <1>0, <2>1, <2>2, MarkRecords
  <2> QED
    BY <1>0, <2>2, <2>3, RowSettled
<1>21. CASE FallbackFails
  <2>1. \E s \in Status \ {"PENDING"} : MarkStatus(row, s)
    BY <1>21 DEF FallbackFails, LeaveLoop, Status
  <2>2. /\ InRow /\ todo' = todo
        /\ \/ pc' = "rowDone" /\ outcome' = outcome
           \/ pc' = "commit" /\ outcome' # "completed"
    BY <1>21 DEF FallbackFails, LeaveLoop
  <2>3. Records(row)
    BY <1>0, <2>1, <2>2, MarkRecords
  <2> QED
    BY <1>0, <2>2, <2>3, RowSettled
<1>22. CASE BatchGoesOn
  BY <1>0, <1>22 DEF BatchGoesOn
<1>23. CASE BatchFull
  BY <1>0, <1>23 DEF BatchFull, Commit
<1>24. CASE FinalCommit
  BY <1>0, <1>24 DEF FinalCommit, Commit
<1>25. CASE CommitFails
  BY <1>0, <1>25 DEF CommitFails, DatabaseFails
<1>26. CASE CountFails
  BY <1>0, <1>26 DEF CountFails, Commit
<1>27. CASE StartRun(run > 0)
  BY <1>0, <1>27 DEF StartRun, PendingRows
<1>28. CASE Crash
  BY <1>0, <1>28 DEF Crash
<1>29. CASE RequestCancel
  BY <1>0, <1>29 DEF RequestCancel
<1>30. CASE Stopped
  BY <1>0, <1>30 DEF Stopped, vars
<1>31. CASE UNCHANGED vars
  BY <1>0, <1>31 DEF vars
<1> QED
  BY <1>1, <1>2, <1>3, <1>4, <1>5, <1>6, <1>7, <1>8, <1>9, <1>10, <1>11,
     <1>12, <1>13, <1>14, <1>15, <1>16, <1>17, <1>18, <1>19, <1>20, <1>21,
     <1>22, <1>23, <1>24, <1>25, <1>26, <1>27, <1>28, <1>29, <1>30, <1>31
  DEF Next, PipelineStep

-----------------------------------------------------------------------------
(* What a step does to the PST and to the committed rows *)

\* A step moves at most one of the two stores: it commits, saves one message
\* for the row at work, or deletes the message just saved.
StoreMove ==
  \/ pst' = pst /\ rows' \in {rows, txRows}
  \/ /\ rows' = rows /\ InRow
     /\ \E k \in Kind : SaveMessage(k)
  \/ /\ rows' = rows /\ pc = "saved"
     /\ pst' = {m \in pst : m.id # saved}

\* What a step may do to the two stores.
LEMMA StoreStep == [Next]_vars => StoreMove
<1> SUFFICES ASSUME [Next]_vars PROVE StoreMove
  OBVIOUS
<1> USE DEF StoreMove, durableVars, viewVars, InRow, Kind
<1>1. CASE \E r \in Row : BeginRow(r)
  BY <1>1 DEF BeginRow
<1>2. CASE BeginFails
  BY <1>2 DEF BeginFails, DatabaseFails
<1>3. CASE HonourCancel
  BY <1>3 DEF HonourCancel
<1>4. CASE LoopEnds
  BY <1>4 DEF LoopEnds
<1>5. CASE AdoptOne
  BY <1>5 DEF AdoptOne, ReadIndex
<1>6. CASE AdoptNone
  BY <1>6 DEF AdoptNone, ReadIndex
<1>7. CASE AdoptMany
  BY <1>7 DEF AdoptMany, ReadIndex
<1>8. CASE AdoptUnreadable
  BY <1>8 DEF AdoptUnreadable
<1>9. CASE SourceUnreadable
  BY <1>9 DEF SourceUnreadable, RecordReadFailure
<1>10. CASE SourceRead
  BY <1>10 DEF SourceRead
<1>11. CASE ConvertFails
  BY <1>11 DEF ConvertFails, FailAttempt
<1>12. CASE SaveChanges
  BY <1>12 DEF SaveChanges
<1>13. CASE EntryIdFails
  BY <1>13 DEF EntryIdFails, FailAttempt
<1>14. CASE IntegrityRejects
  BY <1>14 DEF IntegrityRejects, FailAttempt
<1>15. CASE ImportSucceeds
  BY <1>15 DEF ImportSucceeds
<1>16. CASE StreamFailed
  BY <1>16 DEF StreamFailed, RecordReadFailure
<1>17. CASE BreakerTrips
  BY <1>17 DEF BreakerTrips
<1>18. CASE ConversionFailed
  BY <1>18 DEF ConversionFailed
<1>19. CASE FallbackSaves
  BY <1>19 DEF FallbackSaves
<1>20. CASE FallbackSucceeds
  BY <1>20 DEF FallbackSucceeds
<1>21. CASE FallbackFails
  BY <1>21 DEF FallbackFails
<1>22. CASE BatchGoesOn
  BY <1>22 DEF BatchGoesOn, BatchIsFull
<1>23. CASE BatchFull
  BY <1>23 DEF BatchFull, BatchIsFull, Commit
<1>24. CASE FinalCommit
  BY <1>24 DEF FinalCommit, Commit
<1>25. CASE CommitFails
  BY <1>25 DEF CommitFails, DatabaseFails
<1>26. CASE CountFails
  BY <1>26 DEF CountFails, Commit
<1>27. CASE StartRun(run > 0)
  BY <1>27 DEF StartRun, PendingRows
<1>28. CASE Crash
  BY <1>28 DEF Crash
<1>29. CASE RequestCancel
  BY <1>29 DEF RequestCancel
<1>30. CASE Stopped
  BY <1>30 DEF Stopped, vars
<1>31. CASE UNCHANGED vars
  BY <1>31 DEF vars
<1> QED
  BY <1>1, <1>2, <1>3, <1>4, <1>5, <1>6, <1>7, <1>8, <1>9, <1>10, <1>11,
     <1>12, <1>13, <1>14, <1>15, <1>16, <1>17, <1>18, <1>19, <1>20, <1>21,
     <1>22, <1>23, <1>24, <1>25, <1>26, <1>27, <1>28, <1>29, <1>30, <1>31
  DEF Next, PipelineStep

\* The row at work is not committed yet.
LEMMA RowAtWorkPending ==
  ASSUME IInv, InRow PROVE row \in Row /\ rows[row].status = "PENDING"
  BY DEF IInv, LoopInv, RowAtWork, RowInv

\* A committed result is never taken back or replaced, by any run.
THEOREM SettledFinal == Spec => SettledRowsAreFinal
<1>1. ASSUME IInv, [Next]_vars, NEW r \in Row, rows[r].status # "PENDING"
      PROVE  rows'[r] = rows[r]
  <2>1. rows' = rows \/ rows' = txRows
    BY <1>1, StoreStep DEF StoreMove
  <2> QED
    BY <1>1, <2>1 DEF IInv, RowInv
<1>2. IInv /\ [Next]_vars =>
        [\A r \in Row : rows[r].status # "PENDING" => rows'[r] = rows[r]]_rows
  BY <1>1
<1> QED
  BY <1>2, Invariance, PTL DEF Spec, SettledRowsAreFinal

\* No message is saved or deleted for a file whose result is committed.
THEOREM LeftAlone == Spec => SettledRowsAreLeftAlone
<1>1. ASSUME IInv, [Next]_vars, NEW m \in (pst \ pst') \cup (pst' \ pst)
      PROVE  rows[m.row].status = "PENDING"
  <2>1. CASE pst' = pst /\ rows' \in {rows, txRows}
    BY <1>1, <2>1
  <2>2. CASE InRow /\ \E k \in Kind : SaveMessage(k)
    <3>1. m.row = row
      BY <1>1, <2>2 DEF SaveMessage
    <3> QED
      BY <1>1, <2>2, <3>1, RowAtWorkPending
  <2>3. CASE pc = "saved" /\ pst' = {n \in pst : n.id # saved}
    <3>1. m.row = row
      BY <1>1, <2>3 DEF IInv, SaveInv
    <3> QED
      BY <1>1, <2>3, <3>1, RowAtWorkPending DEF InRow
  <2> QED
    BY <1>1, <2>1, <2>2, <2>3, StoreStep DEF StoreMove
<1>2. IInv /\ [Next]_vars =>
        [\A m \in (pst \ pst') \cup (pst' \ pst) : rows[m.row].status = "PENDING"]_pst
  BY <1>1
<1> QED
  BY <1>2, Invariance, PTL DEF Spec, SettledRowsAreLeftAlone

-----------------------------------------------------------------------------
(* The pipeline implements the ledger *)

\* Saving a message of kind k adds one entry to what is held for its row.
LEMMA SaveHolds ==
  ASSUME row \in Row, NEW k \in Kind, SaveMessage(k)
  PROVE  \E h \in {"message", "attachment"} : \A r \in Row :
           HeldFor(r)' = IF r = row THEN HeldFor(r) \cup {h} ELSE HeldFor(r)
<1> DEFINE new == [id |-> nextId, row |-> row, kind |-> k]
           h == IF k = "fallback" THEN "attachment" ELSE "message"
<1>1. pst' = pst \cup {new}
  BY DEF SaveMessage
<1>2. new.row = row /\ (Converted(new) <=> k # "fallback")
  BY DEF Converted
<1> HIDE DEF new
<1>3. ASSUME NEW r \in Row
      PROVE  HeldFor(r)' = IF r = row THEN HeldFor(r) \cup {h} ELSE HeldFor(r)
  <2>1. (\E m \in pst' : m.row = r /\ Converted(m)) <=>
          \/ \E m \in pst : m.row = r /\ Converted(m)
          \/ r = row /\ k # "fallback"
    BY <1>1, <1>2
  <2>2. (\E m \in pst' : m.row = r /\ ~Converted(m)) <=>
          \/ \E m \in pst : m.row = r /\ ~Converted(m)
          \/ r = row /\ k = "fallback"
    BY <1>1, <1>2
  <2> QED
    BY <2>1, <2>2 DEF HeldFor
<1> QED
  BY <1>3

\* Deleting the message just saved takes at most "message" off its row.
LEMMA DeleteHolds ==
  ASSUME IInv, pc = "saved", pst' = {m \in pst : m.id # saved}
  PROVE  \/ \A r \in Row : HeldFor(r)' = HeldFor(r)
         \/ \A r \in Row :
              HeldFor(r)' = IF r = row THEN HeldFor(r) \ {"message"} ELSE HeldFor(r)
<1>1. \A m \in pst : m.id = saved => m.row = row /\ Converted(m)
  BY DEF IInv, SaveInv
<1>2. ASSUME NEW r \in Row
      PROVE  (\E m \in pst' : m.row = r /\ ~Converted(m)) <=>
               \E m \in pst : m.row = r /\ ~Converted(m)
  BY <1>1
<1>3. ASSUME NEW r \in Row, r # row
      PROVE  (\E m \in pst' : m.row = r /\ Converted(m)) <=>
               \E m \in pst : m.row = r /\ Converted(m)
  BY <1>1, <1>3
<1>4. ASSUME NEW r \in Row, r # row PROVE HeldFor(r)' = HeldFor(r)
  BY <1>2, <1>3, <1>4 DEF HeldFor
<1>5. CASE \E m \in pst : m.row = row /\ Converted(m) /\ m.id # saved
  <2>1. ASSUME NEW r \in Row, r = row PROVE HeldFor(r)' = HeldFor(r)
    BY <1>2, <1>5, <2>1 DEF HeldFor
  <2> QED
    BY <1>4, <2>1
<1>6. CASE ~ \E m \in pst : m.row = row /\ Converted(m) /\ m.id # saved
  <2>1. ASSUME NEW r \in Row, r = row PROVE HeldFor(r)' = HeldFor(r) \ {"message"}
    BY <1>2, <1>6, <2>1 DEF HeldFor
  <2> QED
    BY <1>4, <2>1
<1> QED
  BY <1>5, <1>6

\* Initial states map to initial states of MessageLedger.
LEMMA LedgerStart == Init => Ledger!LedgerInit
  BY DEF Init, Ledger!LedgerInit, HeldFor

\* Every step maps to a step of MessageLedger or leaves its variables alone.
LEMMA LedgerStep ==
  ASSUME IInv, [Next]_vars PROVE [Ledger!LedgerNext]_(Ledger!ledgerVars)
<1> DEFINE status == [r \in Row |-> rows[r].status]
           held   == [r \in Row |-> HeldFor(r)]
<1>1. CASE pst' = pst /\ rows' \in {rows, txRows}
  <2>1. held' = held
    BY <1>1 DEF HeldFor, Converted
  <2>2. ASSUME NEW r \in Row, rows'[r].status # rows[r].status
        PROVE  rows[r].status = "PENDING" /\ Ledger!Justified(rows'[r].status, HeldFor(r))
    <3>1. rows' = txRows /\ rows[r].status = "PENDING"
      BY <1>1, <2>2 DEF IInv, RowInv
    <3>2. txRows[r].status \in Status
      BY <2>2 DEF IInv, RowInv, TypeRows, FileRow
    <3>3. Backed(txRows, r)
      BY <2>2 DEF IInv, RecordedIsSaved
    <3> QED
      BY <3>1, <3>2, <3>3
      DEF Backed, HeldFor, Ledger!Justified, Ledger!LedgerStatus, Status
  <2>3. Ledger!Record
    BY <2>1, <2>2 DEF Ledger!Record
  <2> QED
    BY <2>3 DEF Ledger!LedgerNext
<1>2. CASE rows' = rows /\ InRow /\ \E k \in Kind : SaveMessage(k)
  <2>1. row \in Row /\ rows[row].status = "PENDING"
    BY <1>2, RowAtWorkPending
  <2>2. PICK h \in {"message", "attachment"} : \A r \in Row :
          HeldFor(r)' = IF r = row THEN HeldFor(r) \cup {h} ELSE HeldFor(r)
    BY <1>2, <2>1, SaveHolds
  <2>3. Ledger!Save(row)
    BY <1>2, <2>1, <2>2 DEF Ledger!Save, Ledger!Held
  <2> QED
    BY <2>1, <2>3 DEF Ledger!LedgerNext
<1>3. CASE rows' = rows /\ pc = "saved" /\ pst' = {m \in pst : m.id # saved}
  <2>1. row \in Row /\ rows[row].status = "PENDING"
    BY <1>3, RowAtWorkPending DEF InRow
  <2>2. CASE \A r \in Row : HeldFor(r)' = HeldFor(r)
    BY <1>3, <2>2 DEF Ledger!ledgerVars
  <2>3. CASE \A r \in Row :
               HeldFor(r)' = IF r = row THEN HeldFor(r) \ {"message"} ELSE HeldFor(r)
    <3>1. Ledger!Discard(row)
      BY <1>3, <2>1, <2>3 DEF Ledger!Discard
    <3> QED
      BY <2>1, <3>1 DEF Ledger!LedgerNext
  <2> QED
    BY <1>3, <2>2, <2>3, DeleteHolds
<1> QED
  BY <1>1, <1>2, <1>3, StoreStep DEF StoreMove

\* The pipeline implements MessageLedger: whatever crashes, fails or is
\* resumed, a file's record is written once, after what it records, and the
\* PST is left alone for that file ever after.
THEOREM Implementation == Spec => KeepsLedger
<1>1. IInv /\ [Next]_vars => [Ledger!LedgerNext]_(Ledger!ledgerVars)
  BY LedgerStep
<1> QED
  BY <1>1, LedgerStart, Invariance, PTL DEF Spec, KeepsLedger, Ledger!LedgerSpec
=============================================================================
