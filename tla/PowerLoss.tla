------------------------------ MODULE PowerLoss ------------------------------
(***************************************************************************)
(* ImportPipeline on a computer whose power may fail.  The state database  *)
(* is opened with journal_mode=WAL and synchronous=NORMAL: a COMMIT is     *)
(* there for every later process, but on the disk only after the next      *)
(* checkpoint.  When the power fails, the last commits may be gone, while  *)
(* the PST, which Outlook writes, still holds their messages.              *)
(***************************************************************************)
EXTENDS ImportPipeline

VARIABLES
  unsynced, \* what the database held before each of the last commits
  lost      \* history: rows whose result went with the power

powerVars == <<vars, unsynced, lost>>

Version == [rows |-> rows, folderMap |-> folderMap]

PowerInit == Init /\ unsynced = {} /\ lost = {}

\* A checkpoint is left out: all it does is to take away some of what PowerFails
\* may fall back to.
Log == unsynced' = unsynced \cup {Version}

PipelineNext ==
  /\ Next
  /\ IF <<rows, folderMap>>' = <<rows, folderMap>> THEN UNCHANGED unsynced ELSE Log
  /\ UNCHANGED lost

\* The process ends as in Crash, and the database falls back to an earlier commit.
PowerFails ==
  /\ run > 0
  /\ \E v \in unsynced :
       /\ rows' = v.rows /\ folderMap' = v.folderMap
       /\ txRows' = rows' /\ txFolderMap' = folderMap'
  /\ unsynced' = {}
  /\ lost' = lost \cup {r \in Row : rows'[r] # rows[r]}
  /\ tx' = FALSE
  /\ FreshRun /\ outcome' = "running" /\ cancelled' = FALSE
  /\ pc' = "off" /\ todo' = {}
  /\ UNCHANGED <<pst, nextId, processVars>>

PowerNext == PipelineNext \/ PowerFails

PowerSpec == PowerInit /\ [][PowerNext]_powerVars

-----------------------------------------------------------------------------
(* Properties *)

\* The crash window: at most one batch of files has messages in the PST that the
\* committed rows do not account for, even after several crashes, apart from the
\* files whose results went with the power.
WindowBounded ==
  "dbwrite" \notin Faults =>
    Cardinality({r \in Row \ lost : rows[r].status = "PENDING" /\ \E m \in pst : m.row = r})
      <= BatchSize
=============================================================================
