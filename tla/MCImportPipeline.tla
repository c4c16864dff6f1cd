-------------------------- MODULE MCImportPipeline --------------------------
(***************************************************************************)
(* TLC instances of ImportPipeline.                                        *)
(***************************************************************************)
EXTENDS ImportPipeline

CONSTANTS f1, f2

\* Rows 1 and 3 share a folder, row 2 has its own, so that a batch crosses
\* folders and a folder is visited again after another one.
MCTarget == [r \in 1..NRows |-> IF r % 2 = 1 THEN f1 ELSE f2]

\* Bound of the runs with every kind of fault: messages ever saved.
CONSTANT MaxSaves
SavesBounded == nextId <= MaxSaves + 1
=============================================================================
