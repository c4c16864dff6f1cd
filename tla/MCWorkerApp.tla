---------------------------- MODULE MCWorkerApp ----------------------------
(***************************************************************************)
(* TLC instances of WorkerApp.                                             *)
(***************************************************************************)
EXTENDS WorkerApp

CONSTANTS f1, f2

\* All rows share the folder f1.
MCTarget == [r \in 1..NRows |-> f1]

\* Bound: messages ever saved.
CONSTANT MaxSaves
SavesBounded == nextId <= MaxSaves + 1
=============================================================================
