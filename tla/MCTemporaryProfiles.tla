------------------------ MODULE MCTemporaryProfiles ------------------------
(***************************************************************************)
(* TLC instances of TemporaryProfiles.                                     *)
(***************************************************************************)
EXTENDS TemporaryProfiles, TLC

CONSTANTS w1, w2, p1, p2, p3, p4

\* Workers and names are interchangeable; no property of these runs is a
\* liveness property.
Symmetry == Permutations(Workers) \union Permutations(Profiles)
=============================================================================
