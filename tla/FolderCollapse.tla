--------------------------- MODULE FolderCollapse ---------------------------
(***************************************************************************)
(* build_collapse_map: from the source directories that hold messages to   *)
(* the logical folders a person navigates.  Windows Live Mail's container  *)
(* folders are dropped from every path, and folders that differ only in    *)
(* case share the spelling that came first.                                *)
(*                                                                         *)
(* A segment of a path is a record: which text it starts with (stem), the  *)
(* " (n)" suffixes after that, whether periods trail, and whether it is    *)
(* spelled in another case than the stem.  The hash is "" except in the    *)
(* shortened names of FolderPlan.                                          *)
(***************************************************************************)
EXTENDS Naturals, SequencesExt

CONSTANTS
  Stem,          \* texts of segments, without case
  Shape,         \* what the code looks at in a stem
  Pattern,       \* what may be given as --flatten-also
  Path,          \* source directories that may hold messages
  MaxDirs,       \* bound: source directories
  Before(_, _)   \* order of std::wstring on paths

ASSUME ShapeAssumption ==
  Shape \in [Stem -> [digits : Nat, dashes : Nat, other : BOOLEAN, builtin : BOOLEAN]]
ASSUME PatternAssumption ==
  \A p \in Pattern : p.covers \subseteq Stem /\ p.star \in BOOLEAN /\ p.dup \in Seq(Nat)

Segment == [stem : Stem, dup : Seq(Nat), trail : BOOLEAN, upper : BOOLEAN, hash : {""}]

ASSUME PathAssumption == Path \subseteq Seq(Segment)

VARIABLES
  flatten, patterns,  \* CollapseOptions
  dirs,       \* source_dirs
  pc,         \* where build_collapse_map, later build_folder_plan, is
  todo,       \* directories of the outer loop still to come
  dir, rest,  \* the directory at work, its segments still to come
  kept,       \* segments of its logical path so far
  canonical,  \* lowercased logical path -> spelling of its last segment
  logical     \* result: directory -> logical path

collapseVars == <<flatten, patterns, dirs, pc, todo, dir, rest, kept, canonical, logical>>

CollapseInit ==
  /\ flatten \in BOOLEAN /\ patterns \in SUBSET Pattern
  /\ dirs \in UNION {kSubset(n, Path) : n \in 0..MaxDirs}
  /\ pc = "dirs" /\ todo = dirs /\ dir = <<>> /\ rest = <<>> /\ kept = <<>>
  /\ canonical = {} /\ logical = {}

-----------------------------------------------------------------------------
(* Segments *)

\* to_lower, of a segment and of a joined path
Lower(s) == [s EXCEPT !.upper = FALSE]
LowerPath(p) == [i \in DOMAIN p |-> Lower(p[i])]

\* One trailing " (n)" is dropped; a trailing period hides it.
WithoutDupSuffix(s) ==
  IF s.dup # <<>> /\ ~s.trail THEN [s EXCEPT !.dup = Front(@)] ELSE s

\* Letters count as "a short hexish tag", however many there are.
IsRecoveryTimestamp(s) ==
  /\ ~Shape[s.stem].other /\ s.dup = <<>> /\ ~s.trail
  /\ Shape[s.stem].dashes >= 2 /\ Shape[s.stem].digits >= 6

\* A pattern with a star covers every stem it is a prefix of.
MatchesPattern(s, p) ==
  /\ s.stem \in p.covers
  /\ p.star \/ (s.dup = p.dup /\ ~s.trail)

IsBuiltin(s) == Shape[s.stem].builtin /\ s.dup = <<>> /\ ~s.trail

IsContainerSegment(s) ==
  \/ flatten /\ IsBuiltin(WithoutDupSuffix(s))
  \/ flatten /\ IsRecoveryTimestamp(s)
  \/ \E p \in patterns : MatchesPattern(WithoutDupSuffix(s), p)

\* Mutant of Key: the case is kept.
KeyCased(p) == p

\* The key of a logical path in `canonical`.
Key(p) == LowerPath(p)

-----------------------------------------------------------------------------
(* The loops *)

\* Mutant of NextDir: the segments of the last directory stay.
NextDirKeeping ==
  /\ pc = "dirs"
  /\ \E d \in todo :
        /\ \A e \in todo \ {d} : Before(d, e)
        /\ todo' = todo \ {d}
        /\ dir' = d /\ rest' = d /\ pc' = "segments"
  /\ UNCHANGED <<flatten, patterns, dirs, kept, canonical, logical>>

\* The directories are sorted first.
NextDir ==
  /\ pc = "dirs"
  /\ \E d \in todo :
        /\ \A e \in todo \ {d} : Before(d, e)
        /\ todo' = todo \ {d}
        /\ dir' = d /\ rest' = d /\ kept' = <<>> /\ pc' = "segments"
  /\ UNCHANGED <<flatten, patterns, dirs, canonical, logical>>

DropSegment ==
  /\ pc = "segments" /\ rest # <<>>
  /\ IsContainerSegment(Head(rest))
  /\ rest' = Tail(rest)
  /\ UNCHANGED <<flatten, patterns, dirs, pc, todo, dir, kept, canonical, logical>>

\* merge_case_variants is flatten, as run_worker_app sets it.
KeepSegment ==
  /\ pc = "segments" /\ rest # <<>>
  /\ ~IsContainerSegment(Head(rest))
  /\ LET name == Head(rest)
         key  == Key(Append(kept, name)) IN
     \/ /\ ~flatten
        /\ kept' = Append(kept, name) /\ UNCHANGED canonical
     \/ /\ flatten
        /\ \E c \in canonical : c.key = key /\ kept' = Append(kept, c.name)
        /\ UNCHANGED canonical
     \/ /\ flatten
        /\ \A c \in canonical : c.key # key
        /\ canonical' = canonical \union {[key |-> key, name |-> name]}
        /\ kept' = Append(kept, name)
  /\ rest' = Tail(rest)
  /\ UNCHANGED <<flatten, patterns, dirs, pc, todo, dir, logical>>

DirDone ==
  /\ pc = "segments" /\ rest = <<>>
  /\ logical' = logical \union {[dir |-> dir, path |-> kept]}
  /\ pc' = "dirs"
  /\ UNCHANGED <<flatten, patterns, dirs, todo, dir, rest, kept, canonical>>

CollapseStep == NextDir \/ DropSegment \/ KeepSegment \/ DirDone

-----------------------------------------------------------------------------
(* Properties *)

\* Folders that differ only in case become one (README.md "Folder flattening"),
\* at every depth and whichever spelling or container they were reached through.
CaseVariantsMerge ==
  flatten =>
    \A a, b \in logical : LowerPath(a.path) = LowerPath(b.path) => a.path = b.path

\* How many of the first n segments of a path stay.
StayUpTo(p, n) == Cardinality({i \in 1..n : ~IsContainerSegment(p[i])})

\* q is what stays of the first n segments of p, up to case.
Keeps(p, n, q) ==
  /\ Len(q) = StayUpTo(p, n)
  /\ \A i \in 1..n :
       ~IsContainerSegment(p[i]) => Lower(q[StayUpTo(p, i)]) = Lower(p[i])

\* A directory keeps every segment that is not a container, in order.
PositionKept == \A l \in logical : Keeps(l.dir, Len(l.dir), l.path)
=============================================================================
