----------------------------- MODULE FolderPlan -----------------------------
(***************************************************************************)
(* The folders of the PST, as run_worker_app plans them: the directories   *)
(* with messages are collapsed (FolderCollapse), then build_folder_plan    *)
(* names the folders of the logical tree level by level, one group of      *)
(* siblings after the other.                                               *)
(*                                                                         *)
(* A node of the tree is its path; <<>> is the synthetic node that takes   *)
(* the messages directly under the source root.                            *)
(***************************************************************************)
EXTENDS FolderCollapse

CONSTANTS
  RootMessages,         \* kRootMessagesFolder, a segment
  Blank, Underscore,    \* the stems of an empty text and of "_"
  Clean,                \* stem with control characters replaced by "_"
  Long,                 \* stems of more than kLongNameThreshold characters
  Prefix,               \* their first kTruncatedNameLength characters
  Hash(_),              \* fnv1a_hash of a segment, need not be injective
  SiblingBefore(_, _),  \* compare_ci, then exact, on nodes with one parent
  MaxDepth              \* kMaxDepthSegments

ASSUME PlanStemAssumption ==
  /\ {Blank, Underscore} \subseteq Stem /\ Long \subseteq Stem
  /\ Clean \in [Stem -> Stem] /\ Prefix \in [Long -> Stem]
  /\ RootMessages \in Segment

VARIABLES
  parent,     \* parent_source_relative of the group at work
  group,      \* its siblings that have no name yet
  used,       \* used_names_ci: names given in this group
  queue,      \* nodes whose group is still to come
  target      \* plan.folders: node -> target_segments

planVars == <<parent, group, used, queue, target>>
vars == <<collapseVars, planVars>>

Init ==
  /\ CollapseInit
  /\ parent = <<>> /\ group = {} /\ used = {} /\ queue = <<>> /\ target = {}

-----------------------------------------------------------------------------
(* Names *)

Normalize(s) ==
  LET trimmed == [s EXCEPT !.stem = Clean[@], !.trail = FALSE]
      named   == IF trimmed.stem = Blank /\ trimmed.dup = <<>>
                 THEN [trimmed EXCEPT !.stem = Underscore] ELSE trimmed
  IN IF named.stem \in Long
     THEN [named EXCEPT !.stem = Prefix[@], !.dup = <<>>, !.hash = Hash(s)]
     ELSE named

BaseName(node) == IF node = <<>> THEN RootMessages ELSE Normalize(Last(node))

Suffixed(s, k) == [s EXCEPT !.dup = Append(@, k)]

\* Mutant of Taken: compares exactly.
TakenExactly(s) == s \in used

\* compare_ci with every name of the group
Taken(s) == \E u \in used : Lower(s) = Lower(u)

\* The base name, or "base (k)" for the least k >= 2 that is free.
FinalName(node) ==
  LET base == BaseName(node) IN
  IF ~Taken(base) THEN base
  ELSE LET free == {k \in 2..(Cardinality(used) + 2) : ~Taken(Suffixed(base, k))}
       IN Suffixed(base, Min(free))

-----------------------------------------------------------------------------
(* The tree *)

LogicalDirs == {l.path : l \in logical}

\* Every directory with all its ancestors.
Nodes == UNION {{SubSeq(p, 1, n) : n \in 1..Len(p)} : p \in LogicalDirs}

Children(node) == {p \in Nodes : p # <<>> /\ Front(p) = node}

\* Mutant of ParentTarget: the names before normalization and suffixes.
ParentTargetUnresolved == parent

\* parent_target_segments
ParentTarget == IF parent = <<>> THEN <<>> ELSE (CHOOSE t \in target : t.node = parent).path

TooDeep == \E p \in LogicalDirs : Len(p) > MaxDepth

\* run_worker_app ends with INVALID_SOURCE.
PlanFails ==
  /\ pc = "dirs" /\ todo = {} /\ TooDeep
  /\ pc' = "failed"
  /\ UNCHANGED <<flatten, patterns, dirs, todo, dir, rest, kept, canonical, logical, planVars>>

\* Mutant of StartPlan: messages directly under the source root are forgotten.
StartPlanRootless ==
  /\ pc = "dirs" /\ todo = {} /\ ~TooDeep
  /\ parent' = <<>> /\ group' = Children(<<>>) /\ used' = {}
  /\ pc' = "group"
  /\ UNCHANGED <<flatten, patterns, dirs, todo, dir, rest, kept, canonical, logical, queue, target>>

StartPlan ==
  /\ pc = "dirs" /\ todo = {} /\ ~TooDeep
  /\ parent' = <<>> /\ used' = {}
  /\ group' = Children(<<>>) \union (LogicalDirs \cap {<<>>})
  /\ pc' = "group"
  /\ UNCHANGED <<flatten, patterns, dirs, todo, dir, rest, kept, canonical, logical, queue, target>>

\* One turn of the loop of process_sibling_group; a folder named like the synthetic
\* node may come before or after it.  The children go to the queue
\* in the order of the tree, which is that of the set of directories.
PlaceSibling ==
  /\ pc = "group"
  /\ \E node \in group :
        LET path == IF node = <<>> THEN node ELSE Append(parent, Last(node))
            name == FinalName(node) IN
        /\ \A n \in group \ {node} : ~SiblingBefore(n, node)
        /\ group' = group \ {node}
        /\ used' = used \union {name}
        /\ target' = target \union {[node |-> path, path |-> Append(ParentTarget, name)]}
        /\ IF node = <<>> THEN UNCHANGED queue
           ELSE \E s \in SetToSeqs(Children(node)) :
                   /\ \A i, j \in DOMAIN s : i < j => Before(s[i], s[j])
                   /\ queue' = queue \o s
  /\ UNCHANGED <<collapseVars, parent>>

\* The nodes at the front of the queue that have the parent of the first.
NextGroup ==
  /\ pc = "group" /\ group = {}
  /\ \E n \in 1..Len(queue) :
        /\ \A i \in 1..n : Front(queue[i]) = Front(queue[1])
        /\ n < Len(queue) => Front(queue[n + 1]) # Front(queue[1])
        /\ group' = {queue[i] : i \in 1..n}
        /\ queue' = SubSeq(queue, n + 1, Len(queue))
  /\ parent' = Front(queue[1])
  /\ used' = {}
  /\ UNCHANGED <<collapseVars, target>>

PlanDone ==
  /\ pc = "group" /\ group = {} /\ queue = <<>>
  /\ pc' = "done"
  /\ UNCHANGED <<flatten, patterns, dirs, todo, dir, rest, kept, canonical, logical, planVars>>

Next ==
  \/ CollapseStep /\ UNCHANGED planVars
  \/ PlanFails \/ StartPlan \/ PlaceSibling \/ NextGroup \/ PlanDone

Spec == Init /\ [][Next]_vars

-----------------------------------------------------------------------------
(* Properties *)

LowerTarget(t) == LowerPath(t.path)

\* Two folders of the logical tree never get the same place in the PST, which
\* does not tell names apart by case: neither through trimming, replaced
\* characters, shortened names with equal hashes nor a folder that is really
\* called "Name (2)".
TargetsDiffer ==
  \A s, t \in target : s.node # t.node => LowerTarget(s) # LowerTarget(t)

\* The tree keeps its shape: a folder is placed in the folder of its parent,
\* and that was placed before.
TreeKept ==
  \A t \in target :
     Len(t.node) > 1 => \E s \in target : s.node = Front(t.node) /\ s.path = Front(t.path)

\* Every logical folder has a place, so the loop over source directories never
\* meets an "unplanned folder" (worker_app.cpp:263).
EveryDirPlanned ==
  pc = "done" => \A l \in logical : \E t \in target : t.node = l.path
=============================================================================
