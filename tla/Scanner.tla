------------------------------ MODULE Scanner ------------------------------
(***************************************************************************)
(* The inventory of the source: scan_source_tree (worker/scanner).         *)
(*                                                                         *)
(* The walk keeps a stack of directories and the iterator of the one at    *)
(* work.  A call of the file system is an action; what may go wrong with   *)
(* it is in Faults.  Some failures are reported in the lists of issues,    *)
(* some are not: see `lost'.                                                *)
(***************************************************************************)
EXTENDS Integers, Sequences, SequencesExt, Functions

CONSTANTS
  Node,         \* what lies below the source root, what lies behind links included
  Root,         \* the source root
  Parent,       \* Parent[n] for every node but the root
  Above,        \* Above[n]: n and everything above it
  Depth,        \* components below the root
  Kind,         \* "dir", "mail" (a regular file *.eml), "link" (symlink, junction) or "other"
  Tagged,       \* other reparse points, of any of the other kinds: only the probe knows them
  Before(_, _), \* the order of relative paths: without case, then exact
  MaxDepth,     \* ScanOptions::max_depth
  Faults        \* what may fail, see FaultKinds

FaultKinds == {"root",    \* the root is not a directory or cannot be examined
               "open",    \* a directory cannot be opened
               "denied",  \* access to a directory is denied (skip_permission_denied)
               "stat",    \* symlink_status fails
               "probe",   \* GetFileAttributesW fails
               "size",    \* file_size or last_write_time fails
               "next",    \* the iterator cannot be advanced
               "throw"}   \* an exception of the file system library

ASSUME TreeAssumption ==
  /\ Root \in Node
  /\ Parent \in [Node \ {Root} -> Node]
  /\ Kind \in [Node -> {"dir", "mail", "link", "other"}] /\ Kind[Root] = "dir"
  /\ Tagged \subseteq Node \ {Root}
  /\ Above \in [Node -> SUBSET Node] /\ Above[Root] = {Root}
  /\ Depth \in [Node -> Nat] /\ Depth[Root] = 0
  /\ \A n \in Node \ {Root} : /\ Above[n] = {n} \cup Above[Parent[n]]
                              /\ Depth[n] = Depth[Parent[n]] + 1
                              /\ Kind[Parent[n]] \in {"dir", "link"}
  /\ \A n \in Node :                      \* what a path from the root amounts to
       /\ Root \in Above[n]
       /\ \A a \in Above[n] : /\ Above[a] \subseteq Above[n] /\ Depth[a] <= Depth[n]
                              /\ a # n => \E c \in Above[n] \ {Root} : Parent[c] = a
ASSUME OrderAssumption ==   \* no two paths are equal, so one comes first
  \A m, n \in {k \in Node : Kind[k] = "mail"} : m # n => Before(m, n) \/ Before(n, m)
ASSUME ScanAssumption == MaxDepth \in Nat /\ Faults \subseteq FaultKinds

VARIABLES
  present,     \* the nodes that are on the disk
  walk,        \* "start", "walking", "done" or "failed"
  stack,       \* directories still to be opened: PendingDir without its paths
  current,     \* the directory at work
  todo,        \* what its iterator has not returned yet
  entries,     \* ScanResult::entries, sorted when the walk is done
  skipped,     \* issues.skipped_reparse_points
  tooDeep,     \* issues.too_deep
  unreadable,  \* issues.unreadable
  lost         \* history: what was passed over without a report

issues   == <<skipped, tooDeep, unreadable>>
reports  == <<issues, lost>>
scanVars == <<walk, stack, current, todo, entries, reports>>

PendingDir == [dir : Node, depth : Nat]

Children(d) == {n \in present \ {Root} : Parent[n] = d}

Discard ==
  /\ stack' = <<>> /\ todo' = {} /\ current' = [dir |-> Root, depth |-> 0]
  /\ entries' = <<>> /\ skipped' = {} /\ tooDeep' = {} /\ unreadable' = {}
  /\ lost' = {}

ScanInit ==
  /\ walk = "start" /\ stack = <<>> /\ todo = {}
  /\ current = [dir |-> Root, depth |-> 0]
  /\ entries = <<>> /\ skipped = {} /\ tooDeep = {} /\ unreadable = {}
  /\ lost = {}

RootMissing ==
  /\ walk = "start" /\ "root" \in Faults
  /\ walk' = "failed"
  /\ UNCHANGED <<stack, current, todo, entries, reports>>

StartWalk ==
  /\ walk = "start"
  /\ walk' = "walking"
  /\ stack' = <<[dir |-> Root, depth |-> 0]>>
  /\ UNCHANGED <<current, todo, entries, reports>>

-----------------------------------------------------------------------------
(* The outer loop: one directory after the other, last in first out *)

PopDir ==
  /\ walk = "walking" /\ todo = {} /\ stack # <<>>
  /\ current' = Last(stack)
  /\ stack' = Front(stack)
  /\ UNCHANGED <<walk, entries, skipped, tooDeep>>

OpenDir == PopDir /\ todo' = Children(current'.dir) /\ UNCHANGED <<unreadable, lost>>

OpenFails ==
  /\ "open" \in Faults
  /\ PopDir
  /\ unreadable' = unreadable \cup {current'.dir}
  /\ UNCHANGED <<todo, lost>>

\* With skip_permission_denied the iterator is at its end and there is no error.
OpenDenied ==
  /\ "denied" \in Faults
  /\ PopDir
  /\ lost' = lost \cup {current'.dir}
  /\ UNCHANGED <<todo, unreadable>>

-----------------------------------------------------------------------------
(* The inner loop: what is done with one entry.  When the iterator cannot  *)
(* be advanced, the rest of the directory is given up.                     *)

\* Mutant: the rest of the directory is given up without a word.
AdvanceQuietly(e, reported) ==
  \/ todo' = todo \ {e} /\ unreadable' = unreadable \cup reported
  \/ "next" \in Faults /\ todo' = {} /\ unreadable' = unreadable \cup reported

Advance(e, reported) ==
  \/ todo' = todo \ {e} /\ unreadable' = unreadable \cup reported
  \/ /\ "next" \in Faults
     /\ todo' = {}
     /\ unreadable' = unreadable \cup reported \cup {current.dir}

StatFails(e) ==
  /\ "stat" \in Faults
  /\ lost' = lost \cup {e}
  /\ Advance(e, {})
  /\ UNCHANGED <<walk, stack, current, entries, skipped, tooDeep>>

VisitLink(e) ==
  /\ Kind[e] = "link" \/ e \in Tagged
  /\ skipped' = skipped \cup {e}
  /\ Advance(e, {})
  /\ UNCHANGED <<walk, stack, current, entries, tooDeep, lost>>

\* Mutant: status() instead of symlink_status() follows the link.
ProbeFailsFollows(e) ==
  /\ Kind[e] = "link" /\ "probe" \in Faults
  /\ stack' = Append(stack, [dir |-> e, depth |-> current.depth + 1])
  /\ Advance(e, {})
  /\ UNCHANGED <<walk, current, entries, skipped, tooDeep, lost>>

\* symlink_status does not follow a symlink or a junction: it is neither directory
\* nor file.
ProbeFails(e) ==
  /\ Kind[e] = "link" /\ "probe" \in Faults
  /\ lost' = lost \cup {e}
  /\ Advance(e, {})
  /\ UNCHANGED <<walk, stack, current, entries, skipped, tooDeep>>

\* Mutant: the extension of a regular file is not looked at.
VisitOtherAsMail(e) ==
  /\ Kind[e] = "other"
  /\ entries' = Append(entries, e)
  /\ Advance(e, {})
  /\ UNCHANGED <<walk, stack, current, skipped, tooDeep, lost>>

VisitOther(e) ==
  /\ Kind[e] = "other"
  /\ Advance(e, {})
  /\ UNCHANGED <<walk, stack, current, entries, skipped, tooDeep, lost>>

VisitDir(e) ==
  /\ Kind[e] = "dir"
  /\ LET d == current.depth + 1
     IN  IF d > MaxDepth
           THEN tooDeep' = tooDeep \cup {e} /\ UNCHANGED stack
           ELSE stack' = Append(stack, [dir |-> e, depth |-> d]) /\ UNCHANGED tooDeep
  /\ Advance(e, {})
  /\ UNCHANGED <<walk, current, entries, skipped, lost>>

\* Mutant: the entry is taken and the iterator not advanced.
VisitMailAgain(e) ==
  /\ Kind[e] = "mail" /\ current.depth + 1 <= MaxDepth
  /\ entries' = Append(entries, e)
  /\ UNCHANGED <<walk, stack, current, todo, reports>>

VisitMail(e) ==
  /\ Kind[e] = "mail" /\ current.depth + 1 <= MaxDepth
  /\ entries' = Append(entries, e)
  /\ Advance(e, {})
  /\ UNCHANGED <<walk, stack, current, skipped, tooDeep, lost>>

MailTooDeep(e) ==
  /\ Kind[e] = "mail" /\ current.depth + 1 > MaxDepth
  /\ tooDeep' = tooDeep \cup {e}
  /\ Advance(e, {})
  /\ UNCHANGED <<walk, stack, current, entries, skipped, lost>>

MailUnreadable(e) ==
  /\ Kind[e] = "mail" /\ current.depth + 1 <= MaxDepth /\ "size" \in Faults
  /\ Advance(e, {e})
  /\ UNCHANGED <<walk, stack, current, entries, skipped, tooDeep, lost>>

\* Without the probe any other reparse point is what symlink_status takes it for.
ToExamine == {e \in todo : e \in Tagged => "probe" \in Faults}

VisitEntry ==
  \/ \E e \in todo : StatFails(e) \/ ProbeFails(e) \/ VisitLink(e)
  \/ \E e \in ToExamine :
       VisitOther(e) \/ VisitDir(e) \/ VisitMail(e) \/ MailTooDeep(e) \/ MailUnreadable(e)

\* Mutant: the order of enumeration is kept.
EntriesAsFound == {entries}

\* std::sort: the same entries, none before one it should follow.
SortedEntries ==
  {seq \in {[i \in DOMAIN entries |-> entries[p[i]]] :
               p \in Bijection(DOMAIN entries, DOMAIN entries)} :
     \A i, j \in DOMAIN entries : i < j => ~Before(seq[j], seq[i])}

FinishWalk ==
  /\ walk = "walking" /\ todo = {} /\ stack = <<>>
  /\ walk' = "done"
  /\ entries' \in SortedEntries
  /\ UNCHANGED <<stack, current, todo, reports>>

\* The catch of scan_source_tree: nothing of the walk is kept.
WalkThrows ==
  /\ walk = "walking" /\ "throw" \in Faults
  /\ walk' = "failed"
  /\ Discard

\* Nobody touches the source while it is scanned.
ScanStep ==
  /\ \/ RootMissing \/ StartWalk
     \/ OpenDir \/ OpenFails \/ OpenDenied
     \/ VisitEntry \/ FinishWalk \/ WalkThrows
  /\ UNCHANGED present

-----------------------------------------------------------------------------
(* Properties *)

Mail == {n \in Node : Kind[n] = "mail"}
PresentMail == Mail \cap present
Listed == skipped \cup tooDeep \cup unreadable

ScanTypeOK ==
  /\ walk \in {"start", "walking", "done", "failed"}
  /\ present \subseteq Node
  /\ stack \in Seq(PendingDir) /\ current \in PendingDir
  /\ todo \subseteq Children(current.dir)
  /\ entries \in Seq(Mail)
  /\ Listed \subseteq Node /\ lost \subseteq Node

Accounted(f, reported) == f \in ToSet(entries) \/ Above[f] \cap reported # {}

\* Every mail on the disk is in the manifest, or it lies at or below something
\* the scan reports, or below something one of three silent failures met: a
\* directory whose access is denied, an entry that cannot be examined, a link.
MailAccounted == walk = "done" => \A f \in PresentMail : Accounted(f, Listed \cup lost)

\* No mail is converted twice: a file gets one entry, however the walk went.
NothingTwice == \A i, j \in DOMAIN entries : i # j => entries[i] # entries[j]

\* A symlink or junction is never followed, also when the probe fails, and
\* nothing below the limit is converted.
NothingBehindLinks ==
  \A f \in ToSet(entries) :
     /\ Depth[f] <= MaxDepth
     /\ \A n \in Above[f] : Kind[n] # "link"
=============================================================================
