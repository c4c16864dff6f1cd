---------------------------- MODULE MCFolderPlan ----------------------------
(***************************************************************************)
(* TLC instances of FolderPlan: source trees made of names chosen to       *)
(* collide.                                                                *)
(***************************************************************************)
EXTENDS FolderPlan

\* In their order.  "stamp" stands for a name such as "25-12-2023   f3", or as
\* "2019-06-15 Wedding"; "ctl" is "a" and a control character.
MCStems == <<"", "stamp", "_", "ctl", "a_", "inbox", "long1", "long2", "longp",
             "root messages", "storage folders", "x", "zahav">>
MCStem == ToSet(MCStems)

Plain == [digits |-> 0, dashes |-> 0, other |-> FALSE, builtin |-> FALSE]
MCShape ==
  [s \in MCStem |->
     CASE s = "stamp"             -> [Plain EXCEPT !.digits = 8, !.dashes = 2]
       [] s = "storage folders"     -> [Plain EXCEPT !.builtin = TRUE]
       [] s \in {"", "ctl", "_", "a_", "zahav"} -> [Plain EXCEPT !.other = TRUE]
       [] OTHER                     -> Plain]

\* --flatten-also "Zahav*"
MCPattern == {[covers |-> {"zahav"}, dup |-> <<>>, star |-> TRUE]}
MCClean == [s \in MCStem |-> IF s = "ctl" THEN "a_" ELSE s]
MCPrefix == [s \in {"long1", "long2"} |-> "longp"]

Name(stem) == [stem |-> stem, dup |-> <<>>, trail |-> FALSE, upper |-> FALSE, hash |-> ""]
Cased(s)   == [s EXCEPT !.upper = TRUE]
Dotted(s)  == [s EXCEPT !.trail = TRUE]
Dup(s, n)  == [s EXCEPT !.dup = Append(@, n)]

\* The worst hash: all long names get the same one.
MCHash(s) == "h"
MCRootMessages == Cased(Name("root messages"))

Inbox == Name("inbox")
X == Name("x")
MCPath ==
  { <<>>, <<Inbox>>, <<Cased(Inbox)>>, <<Dotted(Inbox)>>, <<Dup(Inbox, 2)>>,
    <<Inbox, X>>, <<Dup(Name("storage folders"), 1), Cased(Inbox), X>>,
    <<Name("storage folders")>>, <<Name("storage folders"), Name("stamp"), Inbox, Cased(X)>>,
    <<Name("stamp"), Dup(Inbox, 2), X>>, <<Name("zahav"), Inbox>>, <<Dup(Name("zahav"), 1), X>>,
    <<Name("long1")>>, <<Name("long2"), X>>, <<Name("root messages")>>, <<MCRootMessages>>,
    <<Name("ctl"), X>>, <<Name("a_"), Cased(X)>>, <<Dotted(Name(""))>>, <<Name("_")>> }

-----------------------------------------------------------------------------
(* Orders *)

StemRank(s) == CHOOSE i \in DOMAIN MCStems : MCStems[i] = s
\* " (2)" before " (2)." before "."
TailRank(s) ==
  IF s.dup = <<>> THEN IF s.trail THEN 9 ELSE 0 ELSE Len(s.dup) + (IF s.trail THEN 1 ELSE 0)
CaseRank(s) == IF s.upper THEN 0 ELSE 1

\* Upper case letters come before all lower case ones.
ExactRank(s) == 10000 * CaseRank(s) + 100 * StemRank(s.stem) + TailRank(s)
\* Case only decides between names that are otherwise equal.
FoldedRank(s) == 10000 * StemRank(s.stem) + 10 * TailRank(s) + CaseRank(s)

\* A suffix or a trailing period comes before the separator of the next segment.
SuffixFirst(p, q, i) ==
  i < Len(p) /\ TailRank(p[i]) = 0 /\ TailRank(q[i]) > 0
    /\ p[i].stem = q[i].stem /\ p[i].upper = q[i].upper

MCBefore(p, q) ==
  \/ IsStrictPrefix(p, q)
  \/ \E i \in DOMAIN p \cap DOMAIN q :
        /\ \A j \in 1..(i - 1) : p[j] = q[j]
        /\ \/ SuffixFirst(q, p, i)
           \/ ExactRank(p[i]) < ExactRank(q[i]) /\ ~SuffixFirst(p, q, i)

NodeName(n) == IF n = <<>> THEN RootMessages ELSE Last(n)
MCSiblingBefore(m, n) == FoldedRank(NodeName(m)) < FoldedRank(NodeName(n))
=============================================================================
