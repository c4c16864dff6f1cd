------------------------------ MODULE MCIntake ------------------------------
(***************************************************************************)
(* TLC instances of Intake: a source of two nested directories, mail on    *)
(* every level, a directory and a mail below the limit, and a link that    *)
(* leads to more mail.                                                     *)
(***************************************************************************)
EXTENDS Intake

\* In the order of their paths.
Nodes == <<"", "a", "a/1", "a/2", "a/d", "a/d/e", "a/d/t", "a/d/x", "link", "link/m">>

MCNode == ToSet(Nodes)
MCRoot == ""
MCParent ==
  [n \in MCNode \ {""} |->
     CASE n \in {"a/1", "a/2", "a/d"}     -> "a"
       [] n \in {"a/d/e", "a/d/t", "a/d/x"} -> "a/d"
       [] n = "link/m"             -> "link"
       [] OTHER                    -> ""]
MCAbove ==
  [n \in MCNode |->
     CASE n = ""                   -> {""}
       [] n \in {"a/1", "a/2", "a/d"}     -> {n, "a", ""}
       [] n \in {"a/d/e", "a/d/t", "a/d/x"} -> {n, "a/d", "a", ""}
       [] n = "link/m"             -> {n, "link", ""}
       [] OTHER                    -> {n, ""}]
MCDepth == [n \in MCNode |-> Cardinality(MCAbove[n]) - 1]
MCKind ==
  [n \in MCNode |->
     CASE n \in {"", "a", "a/d", "a/d/e"} -> "dir"
       [] n = "link"                      -> "link"
       [] n = "a/d/t"                     -> "other"
       [] OTHER                           -> "mail"]
MCTagged == {"a/2"}
MCBefore(m, n) ==
  \E i, j \in DOMAIN Nodes : Nodes[i] = m /\ Nodes[j] = n /\ i < j

MCDisks == {MCNode \ {"a/d/e", "a/d/x"}, MCNode \ {"a/d/t", "a/2"}}

\* 40 + 27 is below the ceiling, 40 + 30 above it; three times 1400 overflows Word.
MCBytes ==
  [f \in {n \in MCNode : MCKind[n] = "mail"} |->
     [v \in {0, 1} |-> IF f = "a/1" THEN 40 + 1360 * v ELSE 27 + 3 * v]]
=============================================================================
