---------------------------- MODULE IntakeProofs ----------------------------
(***************************************************************************)
(* Theorems about Intake for every source tree, every disk, every limit,   *)
(* every set of faults and any number of launches and edits between them.  *)
(*                                                                         *)
(* The invariant of the walk says where everything is that has not been    *)
(* settled: below an entry the iterator has yet to return, or below a      *)
(* directory on the stack, and no two of these lie below each other.       *)
(*                                                                         *)
(* The second part is about the launch: the order of the manifest, and the *)
(* size of the job, added up and estimated in 64 bits.                     *)
(***************************************************************************)
EXTENDS Intake, FiniteSetTheorems, WellFoundedInduction, TLAPS

\* The tree below the source root.
LEMMA Tree ==
  /\ Root \in Node /\ Kind[Root] = "dir" /\ Depth[Root] = 0 /\ Above[Root] = {Root}
  /\ MaxDepth \in Nat
  /\ \A n \in Node : /\ Above[n] \subseteq Node /\ n \in Above[n] /\ Root \in Above[n]
                     /\ Depth[n] \in Nat
  /\ \A n \in Node \ {Root} : /\ Parent[n] \in Node
                              /\ Above[n] = {n} \cup Above[Parent[n]]
                              /\ Depth[n] = Depth[Parent[n]] + 1
                              /\ Kind[Parent[n]] \in {"dir", "link"}
  /\ \A n \in Node : \A a \in Above[n] :
       /\ Above[a] \subseteq Above[n] /\ Depth[a] <= Depth[n]
       /\ a # n => \E c \in Above[n] \ {Root} : Parent[c] = a
<1>1. /\ Root \in Node /\ Kind[Root] = "dir" /\ Depth[Root] = 0 /\ Above[Root] = {Root}
      /\ MaxDepth \in Nat
  BY TreeAssumption, ScanAssumption
<1>2. \A n \in Node \ {Root} : /\ Parent[n] \in Node
                              /\ Above[n] = {n} \cup Above[Parent[n]]
                              /\ Depth[n] = Depth[Parent[n]] + 1
                              /\ Kind[Parent[n]] \in {"dir", "link"}
  BY TreeAssumption
<1>3. \A n \in Node : Above[n] \subseteq Node /\ Depth[n] \in Nat /\ Root \in Above[n]
  BY TreeAssumption
<1>4. \A n \in Node : n \in Above[n]
  BY <1>1, <1>2
<1>5. \A n \in Node : \A a \in Above[n] :
       /\ Above[a] \subseteq Above[n] /\ Depth[a] <= Depth[n]
       /\ a # n => \E c \in Above[n] \ {Root} : Parent[c] = a
  BY TreeAssumption
<1> QED
  BY <1>1, <1>2, <1>3, <1>4, <1>5

\* Nothing lies below a file.
LEMMA FileIsLeaf ==
  ASSUME NEW f \in Node, NEW a \in Above[f], Kind[a] \notin {"dir", "link"}
  PROVE  a = f
<1> SUFFICES ASSUME a # f PROVE FALSE
  OBVIOUS
<1>1. PICK c \in Above[f] \ {Root} : Parent[c] = a
  BY Tree
<1>2. c \in Node \ {Root}
  BY <1>1, Tree
<1>3. Kind[Parent[c]] \in {"dir", "link"}
  BY <1>2, Tree
<1> QED
  BY <1>1, <1>3

\* Removing the last element of a sequence and appending one.
LEMMA PopSeq ==
  ASSUME NEW S, NEW s \in Seq(S), s # <<>>
  PROVE  /\ Front(s) \in Seq(S) /\ Last(s) \in S /\ Len(s) \in DOMAIN s /\ Last(s) = s[Len(s)]
         /\ \A i \in DOMAIN Front(s) : i \in DOMAIN s /\ i # Len(s) /\ Front(s)[i] = s[i]
         /\ \A i \in DOMAIN s : i # Len(s) => i \in DOMAIN Front(s)
  BY DEF Front, Last

LEMMA PushSeq ==
  ASSUME NEW S, NEW s \in Seq(S), NEW x \in S
  PROVE  /\ Append(s, x) \in Seq(S)
         /\ DOMAIN Append(s, x) = DOMAIN s \cup {Len(s) + 1} /\ Len(s) + 1 \notin DOMAIN s
         /\ Append(s, x)[Len(s) + 1] = x
         /\ \A i \in DOMAIN s : Append(s, x)[i] = s[i]
  OBVIOUS

-----------------------------------------------------------------------------
(* The invariant of the walk *)

\* The directories and entries that are still to be visited.
Pending == todo \cup {stack[i].dir : i \in DOMAIN stack}

WalkTypeOK ==
  /\ walk \in {"start", "walking", "done", "failed"}
  /\ present \subseteq Node /\ \A n \in present : Above[n] \subseteq present
  /\ stack \in Seq(PendingDir) /\ current \in PendingDir
  /\ todo \subseteq Children(current.dir)
  /\ entries \in Seq(Mail)
  /\ Listed \subseteq Node /\ lost \subseteq Node

\* A directory of the walk is one, with its depth, and not behind a link.
OnTheWay(p) ==
  /\ Kind[p.dir] = "dir" /\ p.depth = Depth[p.dir] /\ p.depth <= MaxDepth
  /\ \A n \in Above[p.dir] : Kind[n] # "link"

Placed == OnTheWay(current) /\ \A i \in DOMAIN stack : OnTheWay(stack[i])

\* What is pending lies apart, and nothing that is pending leads to an entry again.
Apart ==
  /\ \A i, j \in DOMAIN stack : i # j => stack[i].dir \notin Above[stack[j].dir]
  /\ \A e \in todo, i \in DOMAIN stack : /\ stack[i].dir \notin Above[e]
                                         /\ e \notin Above[stack[i].dir]
  /\ \A k \in DOMAIN entries : Above[entries[k]] \cap Pending = {}

\* Mail is accounted for or below something pending.
Followed ==
  /\ walk = "start" => stack = <<>> /\ entries = <<>>
  /\ walk # "walking" => todo = {}
  /\ walk = "walking" =>
       \A f \in PresentMail : Accounted(f, Listed \cup lost) \/ Above[f] \cap Pending # {}

WalkInv ==
  /\ WalkTypeOK /\ Placed /\ NothingBehindLinks /\ Apart /\ NothingTwice
  /\ Followed /\ MailAccounted

-----------------------------------------------------------------------------
(* Steps of the walk *)

\* What visiting an entry does, whichever it is and whatever fails.
Visits(e) ==
  /\ e \in todo /\ todo' \subseteq todo \ {e} /\ current' = current /\ walk' = walk
  /\ \/ stack' = stack
     \/ /\ Kind[e] = "dir" /\ current.depth + 1 <= MaxDepth /\ entries' = entries
        /\ stack' = Append(stack, [dir |-> e, depth |-> current.depth + 1])
  /\ \/ entries' = entries
     \/ /\ Kind[e] = "mail" /\ current.depth + 1 <= MaxDepth /\ stack' = stack
        /\ entries' = Append(entries, e)
  /\ Listed \subseteq Listed' /\ Listed' \subseteq Listed \cup {e, current.dir}
  /\ lost \subseteq lost' /\ lost' \subseteq lost \cup {e}
  /\ \/ e \in Listed' \cup lost' \/ Kind[e] = "other"
     \/ entries' = Append(entries, e)
     \/ stack' = Append(stack, [dir |-> e, depth |-> current.depth + 1])
  /\ todo' = todo \ {e} \/ current.dir \in Listed'

LEMMA VisitStep == ASSUME VisitEntry, current.depth \in Nat PROVE \E e \in todo : Visits(e)
<1>1. PICK e \in todo : \/ StatFails(e) \/ ProbeFails(e) \/ VisitLink(e) \/ VisitOther(e)
                        \/ VisitDir(e) \/ VisitMail(e) \/ MailTooDeep(e) \/ MailUnreadable(e)
  BY DEF VisitEntry, ToExamine
<1> USE DEF Visits, Advance, Listed
<1>2. CASE StatFails(e)
  BY <1>2 DEF StatFails
<1>3. CASE ProbeFails(e)
  BY <1>3 DEF ProbeFails
<1>4. CASE VisitLink(e)
  BY <1>4 DEF VisitLink
<1>5. CASE VisitOther(e)
  BY <1>5 DEF VisitOther
<1>6. CASE VisitDir(e)
  <2>1. ASSUME current.depth + 1 > MaxDepth PROVE Visits(e)
    BY <1>6, <2>1 DEF VisitDir
  <2>2. ASSUME current.depth + 1 <= MaxDepth PROVE Visits(e)
    BY <1>6, <2>2 DEF VisitDir
  <2>3. current.depth + 1 > MaxDepth \/ current.depth + 1 <= MaxDepth
    BY Tree
  <2> HIDE DEF Visits
  <2> QED
    BY <2>1, <2>2, <2>3
<1>7. CASE VisitMail(e)
  BY <1>7 DEF VisitMail
<1>8. CASE MailTooDeep(e)
  BY <1>8 DEF MailTooDeep
<1>9. CASE MailUnreadable(e)
  BY <1>9 DEF MailUnreadable
<1> QED
  BY <1>1, <1>2, <1>3, <1>4, <1>5, <1>6, <1>7, <1>8, <1>9

\* An entry of the directory at work.
LEMMA EntryAt ==
  ASSUME WalkTypeOK, Placed, NEW e \in todo
  PROVE  /\ e \in Node \ {Root} /\ Parent[e] = current.dir /\ e \in present
         /\ Above[e] = {e} \cup Above[current.dir] /\ Depth[e] = current.depth + 1
         /\ current.depth \in Nat /\ current.dir \in Node
  BY Tree DEF WalkTypeOK, Placed, OnTheWay, Children, PendingDir

\* Visiting an entry keeps the types and places.
LEMMA VisitPlaced ==
  ASSUME WalkInv, NEW e \in todo, Visits(e), present' = present
  PROVE  WalkTypeOK' /\ Placed' /\ NothingBehindLinks'
<1> DEFINE p == [dir |-> e, depth |-> current.depth + 1]
<1>1. /\ e \in Node \ {Root} /\ Above[e] = {e} \cup Above[current.dir]
      /\ Depth[e] = current.depth + 1 /\ current.depth \in Nat /\ current.dir \in Node
  BY EntryAt DEF WalkInv
<1>2. p \in PendingDir /\ p.dir = e /\ p.depth = Depth[e]
  BY <1>1 DEF PendingDir
<1>3. stack \in Seq(PendingDir) /\ entries \in Seq(Mail)
  BY DEF WalkInv, WalkTypeOK
<1>4. \A n \in Above[current.dir] : Kind[n] # "link"
  BY DEF WalkInv, Placed, OnTheWay
<1>5. WalkTypeOK'
  <2>1. stack' \in Seq(PendingDir)
    BY <1>2, <1>3, PushSeq DEF Visits
  <2>2. entries' \in Seq(Mail)
    BY <1>1, <1>3, PushSeq DEF Visits, Mail
  <2> QED
    BY <1>1, <2>1, <2>2 DEF WalkInv, WalkTypeOK, Visits, Children
<1>6. Placed'
  <2>1. CASE stack' = stack
    BY <2>1 DEF WalkInv, Placed, Visits, OnTheWay
  <2>2. CASE Kind[e] = "dir" /\ current.depth + 1 <= MaxDepth /\ stack' = Append(stack, p)
    <3>1. OnTheWay(p)
      BY <1>1, <1>2, <1>4, <2>2 DEF OnTheWay
    <3> HIDE DEF p
    <3>2. \A i \in DOMAIN stack' : OnTheWay(stack'[i])
      BY <1>2, <1>3, <2>2, <3>1, PushSeq DEF WalkInv, Placed
    <3>3. OnTheWay(current) /\ current' = current
      BY DEF WalkInv, Placed, Visits
    <3> QED
      BY <3>2, <3>3 DEF Placed, OnTheWay
  <2> QED
    BY <2>1, <2>2 DEF Visits
<1>7. NothingBehindLinks'
  <2>1. CASE entries' = entries
    BY <2>1 DEF WalkInv, NothingBehindLinks
  <2>2. CASE Kind[e] = "mail" /\ current.depth + 1 <= MaxDepth /\ entries' = Append(entries, e)
    <3>1. ToSet(entries') = ToSet(entries) \cup {e}
      BY <1>1, <1>3, <2>2, PushSeq DEF ToSet, Mail
    <3>2. Depth[e] <= MaxDepth /\ \A n \in Above[e] : Kind[n] # "link"
      BY <1>1, <1>4, <2>2
    <3> QED
      BY <3>1, <3>2 DEF WalkInv, NothingBehindLinks
  <2> QED
    BY <2>1, <2>2 DEF Visits
<1> QED
  BY <1>5, <1>6, <1>7

\* Visiting an entry keeps what is pending apart, and adds no entry again.
LEMMA VisitApart ==
  ASSUME WalkInv, NEW e \in todo, Visits(e), present' = present
  PROVE  Apart' /\ NothingTwice'
<1> DEFINE p == [dir |-> e, depth |-> current.depth + 1]
<1>1. /\ e \in Node \ {Root} /\ Above[e] = {e} \cup Above[current.dir]
      /\ Depth[e] = current.depth + 1 /\ current.depth \in Nat /\ current.dir \in Node
  BY EntryAt DEF WalkInv
<1>2. p \in PendingDir /\ p.dir = e
  BY <1>1 DEF PendingDir
<1>3. stack \in Seq(PendingDir) /\ entries \in Seq(Mail)
  BY DEF WalkInv, WalkTypeOK
<1>4. ASSUME NEW t \in todo PROVE t \notin Above[current.dir]
  <2>1. Depth[t] = current.depth + 1 /\ Depth[current.dir] = current.depth
    BY EntryAt DEF WalkInv, Placed, OnTheWay
  <2> QED
    BY <1>1, <2>1, Tree
<1>5. ASSUME NEW t \in todo, t # e PROVE t \notin Above[e] /\ e \notin Above[t]
  BY <1>1, <1>4, <1>5, EntryAt DEF WalkInv
<1>6. /\ \A i, j \in DOMAIN stack : i # j => stack[i].dir \notin Above[stack[j].dir]
      /\ \A t \in todo, i \in DOMAIN stack : /\ stack[i].dir \notin Above[t]
                                             /\ t \notin Above[stack[i].dir]
      /\ \A k \in DOMAIN entries : Above[entries[k]] \cap Pending = {}
  BY DEF WalkInv, Apart
<1>7. todo' \subseteq todo \ {e}
  BY DEF Visits
<1>8. CASE stack' = stack
  <2>1. Pending' \subseteq Pending \ {e}
    <3>1. \A i \in DOMAIN stack : stack[i].dir # e
      BY <1>1, <1>6
    <3> QED
      BY <1>7, <1>8, <3>1 DEF Pending
  <2>2. CASE entries' = entries
    BY <1>6, <1>7, <1>8, <2>1, <2>2 DEF Apart, NothingTwice, WalkInv
  <2>3. CASE entries' = Append(entries, e) /\ Kind[e] = "mail"
    <3>1. Above[e] \cap Pending' = {}
      <4>1. \A i \in DOMAIN stack : stack[i].dir \notin Above[e]
        BY <1>6
      <4>2. \A t \in todo' : t \notin Above[e]
        BY <1>5, <1>7
      <4> QED
        BY <1>8, <4>1, <4>2 DEF Pending
    <3>2. \A k \in DOMAIN entries : entries[k] # e
      BY <1>1, <1>6 DEF Pending
    <3>3. /\ DOMAIN entries' = DOMAIN entries \cup {Len(entries) + 1}
          /\ Len(entries) + 1 \notin DOMAIN entries /\ entries'[Len(entries) + 1] = e
          /\ \A k \in DOMAIN entries : entries'[k] = entries[k]
      BY <1>1, <1>3, <2>3, PushSeq DEF Mail
    <3>4. Apart'
      BY <1>6, <1>7, <1>8, <2>1, <3>1, <3>3 DEF Apart
    <3>5. NothingTwice'
      BY <3>2, <3>3 DEF WalkInv, NothingTwice
    <3> QED
      BY <3>4, <3>5
  <2> QED
    BY <2>2, <2>3 DEF Visits
<1>9. CASE stack' = Append(stack, p) /\ entries' = entries
  <2> HIDE DEF p
  <2>1. /\ DOMAIN stack' = DOMAIN stack \cup {Len(stack) + 1}
        /\ Len(stack) + 1 \notin DOMAIN stack /\ stack'[Len(stack) + 1].dir = e
        /\ \A i \in DOMAIN stack : stack'[i].dir = stack[i].dir
    BY <1>2, <1>3, <1>9, PushSeq
  <2>2. Pending' \subseteq Pending
    BY <1>7, <2>1 DEF Pending
  <2>3. \A i \in DOMAIN stack : stack[i].dir \notin Above[e] /\ e \notin Above[stack[i].dir]
    BY <1>6
  <2>4. \A i, j \in DOMAIN stack' : i # j => stack'[i].dir \notin Above[stack'[j].dir]
    BY <1>6, <2>1, <2>3
  <2>5. \A t \in todo', i \in DOMAIN stack' : /\ stack'[i].dir \notin Above[t]
                                              /\ t \notin Above[stack'[i].dir]
    BY <1>5, <1>6, <1>7, <2>1
  <2>6. \A k \in DOMAIN entries' : Above[entries'[k]] \cap Pending' = {}
    BY <1>6, <1>9, <2>2
  <2> QED
    BY <1>9, <2>4, <2>5, <2>6 DEF Apart, NothingTwice, WalkInv
<1> QED
  BY <1>8, <1>9 DEF Visits

\* Visiting an entry loses no mail without a report or an entry in `lost'.
LEMMA VisitFollowed ==
  ASSUME WalkInv, walk = "walking", NEW e \in todo, Visits(e), present' = present
  PROVE  Followed' /\ MailAccounted'
<1> DEFINE p == [dir |-> e, depth |-> current.depth + 1]
<1>1. /\ e \in Node \ {Root} /\ Above[e] = {e} \cup Above[current.dir]
      /\ current.depth \in Nat /\ current.dir \in Node
  BY EntryAt DEF WalkInv
<1>2. p \in PendingDir /\ p.dir = e
  BY <1>1 DEF PendingDir
<1>3. stack \in Seq(PendingDir) /\ entries \in Seq(Mail)
  BY DEF WalkInv, WalkTypeOK
<1>4. walk' = "walking" /\ PresentMail' = PresentMail
  BY DEF Visits, PresentMail
<1>5. Listed \cup lost \subseteq (Listed \cup lost)'
  BY DEF Visits
<1>6. stack' = stack \/ stack' = Append(stack, p)
  BY DEF Visits
<1>7. ASSUME NEW i \in DOMAIN stack PROVE stack[i].dir \in Pending'
  <2> HIDE DEF p
  <2>1. i \in DOMAIN stack' /\ stack'[i] = stack[i]
    BY <1>2, <1>3, <1>6, PushSeq
  <2> QED
    BY <2>1 DEF Pending
<1>8. ToSet(entries) \subseteq ToSet(entries')
  <2>1. CASE entries' = entries
    BY <2>1
  <2>2. CASE entries' = Append(entries, e) /\ Kind[e] = "mail"
    BY <1>1, <1>3, <2>2, PushSeq DEF ToSet, Mail
  <2> QED
    BY <2>1, <2>2 DEF Visits
<1>9. ASSUME NEW f \in PresentMail
      PROVE  (Accounted(f, Listed \cup lost) \/ Above[f] \cap Pending # {})'
  <2>1. f \in Node /\ Kind[f] = "mail"
    BY DEF PresentMail, Mail
  <2>2. CASE Accounted(f, Listed \cup lost)
    BY <1>5, <1>8, <2>2 DEF Accounted
  <2>3. CASE \E a \in Above[f] : a \in Pending
    <3>1. PICK a \in Above[f] : a \in Pending
      BY <2>3
    <3>2. CASE a = e
      <4>1. CASE e \in Listed' \cup lost'
        BY <3>1, <3>2, <4>1 DEF Accounted
      <4>2. CASE Kind[e] = "other"
        BY <2>1, <3>1, <3>2, <4>2, FileIsLeaf
      <4>3. CASE Kind[e] = "mail" /\ entries' = Append(entries, e)
        <5>1. e = f
          BY <2>1, <3>1, <3>2, <4>3, FileIsLeaf
        <5>2. e \in ToSet(entries')
          BY <1>1, <1>3, <4>3, PushSeq DEF ToSet, Mail
        <5> QED
          BY <5>1, <5>2 DEF Accounted
      <4>4. CASE stack' = Append(stack, p)
        <5> HIDE DEF p
        <5>1. Len(stack) + 1 \in DOMAIN stack' /\ stack'[Len(stack) + 1].dir = e
          BY <1>2, <1>3, <4>4, PushSeq
        <5>2. e \in Pending'
          BY <5>1 DEF Pending
        <5> QED
          BY <3>1, <3>2, <5>2
      <4>5. entries' = Append(entries, e) => Kind[e] = "mail"
        <5>1. entries' = Append(entries, e) => entries' # entries
          BY <1>1, <1>3
        <5> QED
          BY <5>1 DEF Visits
      <4> QED
        BY <4>1, <4>2, <4>3, <4>4, <4>5 DEF Visits
    <3>3. CASE a # e /\ a \in todo
      <4>1. CASE a \in todo'
        BY <3>1, <4>1 DEF Pending
      <4>2. CASE current.dir \in Listed'
        <5>1. a \in Node /\ Above[a] \subseteq Above[f]
          BY <2>1, <3>1, Tree
        <5>2. current.dir \in Above[a]
          BY <1>1, <3>3, EntryAt, Tree DEF WalkInv
        <5> QED
          BY <4>2, <5>1, <5>2 DEF Accounted
      <4> QED
        BY <3>3, <4>1, <4>2 DEF Visits
    <3>4. CASE \E i \in DOMAIN stack : a = stack[i].dir
      BY <1>7, <3>1, <3>4
    <3> QED
      BY <3>1, <3>2, <3>3, <3>4 DEF Pending
  <2> QED
    BY <2>2, <2>3 DEF WalkInv, Followed, Pending
<1> QED
  BY <1>4, <1>9 DEF Followed, MailAccounted

-----------------------------------------------------------------------------
(* Opening a directory *)

\* What taking the next directory does, whether it can be opened or not.
LEMMA Popped ==
  ASSUME WalkInv, PopDir
  PROVE  /\ stack' \in Seq(PendingDir) /\ current' \in PendingDir /\ current'.dir \in Pending
         /\ OnTheWay(current') /\ \A i \in DOMAIN stack' : OnTheWay(stack'[i])
         /\ \A i, j \in DOMAIN stack' : i # j => stack'[i].dir \notin Above[stack'[j].dir]
         /\ \A i \in DOMAIN stack' : /\ stack'[i].dir \in Pending
                                     /\ stack'[i].dir \notin Above[current'.dir]
                                     /\ current'.dir \notin Above[stack'[i].dir]
         /\ \A a \in Pending : a = current'.dir \/ \E i \in DOMAIN stack' : a = stack'[i].dir
<1>1. stack \in Seq(PendingDir) /\ stack # <<>> /\ todo = {} /\ current' = Last(stack)
      /\ stack' = Front(stack)
  BY DEF WalkInv, WalkTypeOK, PopDir
<1>2. /\ stack' \in Seq(PendingDir) /\ current' \in PendingDir
      /\ Len(stack) \in DOMAIN stack /\ current' = stack[Len(stack)]
      /\ \A i \in DOMAIN stack' : i \in DOMAIN stack /\ i # Len(stack) /\ stack'[i] = stack[i]
      /\ \A i \in DOMAIN stack : i # Len(stack) => i \in DOMAIN stack'
  BY <1>1, PopSeq
<1>3. \A i \in DOMAIN stack : stack[i].dir \in Pending
  BY DEF Pending
<1>4. \A i, j \in DOMAIN stack : i # j => stack[i].dir \notin Above[stack[j].dir]
  BY DEF WalkInv, Apart
<1>5. \A i \in DOMAIN stack : OnTheWay(stack[i])
  BY DEF WalkInv, Placed
<1>6. \A a \in Pending : \E i \in DOMAIN stack : a = stack[i].dir
  BY <1>1 DEF Pending
<1>7. \A a \in Pending : a = current'.dir \/ \E i \in DOMAIN stack' : a = stack'[i].dir
  BY <1>2, <1>6
<1>8. \A i \in DOMAIN stack' : /\ stack'[i].dir \in Pending
                               /\ stack'[i].dir \notin Above[current'.dir]
                               /\ current'.dir \notin Above[stack'[i].dir]
  BY <1>2, <1>3, <1>4
<1>9. \A i, j \in DOMAIN stack' : i # j => stack'[i].dir \notin Above[stack'[j].dir]
  BY <1>2, <1>4
<1>10. OnTheWay(current') /\ \A i \in DOMAIN stack' : OnTheWay(stack'[i])
  BY <1>2, <1>5
<1> QED
  BY <1>2, <1>3, <1>7, <1>8, <1>9, <1>10

LEMMA OpenDirKeeps == ASSUME WalkInv, OpenDir, present' = present PROVE WalkInv'
<1> DEFINE d == current'.dir
<1>1. /\ PopDir /\ todo' = Children(d) /\ entries' = entries /\ walk = "walking"
      /\ walk' = walk /\ Listed' = Listed /\ lost' = lost /\ PresentMail' = PresentMail
  BY DEF OpenDir, PopDir, Listed, PresentMail
<1>2. d \in Node /\ Kind[d] = "dir" /\ d \in Pending
  BY <1>1, Popped DEF PendingDir, OnTheWay
<1>3. \A c \in todo' : c \in Node \ {Root} /\ Above[c] = {c} \cup Above[d] /\ c \in present
  BY <1>1, Tree DEF Children, WalkInv, WalkTypeOK
<1>4. WalkTypeOK'
  BY <1>1, Popped DEF WalkInv, WalkTypeOK, Children
<1>5. Placed'
  BY <1>1, Popped DEF Placed, OnTheWay
<1>6. NothingBehindLinks' /\ NothingTwice'
  BY <1>1 DEF WalkInv, NothingBehindLinks, NothingTwice
<1>7. Apart'
  <2>1. ASSUME NEW c \in todo', NEW i \in DOMAIN stack'
        PROVE  stack'[i].dir \notin Above[c] /\ c \notin Above[stack'[i].dir]
    <3>0. stack' \in Seq(PendingDir)
      BY <1>1, Popped
    <3>types. stack'[i] \in PendingDir
      BY <2>1, <3>0
    <3>1. stack'[i].dir \in Node
      BY <3>types DEF PendingDir
    <3>2. stack'[i].dir # c
      BY <1>1, <1>2, <1>3, <3>1, Popped, Tree
    <3>3. c \notin Above[stack'[i].dir]
      <4> SUFFICES ASSUME c \in Above[stack'[i].dir] PROVE FALSE
        OBVIOUS
      <4>1. Above[c] \subseteq Above[stack'[i].dir]
        BY <3>1, Tree
      <4>2. d \in Above[c]
        BY <1>2, <1>3, Tree
      <4> QED
        BY <1>1, <4>1, <4>2, Popped
    <3> QED
      BY <1>1, <1>3, <3>2, <3>3, Popped
  <2>2. ASSUME NEW k \in DOMAIN entries' PROVE Above[entries'[k]] \cap Pending' = {}
    <3>1. Above[entries[k]] \cap Pending = {} /\ entries'[k] = entries[k] /\ entries[k] \in Node
      BY <1>1, <2>2 DEF WalkInv, Apart, WalkTypeOK, Mail
    <3>2. \A i \in DOMAIN stack' : stack'[i].dir \notin Above[entries[k]]
      BY <1>1, <3>1, Popped
    <3>3. \A c \in todo' : c \notin Above[entries[k]]
      <4> SUFFICES ASSUME NEW c \in todo', c \in Above[entries[k]] PROVE FALSE
        OBVIOUS
      <4>1. Above[c] \subseteq Above[entries[k]]
        BY <3>1, Tree
      <4>2. d \in Above[c]
        BY <1>2, <1>3, Tree
      <4> QED
        BY <1>2, <3>1, <4>1, <4>2
    <3> QED
      BY <3>1, <3>2, <3>3 DEF Pending
  <2> QED
    BY <1>1, <2>1, <2>2, Popped DEF Apart
<1>8. ASSUME NEW f \in PresentMail
      PROVE  (Accounted(f, Listed \cup lost) \/ Above[f] \cap Pending # {})'
  <2>1. f \in Node /\ Kind[f] = "mail" /\ f \in present /\ Above[f] \subseteq present
    BY DEF PresentMail, Mail, WalkInv, WalkTypeOK
  <2>2. CASE Accounted(f, Listed \cup lost)
    BY <1>1, <2>2 DEF Accounted
  <2>3. CASE \E a \in Above[f] : a \in Pending
    <3>1. PICK a \in Above[f] : a \in Pending
      BY <2>3
    <3>2. CASE a = d
      <4>1. PICK c \in Above[f] \ {Root} : Parent[c] = d
        BY <1>2, <2>1, <3>1, <3>2, Tree
      <4>2. c \in todo'
        BY <1>1, <2>1, <4>1 DEF Children
      <4> QED
        BY <4>1, <4>2 DEF Pending
    <3>3. CASE \E i \in DOMAIN stack' : a = stack'[i].dir
      BY <3>1, <3>3 DEF Pending
    <3> QED
      BY <1>1, <3>1, <3>2, <3>3, Popped
  <2> QED
    BY <1>1, <2>2, <2>3 DEF WalkInv, Followed
<1>9. Followed' /\ MailAccounted'
  BY <1>1, <1>8 DEF Followed, MailAccounted
<1> QED
  BY <1>4, <1>5, <1>6, <1>7, <1>9 DEF WalkInv

LEMMA GivenUpKeeps == ASSUME WalkInv, OpenFails \/ OpenDenied, present' = present PROVE WalkInv'
<1> DEFINE d == current'.dir
<1>1. /\ PopDir /\ todo = {} /\ todo' = {} /\ entries' = entries /\ walk = "walking"
      /\ walk' = walk /\ PresentMail' = PresentMail
      /\ Listed \subseteq Listed' /\ lost \subseteq lost'
      /\ Listed' \subseteq Listed \cup {d} /\ lost' \subseteq lost \cup {d}
      /\ d \in Listed' \cup lost'
  BY DEF OpenFails, OpenDenied, PopDir, Listed, PresentMail
<1>2. d \in Node
  BY <1>1, Popped DEF PendingDir
<1>3. Pending' \subseteq Pending
  BY <1>1, Popped DEF Pending
<1>4. WalkTypeOK'
  BY <1>1, <1>2, Popped DEF WalkInv, WalkTypeOK
<1>5. Placed' /\ NothingBehindLinks' /\ NothingTwice'
  BY <1>1, Popped DEF Placed, OnTheWay, WalkInv, NothingBehindLinks, NothingTwice
<1>6. Apart'
  <2>1. \A i, j \in DOMAIN stack' : i # j => stack'[i].dir \notin Above[stack'[j].dir]
    BY <1>1, Popped
  <2>2. \A k \in DOMAIN entries' : Above[entries'[k]] \cap Pending' = {}
    BY <1>1, <1>3 DEF WalkInv, Apart
  <2> QED
    BY <1>1, <2>1, <2>2 DEF Apart
<1>7. ASSUME NEW f \in PresentMail
      PROVE  (Accounted(f, Listed \cup lost) \/ Above[f] \cap Pending # {})'
  <2>1. CASE Accounted(f, Listed \cup lost)
    BY <1>1, <2>1 DEF Accounted
  <2>2. CASE \E a \in Above[f] : a \in Pending
    <3>1. PICK a \in Above[f] : a \in Pending
      BY <2>2
    <3>2. CASE a = d
      BY <1>1, <3>1, <3>2 DEF Accounted
    <3>3. CASE \E i \in DOMAIN stack' : a = stack'[i].dir
      BY <3>1, <3>3 DEF Pending
    <3> QED
      BY <1>1, <3>1, <3>2, <3>3, Popped
  <2> QED
    BY <1>1, <2>1, <2>2 DEF WalkInv, Followed
<1>8. Followed' /\ MailAccounted'
  BY <1>1, <1>7 DEF Followed, MailAccounted
<1> QED
  BY <1>4, <1>5, <1>6, <1>8 DEF WalkInv

-----------------------------------------------------------------------------
(* The beginning and the end of a walk *)

LEMMA StartKeeps == ASSUME WalkInv, RootMissing \/ StartWalk, present' = present PROVE WalkInv'
<1>1. /\ walk = "start" /\ stack = <<>> /\ entries = <<>> /\ todo = {}
      /\ todo' = todo /\ entries' = entries /\ current' = current
      /\ Listed' = Listed /\ lost' = lost /\ PresentMail' = PresentMail
  BY DEF WalkInv, Followed, RootMissing, StartWalk, Listed, PresentMail,
         issues, reports
<1>2. CASE RootMissing
  <2>1. walk' = "failed" /\ stack' = stack
    BY <1>2 DEF RootMissing
  <2>2. WalkTypeOK' /\ Placed' /\ NothingBehindLinks' /\ NothingTwice' /\ Apart'
    BY <1>1, <2>1 DEF WalkInv, WalkTypeOK, Placed, OnTheWay, NothingBehindLinks, NothingTwice,
                      Apart, Pending
  <2> QED
    BY <1>1, <2>1, <2>2 DEF WalkInv, Followed, MailAccounted
<1>3. CASE StartWalk
  <2> DEFINE p == [dir |-> Root, depth |-> 0]
  <2>1. walk' = "walking" /\ stack' = <<p>>
    BY <1>3 DEF StartWalk
  <2>2. p \in PendingDir /\ p.dir = Root
    BY Tree DEF PendingDir
  <2>3. OnTheWay(p)
    BY Tree DEF OnTheWay
  <2> HIDE DEF p
  <2>4. stack' \in Seq(PendingDir) /\ DOMAIN stack' = {1} /\ stack'[1] = p
    BY <2>1, <2>2
  <2>5. WalkTypeOK'
    BY <1>1, <2>1, <2>4 DEF WalkInv, WalkTypeOK
  <2>6. Placed' /\ NothingBehindLinks' /\ NothingTwice'
    BY <1>1, <2>3, <2>4 DEF WalkInv, Placed, OnTheWay, NothingBehindLinks, NothingTwice
  <2>7. Apart'
    BY <1>1, <2>4 DEF Apart
  <2>8. Root \in Pending'
    BY <2>2, <2>4 DEF Pending
  <2>9. \A f \in PresentMail : Above[f] \cap Pending' # {}
    BY <2>8, Tree DEF PresentMail, Mail
  <2> QED
    BY <1>1, <2>1, <2>5, <2>6, <2>7, <2>9 DEF WalkInv, Followed, MailAccounted
<1> QED
  BY <1>2, <1>3

\* Sorting keeps the entries.
LEMMA SortKeeps ==
  ASSUME entries \in Seq(Mail), NEW seq \in SortedEntries
  PROVE  /\ seq \in Seq(Mail) /\ ToSet(seq) = ToSet(entries)
         /\ NothingTwice => \A i, j \in DOMAIN seq : i # j => seq[i] # seq[j]
<1> DEFINE D == DOMAIN entries
<1>1. PICK p \in Bijection(D, D) : seq = [i \in D |-> entries[p[i]]]
  BY DEF SortedEntries
<1>2. /\ p \in [D -> D] /\ \A i, j \in D : p[i] = p[j] => i = j
      /\ \A j \in D : \E i \in D : p[i] = j
  BY DEF Bijection, Injection, Surjection, IsInjective
<1>3. D = 1..Len(entries) /\ Len(entries) \in Nat
  OBVIOUS
<1>4. seq \in Seq(Mail)
  <2>1. seq \in [1..Len(entries) -> Mail]
    BY <1>1, <1>2, <1>3
  <2> QED
    BY <1>3, <2>1
<1>5. DOMAIN seq = D /\ \A i \in D : seq[i] = entries[p[i]]
  BY <1>1
<1>6. ToSet(seq) = ToSet(entries)
  BY <1>2, <1>5 DEF ToSet
<1>7. NothingTwice => \A i, j \in DOMAIN seq : i # j => seq[i] # seq[j]
  BY <1>2, <1>5 DEF NothingTwice
<1> QED
  BY <1>4, <1>6, <1>7

LEMMA FinishKeeps == ASSUME WalkInv, FinishWalk, present' = present PROVE WalkInv'
<1>1. /\ walk = "walking" /\ walk' = "done" /\ todo = {} /\ todo' = {} /\ stack = <<>>
      /\ stack' = <<>> /\ current' = current
      /\ Listed' = Listed /\ lost' = lost /\ PresentMail' = PresentMail
  BY DEF FinishWalk, Listed, PresentMail, issues, reports
<1>2. entries \in Seq(Mail) /\ entries' \in SortedEntries
  BY DEF WalkInv, WalkTypeOK, FinishWalk
<1>3. /\ entries' \in Seq(Mail) /\ ToSet(entries') = ToSet(entries)
      /\ \A i, j \in DOMAIN entries' : i # j => entries'[i] # entries'[j]
  BY <1>2, SortKeeps DEF WalkInv
<1>4. WalkTypeOK' /\ Placed'
  BY <1>1, <1>3 DEF WalkInv, WalkTypeOK, Placed, OnTheWay
<1>5. NothingBehindLinks' /\ NothingTwice'
  BY <1>3 DEF WalkInv, NothingBehindLinks, NothingTwice
<1>6. Pending = {} /\ Pending' = {}
  BY <1>1 DEF Pending
<1>7. Apart'
  BY <1>1, <1>6 DEF Apart
<1>8. Followed' /\ MailAccounted'
  BY <1>1, <1>3, <1>6 DEF WalkInv, Followed, MailAccounted, Accounted
<1> QED
  BY <1>4, <1>5, <1>7, <1>8 DEF WalkInv

\* A walk that has not begun, or of which nothing is kept.
LEMMA FreshWalk ==
  ASSUME Discard, walk' \in {"start", "failed"}, present' \subseteq Node,
         \A n \in present' : Above[n] \subseteq present'
  PROVE  WalkInv'
<1>1. /\ stack' = <<>> /\ todo' = {} /\ current' = [dir |-> Root, depth |-> 0]
      /\ entries' = <<>> /\ Listed' = {} /\ lost' = {}
  BY DEF Discard, Listed
<1>2. current' \in PendingDir /\ OnTheWay(current')
  BY <1>1, Tree DEF PendingDir, OnTheWay
<1>3. WalkTypeOK'
  BY <1>1, <1>2 DEF WalkTypeOK
<1>4. Placed' /\ NothingBehindLinks' /\ NothingTwice' /\ Apart'
  BY <1>1, <1>2 DEF Placed, OnTheWay, NothingBehindLinks, NothingTwice, Apart, ToSet
<1> QED
  BY <1>1, <1>3, <1>4 DEF WalkInv, Followed, MailAccounted

\* The invariant of the walk is kept by every step of it.
LEMMA WalkKeeps == ASSUME WalkInv, ScanStep PROVE WalkInv'
<1>1. present' = present
  BY DEF ScanStep
<1>2. CASE RootMissing \/ StartWalk
  BY <1>1, <1>2, StartKeeps
<1>3. CASE OpenDir
  BY <1>1, <1>3, OpenDirKeeps
<1>4. CASE OpenFails \/ OpenDenied
  BY <1>1, <1>4, GivenUpKeeps
<1>5. CASE VisitEntry
  <2>1. current.depth \in Nat
    BY DEF WalkInv, WalkTypeOK, PendingDir
  <2>2. PICK e \in todo : Visits(e)
    BY <1>5, <2>1, VisitStep
  <2>3. walk = "walking"
    BY <2>2 DEF WalkInv, Followed
  <2> QED
    BY <1>1, <2>2, <2>3, VisitPlaced, VisitApart, VisitFollowed DEF WalkInv
<1>6. CASE FinishWalk
  BY <1>1, <1>6, FinishKeeps
<1>7. CASE WalkThrows
  BY <1>1, <1>7, FreshWalk DEF WalkThrows, WalkInv, WalkTypeOK
<1> QED
  BY <1>2, <1>3, <1>4, <1>5, <1>6, <1>7 DEF ScanStep

-----------------------------------------------------------------------------
(* The launches *)

\* Past the scan the walk is done and nothing was too deep; a job that is
\* resumed converts what it was created for.
Settled ==
  /\ stage \in {"preflight", "space", "setup", "accepted"} => walk = "done" /\ tooDeep = {}
  /\ ResumedJobIsSame

IntakeInv == WalkInv /\ IntakeTypeOK /\ Settled

LEMMA ScanTyped == ASSUME WalkInv PROVE ScanTypeOK
  BY DEF WalkInv, WalkTypeOK, ScanTypeOK

LEMMA InitIntake == Init => IntakeInv
<1> SUFFICES ASSUME Init PROVE IntakeInv
  OBVIOUS
<1>1. /\ walk = "start" /\ stack = <<>> /\ todo = {} /\ current = [dir |-> Root, depth |-> 0]
      /\ entries = <<>> /\ Listed = {} /\ lost = {} /\ present \in Disks
  BY DEF Init, ScanInit, Listed
<1>2. present \subseteq Node /\ \A n \in present : Above[n] \subseteq present
  BY <1>1, IntakeAssumption
<1>3. current \in PendingDir /\ OnTheWay(current)
  BY <1>1, Tree DEF PendingDir, OnTheWay
<1>4. WalkTypeOK
  BY <1>1, <1>2, <1>3 DEF WalkTypeOK
<1>5. Placed /\ NothingBehindLinks /\ NothingTwice /\ Apart
  BY <1>1, <1>3 DEF Placed, OnTheWay, NothingBehindLinks, NothingTwice, Apart, ToSet
<1>6. WalkInv
  BY <1>1, <1>4, <1>5 DEF WalkInv, Followed, MailAccounted
<1>7. version \in [Mail -> Versions]
  BY IntakeAssumption DEF Init
<1>8. IntakeTypeOK
  BY <1>6, <1>7, ScanTyped DEF Init, IntakeTypeOK, ExitCode, Mode, NoJob, ToSet
<1> QED
  BY <1>6, <1>8 DEF IntakeInv, Settled, ResumedJobIsSame, Init

LEMMA LaunchKeeps ==
  ASSUME IntakeInv, NEW o \in [mode : Mode, settings : Settings], Launch(o)
  PROVE  IntakeInv'
<1>1. WalkInv'
  BY FreshWalk DEF Launch, NewWalk, source, IntakeInv, WalkInv, WalkTypeOK
<1>2. ScanTypeOK'
  BY <1>1 DEF WalkInv, WalkTypeOK, ScanTypeOK
<1>3. IntakeTypeOK'
  BY <1>2 DEF IntakeInv, IntakeTypeOK, Launch, ExitCode, NoJob, ToSet, source, jobVars
<1> QED
  BY <1>1, <1>3 DEF IntakeInv, Settled, ResumedJobIsSame, Launch

LEMMA EditKeeps == ASSUME IntakeInv, NEW f \in Mail, Edit(f) PROVE IntakeInv'
<1>1. f \in Node /\ Kind[f] = "mail" /\ f # Root
  BY Tree DEF Mail
<1>2. present \subseteq Node /\ \A n \in present : Above[n] \subseteq present
  BY DEF IntakeInv, WalkInv, WalkTypeOK
<1>3. present' \subseteq Node /\ \A n \in present' : Above[n] \subseteq present'
  <2>1. CASE present' = present
    BY <1>2, <2>1
  <2>2. CASE present' = present \ {f}
    <3>1. \A n \in present \ {f} : f \notin Above[n]
      BY <1>1, <1>2, FileIsLeaf
    <3> QED
      BY <1>2, <2>2, <3>1
  <2>3. CASE present' = present \cup {f} /\ Parent[f] \in present
    <3>1. Above[f] = {f} \cup Above[Parent[f]]
      BY <1>1, Tree
    <3> QED
      BY <1>1, <1>2, <2>3, <3>1
  <2> QED
    BY <2>1, <2>2, <2>3 DEF Edit
<1>4. WalkInv'
  BY <1>3, FreshWalk DEF Edit, NewWalk
<1>5. version' \in [Mail -> Versions]
  <2>1. version \in [Mail -> Versions]
    BY DEF IntakeInv, IntakeTypeOK
  <2> QED
    BY <2>1 DEF Edit
<1>6. ScanTypeOK'
  BY <1>4 DEF WalkInv, WalkTypeOK, ScanTypeOK
<1>7. IntakeTypeOK'
  BY <1>5, <1>6 DEF IntakeInv, IntakeTypeOK, Edit, ExitCode, launchVars, jobVars
<1> QED
  BY <1>4, <1>7 DEF IntakeInv, Settled, ResumedJobIsSame, Edit

\* What the walk left is not touched after it.
LEMMA WalkStays ==
  ASSUME WalkInv, UNCHANGED scanVars, UNCHANGED present
  PROVE  WalkInv' /\ ScanTypeOK' /\ walk' = walk /\ tooDeep' = tooDeep /\ entries' = entries
<1>1. /\ walk' = walk /\ stack' = stack /\ current' = current /\ todo' = todo
      /\ entries' = entries /\ skipped' = skipped /\ tooDeep' = tooDeep
      /\ unreadable' = unreadable /\ lost' = lost /\ present' = present
  BY DEF scanVars, reports, issues
<1>2. WalkInv'
  BY <1>1 DEF WalkInv, WalkTypeOK, Placed, OnTheWay, NothingBehindLinks, Apart, NothingTwice,
              Followed, MailAccounted, Accounted, PresentMail, Pending, Listed, Children
<1> QED
  BY <1>1, <1>2 DEF WalkInv, WalkTypeOK, ScanTypeOK

LEMMA RefuseKeeps ==
  ASSUME IntakeInv, NEW code \in ExitCode \ {"none"}, Refuse(code)
  PROVE  IntakeInv'
<1>1. UNCHANGED scanVars /\ UNCHANGED present
  BY DEF Refuse, source
<1>2. WalkInv' /\ ScanTypeOK'
  BY <1>1, WalkStays DEF IntakeInv
<1>3. IntakeTypeOK'
  BY <1>2 DEF IntakeInv, IntakeTypeOK, Refuse, launchVars, jobVars, source
<1> QED
  BY <1>2, <1>3 DEF IntakeInv, Settled, ResumedJobIsSame, Refuse

\* What a manifest hash was taken from.
LEMMA HashOf == ToSet(ManifestHash) = Scanned
<1>1. DOMAIN ManifestHash = DOMAIN entries
  BY DEF ManifestHash
<1>2. \A i \in DOMAIN entries : ManifestHash[i] = <<entries[i], version[entries[i]]>>
  BY DEF ManifestHash
<1> QED
  BY <1>1, <1>2 DEF ToSet, Scanned

LEMMA ScanKeeps == ASSUME IntakeInv, Scan PROVE IntakeInv'
<1>1. WalkInv'
  BY WalkKeeps DEF IntakeInv, Scan
<1>2. ScanTypeOK'
  BY <1>1 DEF WalkInv, WalkTypeOK, ScanTypeOK
<1>3. IntakeTypeOK'
  BY <1>2 DEF IntakeInv, IntakeTypeOK, Scan, launchVars, jobVars
<1> QED
  BY <1>1, <1>3 DEF IntakeInv, Settled, ResumedJobIsSame, Scan

LEMMA ProceedKeeps ==
  ASSUME IntakeInv, IntakeStep,
         NEW next \in {"preflight", "setup", "accepted"}, Proceed(next),
         walk = "done", tooDeep = {},
         ToSet(job'.hash) = origin', ResumedJobIsSame'
  PROVE  IntakeInv'
<1>1. UNCHANGED scanVars /\ UNCHANGED present
  BY DEF Proceed, source
<1>2. WalkInv' /\ ScanTypeOK' /\ walk' = walk /\ tooDeep' = tooDeep
  BY <1>1, WalkStays DEF IntakeInv
<1>3. stage # "refused"
  BY DEF IntakeStep, Scan, ScanFailed, RejectDeep, ScanAccepted, PreflightRefuses, ProbeSpace,
         SpaceRefuses, PreflightPasses, ResumeRefused, ResumeAccepted, CreateJob
<1>4. IntakeTypeOK'
  BY <1>2, <1>3 DEF IntakeInv, IntakeTypeOK, Proceed, launchVars, source
<1> QED
  BY <1>2, <1>4 DEF IntakeInv, Settled

LEMMA IntakeKeeps == ASSUME IntakeInv, IntakeStep PROVE IntakeInv'
<1>1. CASE Scan
  BY <1>1, ScanKeeps
<1>2. CASE ScanFailed \/ RejectDeep
  <2>1. Refuse("INVALID_SOURCE") /\ "INVALID_SOURCE" \in ExitCode \ {"none"}
    BY <1>2 DEF ScanFailed, RejectDeep, ExitCode
  <2> QED
    BY <2>1, RefuseKeeps
<1>3. CASE PreflightRefuses \/ SpaceRefuses \/ ResumeRefused
  <2>1. PICK code \in ExitCode \ {"none"} : Refuse(code)
    BY <1>3 DEF PreflightRefuses, EnvironmentRefuses, SpaceRefuses, ResumeRefused, ExitCode
  <2> QED
    BY <2>1, RefuseKeeps
<1>4. CASE ScanAccepted
  <2>1. /\ Proceed("preflight") /\ walk = "done" /\ tooDeep = {} /\ UNCHANGED jobVars
        /\ stage' = "preflight"
    BY <1>4 DEF ScanAccepted, Proceed
  <2>2. ToSet(job'.hash) = origin' /\ ResumedJobIsSame'
    BY <2>1 DEF IntakeInv, IntakeTypeOK, ResumedJobIsSame, jobVars
  <2> QED
    BY <2>1, <2>2, ProceedKeeps
<1>5. CASE ProbeSpace
  <2>1. /\ UNCHANGED scanVars /\ UNCHANGED present /\ UNCHANGED <<version, exit, job, origin, options>>
        /\ stage = "preflight" /\ stage' = "space"
    BY <1>5 DEF ProbeSpace, source, launchVars, jobVars
  <2>2. WalkInv' /\ ScanTypeOK' /\ walk' = walk /\ tooDeep' = tooDeep
    BY <2>1, WalkStays DEF IntakeInv
  <2>3. IntakeTypeOK'
    BY <2>1, <2>2 DEF IntakeInv, IntakeTypeOK
  <2> QED
    BY <2>1, <2>2, <2>3 DEF IntakeInv, Settled, ResumedJobIsSame
<1>6. CASE PreflightPasses
  <2>1. /\ Proceed("setup") /\ walk = "done" /\ tooDeep = {} /\ UNCHANGED jobVars
        /\ stage' = "setup"
    BY <1>6 DEF PreflightPasses, Proceed, IntakeInv, Settled
  <2>2. ToSet(job'.hash) = origin' /\ ResumedJobIsSame'
    BY <2>1 DEF IntakeInv, IntakeTypeOK, ResumedJobIsSame, jobVars
  <2> QED
    BY <2>1, <2>2, ProceedKeeps
<1>7. CASE ResumeAccepted
  <2>1. /\ Proceed("accepted") /\ walk = "done" /\ tooDeep = {} /\ UNCHANGED jobVars
        /\ job.hash = ManifestHash /\ UNCHANGED scanVars /\ UNCHANGED version
        /\ ToSet(job.hash) = origin
    BY <1>7 DEF ResumeAccepted, Proceed, IntakeInv, IntakeTypeOK, Settled, source
  <2>2. entries' = entries
    BY <2>1 DEF scanVars
  <2>3. Scanned' = Scanned /\ Scanned = origin /\ origin' = origin /\ job' = job
    BY <2>1, <2>2, HashOf DEF Scanned, jobVars
  <2>4. ToSet(job'.hash) = origin' /\ ResumedJobIsSame'
    BY <2>1, <2>3 DEF ResumedJobIsSame
  <2> QED
    BY <2>1, <2>4, ProceedKeeps
<1>8. CASE CreateJob
  <2>1. /\ Proceed("accepted") /\ walk = "done" /\ tooDeep = {} /\ options' = options
        /\ options.mode # "resume" /\ job'.hash = ManifestHash /\ origin' = Scanned
    BY <1>8 DEF CreateJob, Proceed, IntakeInv, Settled, launchVars
  <2>2. ToSet(job'.hash) = origin' /\ ResumedJobIsSame'
    BY <2>1, HashOf DEF ResumedJobIsSame
  <2> QED
    BY <2>1, <2>2, ProceedKeeps
<1> QED
  BY <1>1, <1>2, <1>3, <1>4, <1>5, <1>6, <1>7, <1>8 DEF IntakeStep

LEMMA IntakeInvariance == Spec => []IntakeInv
<1>1. Init => IntakeInv
  BY InitIntake
<1>2. IntakeInv /\ [Next]_intakeVars => IntakeInv'
  <2> SUFFICES ASSUME IntakeInv, [Next]_intakeVars PROVE IntakeInv'
    OBVIOUS
  <2>1. CASE IntakeStep
    BY <2>1, IntakeKeeps
  <2>2. CASE \E o \in [mode : Mode, settings : Settings] : Launch(o)
    BY <2>2, LaunchKeeps
  <2>3. CASE \E f \in Mail : Edit(f)
    BY <2>3, EditKeeps
  <2>4. CASE UNCHANGED intakeVars
    <3>1. /\ UNCHANGED scanVars /\ UNCHANGED present
          /\ UNCHANGED <<version, stage, exit, job, origin, options>>
      BY <2>4 DEF intakeVars, source, launchVars, jobVars
    <3>2. WalkInv' /\ ScanTypeOK' /\ walk' = walk /\ tooDeep' = tooDeep /\ entries' = entries
      BY <3>1, WalkStays DEF IntakeInv
    <3>3. IntakeTypeOK' /\ Settled'
      BY <3>1, <3>2 DEF IntakeInv, IntakeTypeOK, Settled, ResumedJobIsSame, Scanned
    <3> QED
      BY <3>2, <3>3 DEF IntakeInv
  <2> QED
    BY <2>1, <2>2, <2>3, <2>4 DEF Next
<1> QED
  BY <1>1, <1>2, PTL DEF Spec

-----------------------------------------------------------------------------
(* Theorems *)

\* The types of the scan and of the launches, and a database that always
\* describes the files its job was created for.
THEOREM IntakeTyped == Spec => []IntakeTypeOK
<1>1. IntakeInv => IntakeTypeOK
  BY DEF IntakeInv
<1> QED
  BY <1>1, IntakeInvariance, PTL

\* However deep the tree and whatever fails, the scan passes over no mail
\* without a report, three silent failures excepted.
THEOREM EveryMailAccounted == Spec => []MailAccounted
<1>1. IntakeInv => MailAccounted
  BY DEF IntakeInv, WalkInv
<1> QED
  BY <1>1, IntakeInvariance, PTL

\* The manifest never names a file twice.
THEOREM ManifestHasNoDoubles == Spec => []NothingTwice
<1>1. IntakeInv => NothingTwice
  BY DEF IntakeInv, WalkInv
<1> QED
  BY <1>1, IntakeInvariance, PTL

\* The manifest never names a file below the limit or behind a reparse point.
THEOREM LinksAreNotFollowed == Spec => []NothingBehindLinks
<1>1. IntakeInv => NothingBehindLinks
  BY DEF IntakeInv, WalkInv
<1> QED
  BY <1>1, IntakeInvariance, PTL

\* An accepted job leaves out no mail for its depth, and none without one of
\* the three silent failures or a report.
THEOREM AcceptedJobsAreComplete == Spec => []AcceptedIsComplete
<1>1. IntakeInv => AcceptedIsComplete
  <2> SUFFICES ASSUME IntakeInv, stage = "accepted" PROVE AcceptedIsComplete
    BY DEF AcceptedIsComplete
  <2>1. walk = "done" /\ tooDeep = {} /\ MailAccounted
    BY DEF IntakeInv, Settled, WalkInv
  <2>2. Listed \cup lost = skipped \cup unreadable \cup lost
    BY <2>1 DEF Listed
  <2> QED
    BY <2>1, <2>2 DEF MailAccounted, AcceptedIsComplete, Accounted
<1> QED
  BY <1>1, IntakeInvariance, PTL

\* A resume goes on only with the files and versions its job was created for,
\* whatever was edited between any number of launches.
THEOREM ResumesTheSameJob == Spec => []ResumedJobIsSame
<1>1. IntakeInv => ResumedJobIsSame
  BY DEF IntakeInv, Settled
<1> QED
  BY <1>1, IntakeInvariance, PTL

-----------------------------------------------------------------------------
(* A resume is not refused for the order in which directories are listed *)

\* Least elements exist.
LEMMA Least ==
  ASSUME NEW S \in SUBSET Nat, S # {}
  PROVE  \E n \in S : \A m \in S : n <= m
<1>1. PICK n \in S : \A m \in S : ~(<<m, n>> \in OpToRel(<, Nat))
  BY NatLessThanWellFounded, WFMin
<1>2. \A m \in S : m \in Nat /\ n \in Nat /\ ~(m < n)
  BY <1>1 DEF OpToRel
<1> QED
  BY <1>2

\* No file twice, and none before one it should follow.
Orderly(hash) ==
  /\ hash \in Seq(Mail \X Versions)
  /\ \A i, j \in DOMAIN hash : i < j => /\ hash[i][1] # hash[j][1]
                                        /\ ~Before(hash[j][1], hash[i][1])

\* The same files and versions have one orderly hash.
LEMMA OneHash ==
  ASSUME NEW h, NEW k, Orderly(h), Orderly(k), ToSet(h) = ToSet(k)
  PROVE  h = k
<1> DEFINE Same(i) == i \in DOMAIN h /\ i \in DOMAIN k /\ h[i] = k[i]
           S == {i \in DOMAIN h \cup DOMAIN k : ~Same(i)}
<1>1. /\ h \in Seq(Mail \X Versions) /\ k \in Seq(Mail \X Versions)
      /\ DOMAIN h = 1..Len(h) /\ DOMAIN k = 1..Len(k) /\ Len(h) \in Nat /\ Len(k) \in Nat
  BY DEF Orderly
<1>2. CASE S = {}
  <2>1. DOMAIN h = DOMAIN k
    BY <1>2
  <2>2. Len(h) = Len(k)
    <3>1. \A m, n \in Nat : m < n => n \in 1..n /\ n \notin 1..m
      OBVIOUS
    <3>2. \A m, n \in Nat : 1..m = 1..n => m = n
      <4>1. \A m, n \in Nat : 1..m = 1..n => ~(m < n) /\ ~(n < m)
        BY <3>1, Zenon
      <4> QED
        BY <4>1
    <3> QED
      BY <1>1, <2>1, <3>2
  <2>3. \A i \in 1..Len(h) : h[i] = k[i]
    BY <1>1, <1>2
  <2> QED
    BY <1>1, <2>2, <2>3
<1>3. CASE S # {}
  <2>0. S \in SUBSET Nat
    BY <1>1
  <2>1. PICK i \in S : \A m \in S : i <= m
    BY <1>3, <2>0, Least
  <2>2. /\ i \in Nat \ {0} /\ ~Same(i)
        /\ \A m \in DOMAIN h \cup DOMAIN k : m < i => Same(m)
    <3>1. \A m \in DOMAIN h \cup DOMAIN k : m \in Nat
      BY <1>1
    <3>2. \A m \in DOMAIN h \cup DOMAIN k : ~(i <= m) => Same(m)
      BY <2>1
    <3>3. i \in Nat \ {0}
      BY <1>1
    <3>4. \A m \in Nat : m < i => ~(i <= m)
      BY <3>3
    <3> QED
      BY <3>1, <3>2, <3>3, <3>4
  <2> HIDE DEF S
  <2>3. ASSUME i \in DOMAIN h PROVE \E j \in DOMAIN k : k[j] = h[i] /\ j > i
    <3>1. PICK j \in DOMAIN k : k[j] = h[i]
      BY <2>3 DEF ToSet
    <3>2. j # i
      BY <2>2, <2>3, <3>1
    <3>3. ~(j < i)
      <4> SUFFICES ASSUME j < i PROVE FALSE
        OBVIOUS
      <4>1. j \in DOMAIN h /\ h[j] = h[i]
        BY <2>2, <3>1
      <4> QED
        BY <2>3, <4>1 DEF Orderly
    <3> QED
      BY <1>1, <2>2, <3>1, <3>2, <3>3
  <2>4. ASSUME i \in DOMAIN k PROVE \E j \in DOMAIN h : h[j] = k[i] /\ j > i
    <3>1. PICK j \in DOMAIN h : h[j] = k[i]
      BY <2>4 DEF ToSet
    <3>2. j # i
      BY <2>2, <2>4, <3>1
    <3>3. ~(j < i)
      <4> SUFFICES ASSUME j < i PROVE FALSE
        OBVIOUS
      <4>1. j \in DOMAIN k /\ k[j] = k[i]
        BY <2>2, <3>1
      <4> QED
        BY <2>4, <4>1 DEF Orderly
    <3> QED
      BY <1>1, <2>2, <3>1, <3>2, <3>3
  <2>5. i \in DOMAIN h /\ i \in DOMAIN k
    <3>1. i \in DOMAIN h \cup DOMAIN k
      BY <2>1 DEF S
    <3>2. i \in DOMAIN h => i \in DOMAIN k
      BY <1>1, <2>2, <2>3
    <3>3. i \in DOMAIN k => i \in DOMAIN h
      BY <1>1, <2>2, <2>4
    <3> QED
      BY <3>1, <3>2, <3>3
  <2>6. PICK j \in DOMAIN k : k[j] = h[i] /\ j > i
    BY <2>3, <2>5
  <2>7. PICK l \in DOMAIN h : h[l] = k[i] /\ l > i
    BY <2>4, <2>5
  <2> DEFINE f == h[i][1]
             g == k[i][1]
  <2>8. i < j /\ i < l
    BY <1>1, <2>2, <2>6, <2>7
  <2>9. f # g /\ ~Before(f, g)
    BY <2>5, <2>6, <2>8 DEF Orderly
  <2>10. ~Before(g, f)
    BY <2>5, <2>7, <2>8 DEF Orderly
  <2>11. f \in Mail /\ g \in Mail
    BY <1>1, <2>5
  <2> QED
    BY <2>9, <2>10, <2>11, OrderAssumption DEF Mail
<1> QED
  BY <1>2, <1>3

\* The manifest of a finished scan is sorted, and so is what a job was hashed from.
OrderInv ==
  /\ walk = "done" =>
       \A i, j \in DOMAIN entries : i < j => ~Before(entries[j], entries[i])
  /\ Orderly(job.hash)
  /\ OrderNeverRejects

LEMMA HashOrderly ==
  ASSUME IntakeInv, OrderInv, walk = "done" PROVE Orderly(ManifestHash)
<1>1. entries \in Seq(Mail) /\ version \in [Mail -> Versions]
  BY DEF IntakeInv, IntakeTypeOK, ScanTypeOK
<1>2. \A i \in DOMAIN entries : entries[i] \in Mail /\ version[entries[i]] \in Versions
  BY <1>1
<1>3. /\ ManifestHash \in Seq(Mail \X Versions) /\ DOMAIN ManifestHash = DOMAIN entries
      /\ \A i \in DOMAIN entries : ManifestHash[i][1] = entries[i]
  <2>1. DOMAIN ManifestHash = 1..Len(entries) /\ Len(entries) \in Nat
    BY <1>1 DEF ManifestHash
  <2>2. \A i \in 1..Len(entries) : ManifestHash[i] = <<entries[i], version[entries[i]]>>
    BY <1>1 DEF ManifestHash
  <2>3. \A i \in 1..Len(entries) : ManifestHash[i] \in Mail \X Versions
    <3> SUFFICES ASSUME NEW i \in 1..Len(entries) PROVE ManifestHash[i] \in Mail \X Versions
      OBVIOUS
    <3>1. i \in DOMAIN entries
      BY <1>1
    <3>2. entries[i] \in Mail /\ version[entries[i]] \in Versions
      BY <1>2, <3>1
    <3>3. <<entries[i], version[entries[i]]>> \in Mail \X Versions
      BY <3>2
    <3>4. ManifestHash[i] = <<entries[i], version[entries[i]]>>
      BY <2>2
    <3> QED
      BY <3>3, <3>4
  <2>4. ManifestHash \in [1..Len(entries) -> Mail \X Versions]
    BY <2>1, <2>3 DEF ManifestHash
  <2>5. ManifestHash \in Seq(Mail \X Versions)
    BY <2>1, <2>4
  <2> QED
    BY <1>1, <2>1, <2>2, <2>5
<1>4. \A i, j \in DOMAIN entries : i < j => entries[i] # entries[j]
  <2>1. \A i, j \in DOMAIN entries : i < j => i # j
    BY <1>1
  <2> QED
    BY <2>1 DEF IntakeInv, WalkInv, NothingTwice
<1>5. \A i, j \in DOMAIN entries : i < j => ~Before(entries[j], entries[i])
  BY DEF OrderInv
<1> QED
  BY <1>3, <1>4, <1>5 DEF Orderly

LEMMA InitOrder == Init => OrderInv
<1>1. Orderly(<<>>)
  BY DEF Orderly
<1> QED
  BY <1>1 DEF Init, ScanInit, NoJob, OrderInv, OrderNeverRejects

\* A scan ends sorted.
LEMMA ScanOrder ==
  ASSUME WalkInv, ScanStep, walk' = "done"
  PROVE  \A i, j \in DOMAIN entries' : i < j => ~Before(entries'[j], entries'[i])
<1>1. CASE FinishWalk
  <2>1. entries' \in SortedEntries
    BY <1>1 DEF FinishWalk
  <2>2. DOMAIN entries' = DOMAIN entries
    BY <2>1 DEF SortedEntries
  <2> QED
    BY <2>1, <2>2 DEF SortedEntries
<1>2. CASE RootMissing \/ StartWalk \/ OpenDir \/ OpenFails \/ OpenDenied \/ WalkThrows
  BY <1>2 DEF RootMissing, StartWalk, OpenDir, OpenFails, OpenDenied, PopDir, WalkThrows
<1>3. CASE VisitEntry
  <2>1. current.depth \in Nat
    BY DEF WalkInv, WalkTypeOK, PendingDir
  <2>2. PICK e \in todo : Visits(e)
    BY <1>3, <2>1, VisitStep
  <2> QED
    BY <2>2 DEF Visits, WalkInv, Followed
<1> QED
  BY <1>1, <1>2, <1>3 DEF ScanStep

LEMMA OrderStep == IntakeInv /\ OrderInv /\ [Next]_intakeVars => OrderInv'
<1> SUFFICES ASSUME IntakeInv, OrderInv, [Next]_intakeVars PROVE OrderInv'
  OBVIOUS
<1>1. ASSUME NEW o \in [mode : Mode, settings : Settings], Launch(o) PROVE OrderInv'
  <2>1. walk' = "start" /\ exit' = "none" /\ (job' = job \/ job' = NoJob)
    BY <1>1 DEF Launch, NewWalk, Discard, jobVars
  <2>2. Orderly(<<>>) /\ NoJob.hash = <<>>
    BY DEF Orderly, NoJob
  <2>3. Orderly(job'.hash)
    BY <2>1, <2>2 DEF OrderInv
  <2> QED
    BY <2>1, <2>3 DEF OrderInv, OrderNeverRejects, Orderly
<1>2. ASSUME NEW f \in Mail, Edit(f) PROVE OrderInv'
  BY <1>2 DEF Edit, NewWalk, Discard, jobVars, OrderInv, OrderNeverRejects, Orderly
<1>3. CASE Scan
  <2>1. ScanStep /\ exit' = exit /\ job' = job /\ stage = "scan"
    BY <1>3 DEF Scan, jobVars
  <2>2. exit = "none"
    BY <2>1 DEF IntakeInv, IntakeTypeOK
  <2> QED
    BY <2>1, <2>2, ScanOrder DEF IntakeInv, OrderInv, OrderNeverRejects, Orderly
<1>4. ASSUME UNCHANGED <<entries, walk, job>>, exit' # "SOURCE_CHANGED" PROVE OrderInv'
  BY <1>4 DEF OrderInv, OrderNeverRejects, Orderly
<1>5. CASE ScanFailed \/ RejectDeep \/ PreflightRefuses \/ SpaceRefuses
  <2>1. \E code : Refuse(code) /\ code # "SOURCE_CHANGED"
    BY <1>5 DEF ScanFailed, RejectDeep, PreflightRefuses, EnvironmentRefuses, SpaceRefuses
  <2> QED
    BY <1>4, <2>1 DEF Refuse, scanVars, jobVars
<1>6. CASE ScanAccepted \/ ProbeSpace \/ PreflightPasses \/ ResumeAccepted
  <2>1. stage # "refused" /\ exit' = exit /\ UNCHANGED <<entries, walk, job>>
    BY <1>6 DEF ScanAccepted, ProbeSpace, PreflightPasses, ResumeAccepted, Proceed, scanVars,
                jobVars
  <2>2. exit # "SOURCE_CHANGED"
    BY <2>1 DEF IntakeInv, IntakeTypeOK
  <2> QED
    BY <1>4, <2>1, <2>2
<1>7. CASE ResumeRefused
  <2>1. CASE Refuse("STATE_DB_INCOMPATIBLE")
    BY <1>4, <2>1 DEF Refuse, scanVars, jobVars
  <2>2. CASE job.hash # ManifestHash /\ Refuse("SOURCE_CHANGED")
    <3>1. walk = "done" /\ ToSet(job.hash) = origin
      BY <1>7 DEF ResumeRefused, IntakeInv, Settled, IntakeTypeOK
    <3>2. Orderly(ManifestHash) /\ Orderly(job.hash)
      BY <3>1, HashOrderly DEF OrderInv
    <3>3. Scanned # origin
      BY <2>2, <3>1, <3>2, HashOf, OneHash
    <3>4. UNCHANGED <<entries, walk, job, version, origin>>
      BY <2>2 DEF Refuse, scanVars, jobVars, source
    <3> QED
      BY <3>3, <3>4 DEF OrderInv, OrderNeverRejects, Orderly, Scanned
  <2> QED
    BY <1>7, <2>1, <2>2 DEF ResumeRefused
<1>8. CASE CreateJob
  <2>1. /\ walk = "done" /\ exit # "SOURCE_CHANGED" /\ exit' = exit
        /\ UNCHANGED <<entries, walk>> /\ job'.hash = ManifestHash
    BY <1>8 DEF CreateJob, Proceed, IntakeInv, Settled, IntakeTypeOK, scanVars
  <2>2. Orderly(ManifestHash)
    BY <2>1, HashOrderly
  <2>3. Orderly(job'.hash)
    BY <2>1, <2>2
  <2> QED
    BY <2>1, <2>3 DEF OrderInv, OrderNeverRejects, Orderly
<1>9. CASE UNCHANGED intakeVars
  BY <1>9 DEF intakeVars, scanVars, jobVars, source, OrderInv, OrderNeverRejects, Orderly, Scanned
<1> QED
  BY <1>1, <1>2, <1>3, <1>5, <1>6, <1>7, <1>8, <1>9 DEF Next, IntakeStep

\* A resume is refused for a changed source only if the files or their versions are others:
\* the manifest is sorted, so the order in which directories are listed, which differs from
\* launch to launch, never makes one.
THEOREM OrderIsNoChange == Spec => []OrderNeverRejects
<1>1. OrderInv => OrderNeverRejects
  BY DEF OrderInv
<1> QED
  BY IntakeInvariance, InitOrder, OrderStep, <1>1, PTL DEF Spec

-----------------------------------------------------------------------------
(* Sums over finite sets *)

Some(s) == CHOOSE x \in s : TRUE

\* T adds up c over the subsets of D.
Sums(c, D, T) ==
  T = [s \in SUBSET D |-> IF s = {} THEN 0 ELSE c[Some(s)] + T[s \ {Some(s)}]]

\* Without one of its elements a finite set is smaller by one.
LEMMA WithoutOne ==
  ASSUME NEW D, IsFiniteSet(D), NEW s \in SUBSET D
  PROVE  /\ Cardinality(s) \in Nat /\ (Cardinality(s) = 0 <=> s = {})
         /\ \A y \in s : Cardinality(s \ {y}) = Cardinality(s) - 1 /\ s \ {y} \in SUBSET D
<1>1. IsFiniteSet(s)
  BY FS_Subset
<1>2. Cardinality(s) \in Nat /\ (Cardinality(s) = 0 <=> s = {})
  BY <1>1, FS_CardinalityType, FS_EmptySet
<1>3. \A y \in s : Cardinality(s \ {y}) = Cardinality(s) - 1
  BY <1>1, FS_RemoveElement
<1> QED
  BY <1>2, <1>3

LEMMA SumsExist == ASSUME NEW D, IsFiniteSet(D), NEW c PROVE \E T : Sums(c, D, T)
<1> DEFINE Small(n) == {s \in SUBSET D : Cardinality(s) <= n}
           Next1(T, s) == IF s = {} THEN 0 ELSE c[Some(s)] + T[s \ {Some(s)}]
           Upto(n, T) == T = [s \in Small(n) |-> Next1(T, s)]
           S == {n \in Nat : ~ \E T : Upto(n, T)}
<1>1. \A s \in SUBSET D :
        /\ Cardinality(s) \in Nat /\ (Cardinality(s) = 0 <=> s = {})
        /\ s # {} => /\ Some(s) \in s /\ s \ {Some(s)} \in SUBSET D
                     /\ Cardinality(s \ {Some(s)}) = Cardinality(s) - 1
  BY WithoutOne DEF Some
<1>2. S = {}
  <2> SUFFICES ASSUME S # {} PROVE FALSE
    OBVIOUS
  <2>1. PICK n \in S : \A m \in S : n <= m
    BY Least
  <2>2. n \in Nat /\ ~ \E T : Upto(n, T)
    BY <2>1
  <2>3. n # 0
    <3> SUFFICES ASSUME n = 0 PROVE FALSE
      OBVIOUS
    <3> DEFINE none == [s \in Small(0) |-> 0]
    <3>1. ASSUME NEW s \in Small(0) PROVE s = {}
      <4>1. s \in SUBSET D /\ Cardinality(s) <= 0
        OBVIOUS
      <4>2. Cardinality(s) \in Nat
        BY <1>1, <4>1
      <4>3. Cardinality(s) = 0
        BY <4>1, <4>2
      <4> QED
        BY <1>1, <4>1, <4>3
    <3>2. none = [s \in Small(0) |-> Next1(none, s)]
      BY <3>1
    <3>3. Upto(n, none)
      BY <3>2
    <3> QED
      BY <2>2, <3>3
  <2>4. n - 1 \in Nat /\ n - 1 \notin S
    <3> HIDE DEF Upto
    <3> QED
      BY <2>1, <2>2, <2>3
  <2>5. PICK T : Upto(n - 1, T)
    BY <2>4
  <2> DEFINE U == [s \in Small(n) |-> Next1(T, s)]
  <2>6. \A s \in Small(n) : U[s] = Next1(U, s)
    <3> SUFFICES ASSUME NEW s \in Small(n), s # {} PROVE U[s] = Next1(U, s)
      OBVIOUS
    <3> DEFINE r == s \ {Some(s)}
    <3>1. r \in Small(n - 1) /\ r \in Small(n)
      BY <1>1, <2>2
    <3>2. T[r] = Next1(T, r)
      BY <2>5, <3>1
    <3>3. U[r] = Next1(T, r)
      BY <3>1
    <3>4. U[s] = c[Some(s)] + T[r]
      OBVIOUS
    <3> HIDE DEF U
    <3> QED
      BY <3>2, <3>3, <3>4
  <2>7. Upto(n, U)
    <3>1. U = [s \in Small(n) |-> U[s]]
      OBVIOUS
    <3> HIDE DEF U, Next1, Small
    <3> QED
      BY <2>6, <3>1
  <2> QED
    BY <2>2, <2>7
<1>3. Cardinality(D) \in Nat
  BY FS_CardinalityType
<1>4. PICK T : Upto(Cardinality(D), T)
  BY <1>2, <1>3
<1>5. \A s \in SUBSET D : Cardinality(s) <= Cardinality(D)
  BY FS_Subset
<1>6. Small(Cardinality(D)) = SUBSET D
  BY <1>5
<1>7. Sums(c, D, T)
  BY <1>4, <1>6 DEF Sums
<1> QED
  BY <1>7

\* T is the sum of c over the subsets of D, whichever element is taken first.
Adds(c, D, T) ==
  /\ T[{}] = 0
  /\ \A s \in SUBSET D : T[s] \in Nat /\ \A y \in s : T[s] = c[y] + T[s \ {y}]

\* A sum does not depend on the order.
LEMMA SumsStep ==
  ASSUME NEW D, IsFiniteSet(D), NEW c, \A y \in D : c[y] \in Nat, NEW T, Sums(c, D, T)
  PROVE  Adds(c, D, T)
<1> DEFINE Good(s) == T[s] \in Nat /\ \A y \in s : T[s] = c[y] + T[s \ {y}]
           S == {n \in Nat : \E s \in SUBSET D : Cardinality(s) = n /\ ~Good(s)}
<1>1. \A s \in SUBSET D :
        /\ Cardinality(s) \in Nat /\ (Cardinality(s) = 0 <=> s = {})
        /\ \A y \in s : Cardinality(s \ {y}) = Cardinality(s) - 1 /\ s \ {y} \in SUBSET D
  BY WithoutOne
<1>2. \A s \in SUBSET D : s # {} => Some(s) \in s
  BY DEF Some
<1>3. /\ T[{}] = 0
      /\ \A s \in SUBSET D : s # {} => T[s] = c[Some(s)] + T[s \ {Some(s)}]
  BY DEF Sums
<1>4. S = {}
  <2> SUFFICES ASSUME S # {} PROVE FALSE
    OBVIOUS
  <2>1. PICK n \in S : \A m \in S : n <= m
    BY Least
  <2>2. PICK s \in SUBSET D : Cardinality(s) = n /\ ~Good(s)
    BY <2>1
  <2>3. n \in Nat
    BY <2>1
  <2>4. \A r \in SUBSET D : Cardinality(r) < n => Good(r)
    <3> SUFFICES ASSUME NEW r \in SUBSET D, Cardinality(r) < n, ~Good(r) PROVE FALSE
      OBVIOUS
    <3>1. Cardinality(r) \in S
      BY <1>1
    <3> QED
      BY <1>1, <2>1, <2>3, <3>1
  <2>5. s # {}
    <3>1. Good({})
      BY <1>3
    <3> QED
      BY <2>2, <3>1
  <2> DEFINE x == Some(s)
             r == s \ {x}
  <2>6. x \in s /\ T[s] = c[x] + T[r]
    BY <1>2, <1>3, <2>5
  <2> HIDE DEF x
  <2>7. r \in SUBSET D /\ Cardinality(r) < n
    BY <1>1, <2>2, <2>3, <2>6
  <2>8. Good(r) /\ c[x] \in Nat
    BY <2>4, <2>6, <2>7
  <2>9. T[s] \in Nat
    BY <2>6, <2>8
  <2>10. ASSUME NEW y \in s PROVE T[s] = c[y] + T[s \ {y}]
    <3>1. CASE y = x
      BY <2>6, <3>1
    <3>2. CASE y # x
      <4> DEFINE q == s \ {y}
      <4>1. q \in SUBSET D /\ Cardinality(q) < n /\ x \in q /\ y \in r
        BY <1>1, <2>2, <2>3, <2>6, <3>2
      <4>2. r \ {y} = q \ {x}
        OBVIOUS
      <4>3. T[r] = c[y] + T[r \ {y}]
        BY <2>8, <4>1
      <4>4. T[q] = c[x] + T[q \ {x}] /\ T[q] \in Nat
        BY <2>4, <4>1
      <4>5. Good(r \ {y}) /\ c[y] \in Nat
        <5>1. r \ {y} \in SUBSET D /\ Cardinality(r \ {y}) = Cardinality(r) - 1
          BY <1>1, <2>7, <4>1
        <5>2. Cardinality(r) \in Nat
          BY <1>1, <2>7
        <5>3. Cardinality(r \ {y}) < n
          BY <2>3, <2>7, <5>1, <5>2
        <5> QED
          BY <2>4, <5>1, <5>3
      <4> HIDE DEF q, r
      <4>6. T[r \ {y}] \in Nat
        BY <4>5
      <4>7. T[s] = c[y] + T[q]
        <5> DEFINE u == T[r \ {y}]
                   i == c[x]
                   j == c[y]
        <5>1. T[s] = i + T[r] /\ T[r] = j + u /\ T[q] = i + u
          BY <2>6, <4>2, <4>3, <4>4
        <5>2. i \in Nat /\ j \in Nat /\ u \in Nat
          BY <2>8, <4>5, <4>6
        <5> HIDE DEF u, i, j, Good
        <5>3. T[s] = j + T[q]
          BY <5>1, <5>2
        <5> QED
          BY <5>3 DEF j
      <4> QED
        BY <4>7 DEF q
    <3> QED
      BY <3>1, <3>2
  <2> QED
    BY <2>2, <2>9, <2>10
<1>5. \A s \in SUBSET D : Good(s)
  <2> SUFFICES ASSUME NEW s \in SUBSET D, ~Good(s) PROVE FALSE
    OBVIOUS
  <2>1. Cardinality(s) \in S
    BY <1>1
  <2> QED
    BY <1>4, <2>1
<1> QED
  BY <1>3, <1>5 DEF Adds

-----------------------------------------------------------------------------
(* Adding up in 64 bits *)

LEMMA ModParts ==
  ASSUME NEW a \in Int, NEW w \in Int, w > 0
  PROVE  a % w = a - w * (a \div w) /\ a \div w \in Int /\ a % w \in 0..(w - 1)
<1>1. a % w = a - w * (a \div w)
  BY Z3
<1>2. a \div w \in Int /\ a % w \in 0..(w - 1)
  OBVIOUS
<1> QED
  BY <1>1, <1>2

LEMMA ModIs ==
  ASSUME NEW q \in Int, NEW w \in Int, NEW r \in 0..(w - 1), w > 0
  PROVE  (w * q + r) % w = r
  OBVIOUS

\* A sum modulo w can be reduced at every addition.
LEMMA ModSum ==
  ASSUME NEW a \in Int, NEW b \in Int, NEW w \in Int, w > 0
  PROVE  ((a % w) + b) % w = (a + b) % w
<1> DEFINE q == a \div w
           r == a % w
           p == (r + b) \div w
           s == (r + b) % w
<1>1. r = a - w * q /\ q \in Int /\ r \in Int
  BY ModParts
<1>2. s = (r + b) - w * p /\ p \in Int /\ s \in 0..(w - 1)
  BY <1>1, ModParts
<1> HIDE DEF q, r, p, s
<1>3. a + b = w * (q + p) + s
  BY <1>1, <1>2
<1> DEFINE z == q + p
<1>4. z \in Int /\ a + b = w * z + s
  BY <1>1, <1>2, <1>3
<1> HIDE DEF z
<1>5. (w * z + s) % w = s
  BY <1>2, <1>4, ModIs
<1> QED
  BY <1>4, <1>5 DEF r, s

\* What a mail, and the ith entry of the manifest, takes.
MailSize  == [f \in Mail |-> Bytes[f][version[f]]]
EntrySize == [i \in DOMAIN entries |-> MailSize[entries[i]]]

LEMMA SizeIs ==
  ASSUME NEW S, NEW v, \E T : Sums([f \in Mail |-> Bytes[f][v[f]]], S, T)
  PROVE  \E T : Sums([f \in Mail |-> Bytes[f][v[f]]], S, T) /\ SizeOf(S, v) = T[S]
  BY DEF SizeOf, FoldFunctionOnSet, MapThenFoldSet, Sums, Some

\* M adds up the sizes of entries as the worker does.
ModSums(M) ==
  M = [s \in SUBSET (DOMAIN entries) |->
         IF s = {} THEN 0
         ELSE (M[s \ {Some(s)}] + Bytes[entries[Some(s)]][version[entries[Some(s)]]]) % Word]

LEMMA TotalIs ==
  ASSUME \E M : ModSums(M)
  PROVE  \E M : ModSums(M) /\ TotalBytes = M[DOMAIN entries]
  BY DEF TotalBytes, FoldSeq, FoldFunction, FoldFunctionOnSet, MapThenFoldSet, ModSums, Some

\* The n elements of e are different, and d takes each as c does.
Once(e, n, c, d) ==
  /\ DOMAIN e = 1..n /\ \A i, j \in 1..n : i # j => e[i] # e[j]
  /\ d = [i \in 1..n |-> c[e[i]]] /\ \A i \in 1..n : d[i] \in Nat

\* The sum over the entries of a manifest is that over its mails, since none is there
\* twice.
LEMMA EntriesAreMails ==
  ASSUME NEW n \in Nat, NEW e, NEW c, NEW d, Once(e, n, c, d),
         NEW T, Sums(d, 1..n, T), NEW U, Adds(c, ToSet(e), U)
  PROVE  T[1..n] = U[ToSet(e)]
<1> DEFINE image(J) == {e[i] : i \in J}
           Good(J) == T[J] = U[image(J)]
           S == {k \in Nat : \E J \in SUBSET (1..n) : Cardinality(J) = k /\ ~Good(J)}
<1>1. IsFiniteSet(1..n)
  BY FS_Interval
<1>2. \A J \in SUBSET (1..n) :
        /\ Cardinality(J) \in Nat /\ (Cardinality(J) = 0 <=> J = {})
        /\ \A y \in J : Cardinality(J \ {y}) = Cardinality(J) - 1 /\ J \ {y} \in SUBSET (1..n)
  BY <1>1, WithoutOne
<1>3. /\ DOMAIN e = 1..n /\ \A i, j \in 1..n : i # j => e[i] # e[j]
      /\ \A i \in 1..n : d[i] \in Nat /\ d[i] = c[e[i]]
  BY DEF Once
<1>4. /\ T[{}] = 0
      /\ \A J \in SUBSET (1..n) : T[J] \in Nat /\ \A y \in J : T[J] = d[y] + T[J \ {y}]
  <2> DEFINE D == 1..n
  <2>1. IsFiniteSet(D) /\ (\A i \in D : d[i] \in Nat) /\ Sums(d, D, T)
    BY <1>1, <1>3
  <2> HIDE DEF D
  <2>2. Adds(d, D, T)
    BY <2>1, SumsStep
  <2> QED
    BY <2>2 DEF D, Adds
<1>5. S = {}
  <2> SUFFICES ASSUME S # {} PROVE FALSE
    OBVIOUS
  <2> HIDE DEF Good
  <2>1. PICK k \in S : \A m \in S : k <= m
    BY Least
  <2>2. PICK J \in SUBSET (1..n) : Cardinality(J) = k /\ ~Good(J)
    BY <2>1
  <2>3. k \in Nat
    BY <2>1
  <2>4. J # {}
    <3>1. image({}) = {}
      OBVIOUS
    <3>2. Good({})
      BY <1>4, <3>1 DEF Good, Adds
    <3> QED
      BY <2>2, <3>2
  <2>5. PICK y \in J : TRUE
    BY <2>4
  <2> DEFINE K == J \ {y}
  <2>6. K \in SUBSET (1..n) /\ Cardinality(K) = k - 1 /\ k - 1 \in Nat
    <3>1. K \in SUBSET (1..n) /\ Cardinality(K) = Cardinality(J) - 1
      BY <1>2, <2>2, <2>5
    <3>2. k # 0
      BY <1>2, <2>2, <2>4
    <3> HIDE DEF K, S
    <3>3. Cardinality(K) = k - 1
      BY <2>2, <3>1
    <3>4. k - 1 \in Nat
      BY <2>3, <3>2
    <3> QED
      BY <3>1, <3>3, <3>4
  <2>7. Good(K)
    <3> SUFFICES ASSUME ~Good(K) PROVE FALSE
      OBVIOUS
    <3> HIDE DEF K
    <3>1. k - 1 \in S
      BY <2>6
    <3> QED
      BY <2>1, <2>3, <3>1
  <2>8. image(J) \in SUBSET ToSet(e) /\ e[y] \in image(J)
    BY <1>3, <2>2, <2>5 DEF ToSet
  <2>9. image(K) = image(J) \ {e[y]}
    <3>1. ASSUME NEW i \in K PROVE e[i] \in image(J) \ {e[y]}
      <4>1. i \in J /\ i # y /\ i \in 1..n /\ y \in 1..n
        BY <2>2, <2>5
      <4>2. e[i] # e[y]
        BY <1>3, <4>1
      <4> QED
        BY <4>1, <4>2
    <3>2. ASSUME NEW z \in image(J) \ {e[y]} PROVE z \in image(K)
      <4>1. PICK i \in J : z = e[i]
        OBVIOUS
      <4>2. i \in K
        BY <4>1
      <4> QED
        BY <4>1, <4>2
    <3> QED
      BY <3>1, <3>2
  <2>10. T[J] = d[y] + T[K] /\ d[y] = c[e[y]]
    BY <1>3, <1>4, <2>2, <2>5
  <2>11. U[image(J)] = c[e[y]] + U[image(J) \ {e[y]}]
    BY <2>8 DEF Adds
  <2> HIDE DEF image, K
  <2>12. T[K] = U[image(K)]
    BY <2>7 DEF Good
  <2>13. Good(J)
    BY <2>9, <2>10, <2>11, <2>12 DEF Good
  <2> QED
    BY <2>2, <2>13
<1>6. Good(1..n)
  <2> HIDE DEF Good
  <2> SUFFICES ASSUME ~Good(1..n) PROVE FALSE
    OBVIOUS
  <2>1. Cardinality(1..n) \in S
    BY <1>2
  <2> QED
    BY <1>5, <2>1
<1>7. image(1..n) = ToSet(e)
  BY <1>3 DEF ToSet
<1> QED
  BY <1>6, <1>7

\* M adds up c over the subsets of D in 64 bits.
WordSums(c, D, M) ==
  M = [s \in SUBSET D |-> IF s = {} THEN 0 ELSE (M[s \ {Some(s)}] + c[Some(s)]) % Word]

\* The sum in 64 bits is the sum modulo 2^64.
LEMMA WordSumsAre ==
  ASSUME NEW D, IsFiniteSet(D), NEW c, \A y \in D : c[y] \in Nat, NEW T, Adds(c, D, T),
         NEW M, WordSums(c, D, M)
  PROVE  \A s \in SUBSET D : M[s] = T[s] % Word
<1> DEFINE Good(s) == M[s] = T[s] % Word
           S == {n \in Nat : \E s \in SUBSET D : Cardinality(s) = n /\ ~Good(s)}
<1>1. \A s \in SUBSET D :
        /\ Cardinality(s) \in Nat /\ (Cardinality(s) = 0 <=> s = {})
        /\ \A y \in s : Cardinality(s \ {y}) = Cardinality(s) - 1 /\ s \ {y} \in SUBSET D
  BY WithoutOne
<1>2. \A s \in SUBSET D : s # {} => Some(s) \in s
  BY DEF Some
<1>3. Word \in Int /\ Word > 0 /\ 0 % Word = 0
  BY IntakeAssumption
<1>4. /\ M[{}] = 0
      /\ \A s \in SUBSET D : s # {} => M[s] = (M[s \ {Some(s)}] + c[Some(s)]) % Word
  BY DEF WordSums
<1>5. S = {}
  <2> SUFFICES ASSUME S # {} PROVE FALSE
    OBVIOUS
  <2>1. PICK n \in S : \A m \in S : n <= m
    BY Least
  <2>2. PICK s \in SUBSET D : Cardinality(s) = n /\ ~Good(s)
    BY <2>1
  <2>3. n \in Nat
    BY <2>1
  <2>4. s # {}
    <3>1. Good({})
      BY <1>3, <1>4 DEF Adds
    <3> QED
      BY <2>2, <3>1
  <2> DEFINE x == Some(s)
             r == s \ {x}
  <2>5. x \in s /\ M[s] = (M[r] + c[x]) % Word
    BY <1>2, <1>4, <2>4
  <2> HIDE DEF x
  <2>6. r \in SUBSET D /\ Cardinality(r) \in Nat /\ Cardinality(r) < n
    BY <1>1, <2>2, <2>3, <2>5
  <2>7. Good(r)
    <3> SUFFICES ASSUME ~Good(r) PROVE FALSE
      OBVIOUS
    <3> HIDE DEF Good
    <3>1. Cardinality(r) \in S
      BY <2>6
    <3> HIDE DEF S
    <3>2. n <= Cardinality(r)
      BY <2>1, <3>1
    <3> QED
      BY <2>3, <2>6, <3>2
  <2>8. T[s] = c[x] + T[r] /\ T[r] \in Nat /\ c[x] \in Nat
    BY <2>5, <2>6 DEF Adds
  <2>9. ((T[r] % Word) + c[x]) % Word = (T[r] + c[x]) % Word
    <3> DEFINE a == T[r]
               b == c[x]
    <3>1. a \in Int /\ b \in Int
      BY <2>8
    <3> HIDE DEF a, b
    <3>2. ((a % Word) + b) % Word = (a + b) % Word
      BY <1>3, <3>1, ModSum
    <3> QED
      BY <3>2 DEF a, b
  <2>10. T[r] + c[x] = c[x] + T[r]
    BY <2>8
  <2>11. Good(s)
    BY <2>5, <2>7, <2>8, <2>9, <2>10
  <2> QED
    BY <2>2, <2>11
<1>6. \A s \in SUBSET D : Good(s)
  <2> SUFFICES ASSUME NEW s \in SUBSET D, ~Good(s) PROVE FALSE
    OBVIOUS
  <2>1. Cardinality(s) \in S
    BY <1>1
  <2> QED
    BY <1>5, <2>1
<1> QED
  BY <1>6

LEMMA WordSumsExist ==
  ASSUME NEW D, IsFiniteSet(D), NEW c, \A y \in D : c[y] \in Nat, NEW T, Adds(c, D, T)
  PROVE  \E M : WordSums(c, D, M)
<1> DEFINE M == [s \in SUBSET D |-> T[s] % Word]
<1>1. Word \in Int /\ Word > 0 /\ 0 % Word = 0
  BY IntakeAssumption
<1>2. ASSUME NEW s \in SUBSET D, s # {}
      PROVE  M[s] = (M[s \ {Some(s)}] + c[Some(s)]) % Word
  <2> DEFINE x == Some(s)
             r == s \ {x}
  <2>1. x \in s
    BY <1>2 DEF Some
  <2> HIDE DEF x
  <2>2. r \in SUBSET D
    OBVIOUS
  <2>3. T[s] = c[x] + T[r] /\ T[r] \in Nat /\ c[x] \in Nat
    BY <2>1, <2>2 DEF Adds
  <2>4. ((T[r] % Word) + c[x]) % Word = (T[r] + c[x]) % Word
    <3> DEFINE a == T[r]
               b == c[x]
    <3>1. a \in Int /\ b \in Int
      BY <2>3
    <3> HIDE DEF a, b
    <3>2. ((a % Word) + b) % Word = (a + b) % Word
      BY <1>1, <3>1, ModSum
    <3> QED
      BY <3>2 DEF a, b
  <2>5. T[r] + c[x] = c[x] + T[r]
    BY <2>3
  <2>6. M[s] = T[s] % Word /\ M[r] = T[r] % Word
    BY <2>2
  <2> HIDE DEF M, r
  <2>7. M[s] = (M[r] + c[x]) % Word
    BY <2>3, <2>4, <2>5, <2>6
  <2> QED
    BY <2>7 DEF r, x
<1>3. M[{}] = 0
  BY <1>1 DEF Adds
<1>4. M = [s \in SUBSET D |-> M[s]]
  OBVIOUS
<1> HIDE DEF M
<1>5. \A s \in SUBSET D :
        M[s] = IF s = {} THEN 0 ELSE (M[s \ {Some(s)}] + c[Some(s)]) % Word
  BY <1>2, <1>3
<1>6. WordSums(c, D, M)
  BY <1>4, <1>5 DEF WordSums
<1> QED
  BY <1>6

\* The bytes of a manifest are those of its mails: what is added up in 64 bits does not
\* overflow.
LEMMA TotalIsReal ==
  ASSUME entries \in Seq(Mail), version \in [Mail -> Versions], NothingTwice
  PROVE  TotalBytes = RealTotal /\ RealTotal \in Nat /\ 2 * RealTotal < Word
<1> DEFINE n == Len(entries)
           c == [f \in Mail |-> Bytes[f][version[f]]]
           d == [i \in 1..n |-> c[entries[i]]]
           D == 1..n
           R == ToSet(entries)
<1>1. /\ n \in Nat /\ DOMAIN entries = D
      /\ \A i \in D : entries[i] \in Mail /\ entries[i] \in R
      /\ R \in SUBSET Mail
  BY DEF ToSet
<1>2. \A f \in Mail : c[f] \in Nat /\ c[f] = Bytes[f][version[f]]
  <2> SUFFICES ASSUME NEW f \in Mail PROVE c[f] \in Nat
    OBVIOUS
  <2>1. Bytes[f] \in [Versions -> Nat] /\ version[f] \in Versions
    BY IntakeAssumption
  <2> QED
    BY <2>1
<1>3. \A i \in D : d[i] \in Nat /\ d[i] = c[entries[i]]
  BY <1>1, <1>2
<1>4. \A i, j \in D : i # j => entries[i] # entries[j]
  BY <1>1 DEF NothingTwice
<1>5. IsFiniteSet(D)
  BY <1>1, FS_Interval
<1>6. IsFiniteSet(R)
  <2> DEFINE g == [i \in D |-> entries[i]]
  <2>1. g \in Surjection(D, R)
    BY <1>1 DEF Surjection, ToSet
  <2> QED
    BY <1>5, <2>1, FS_Surjection
<1> HIDE DEF c, d, D, R, n
<1>7. PICK T : Sums(d, D, T)
  BY <1>5, SumsExist
<1>8. Adds(d, D, T)
  BY <1>3, <1>5, <1>7, SumsStep
<1>9. \E U : Sums(c, R, U)
  BY <1>6, SumsExist
<1>10. PICK U : Sums(c, R, U) /\ SizeOf(R, version) = U[R]
  BY <1>9, SizeIs DEF c
<1>11. \A f \in R : c[f] \in Nat
  BY <1>1, <1>2
<1>12. Adds(c, R, U)
  BY <1>6, <1>10, <1>11, SumsStep
<1>13. T[D] = U[R]
  <2>1. n \in Nat /\ DOMAIN entries = 1..n
    BY <1>1 DEF D
  <2>2. Once(entries, n, c, d)
    BY <1>3, <1>4, <2>1 DEF Once, d, D
  <2>3. Sums(d, 1..n, T) /\ Adds(c, ToSet(entries), U)
    BY <1>7, <1>12 DEF D, R
  <2>4. T[1..n] = U[ToSet(entries)]
    BY <2>1, <2>2, <2>3, EntriesAreMails
  <2> QED
    BY <2>4 DEF D, R
<1>14. RealTotal = U[R] /\ RealTotal \in Nat
  <2>1. U[R] \in Nat
    BY <1>12 DEF Adds
  <2> QED
    BY <1>10, <2>1 DEF RealTotal, R
<1>15. 2 * RealTotal < Word
  BY <1>1, <1>6, SizesAssumption DEF RealTotal, R
<1>16. \A M : ModSums(M) <=> WordSums(d, D, M)
  <2>1. \A s \in SUBSET D : s # {} =>
          d[Some(s)] = Bytes[entries[Some(s)]][version[entries[Some(s)]]]
    BY <1>1, <1>2, <1>3 DEF Some
  <2> QED
    BY <1>1, <2>1 DEF ModSums, WordSums
<1>17. \E M : ModSums(M)
  BY <1>3, <1>5, <1>8, <1>16, WordSumsExist
<1>18. PICK M : ModSums(M) /\ TotalBytes = M[D]
  BY <1>1, <1>17, TotalIs
<1>19. TotalBytes = T[D] % Word
  BY <1>3, <1>5, <1>8, <1>16, <1>18, WordSumsAre
<1>20. RealTotal % Word = RealTotal
  <2>1. \A a \in Nat, w \in Nat : 2 * a < w => a % w = a
    OBVIOUS
  <2> QED
    BY <1>14, <1>15, <2>1, IntakeAssumption
<1> QED
  BY <1>13, <1>14, <1>15, <1>19, <1>20

-----------------------------------------------------------------------------
(* An accepted job fits *)

\* The estimate e of a total t, in words of w, passes both checks with f free.
Passes(t, w, g, e, f) ==
  /\ 2 * t < w /\ 132 * g < w
  /\ e = (t + ((t * 3) % w) \div 10 + g) % w
  /\ e <= 45 * g /\ f >= (e + 2 * g) % w

\* An estimate of at most 45 GiB has not overflowed: the sum is below 2^63, so only the product
\* with 3 can, once, and then a third of 2^64 is left of the sum.
LEMMA EstimateFits ==
  ASSUME NEW t \in Nat, NEW w \in Nat, NEW g \in Nat \ {0}, NEW e, NEW f \in Nat,
         Passes(t, w, g, e, f)
  PROVE  13 * t + 10 * g <= 450 * g + 9 /\ 13 * t + 30 * g <= 10 * f + 9
<1> DEFINE r == (t * 3) % w
           q == r \div 10
<1>1. \A a \in Nat : a < w => a % w = a
  OBVIOUS
<1>2. \A a \in Nat : w <= a /\ a < 2 * w => a % w = a - w
  OBVIOUS
<1>3. \A a \in Nat : a \div 10 \in Nat /\ 10 * (a \div 10) <= a /\ a <= 10 * (a \div 10) + 9
  OBVIOUS
<1> USE DEF Passes
<1>4. CASE 3 * t < w
  <2>1. r = 3 * t
    BY <1>1, <1>4
  <2>2. q \in Nat /\ 10 * q <= 3 * t /\ 3 * t <= 10 * q + 9
    BY <1>3, <2>1
  <2> DEFINE s == t + q + g
  <2> HIDE DEF q, r
  <2>3. s \in Nat /\ s < w
    BY <2>2
  <2>4. e = s
    BY <1>1, <2>3 DEF q, r
  <2>5. e + 2 * g \in Nat /\ e + 2 * g < w
    BY <2>3, <2>4
  <2>6. (e + 2 * g) % w = e + 2 * g
    BY <1>1, <2>5
  <2>7. f >= e + 2 * g
    BY <2>6
  <2> QED
    BY <2>2, <2>4, <2>7
<1>5. CASE 3 * t >= w
  <2>1. r = 3 * t - w /\ r \in Nat
    BY <1>2, <1>5
  <2>2. q \in Nat /\ 10 * q <= r
    BY <1>3, <2>1
  <2> DEFINE s == t + q + g
  <2> HIDE DEF q
  <2>3. s \in Nat /\ s < w /\ s > 45 * g
    <3> HIDE DEF r
    <3> QED
      BY <1>5, <2>1, <2>2
  <2>4. e = s
    BY <1>1, <2>3 DEF q, r
  <2> QED
    BY <2>3, <2>4
<1> QED
  BY <1>4, <1>5

\* From the preflight on, the space was found to suffice.
FitsInv ==
  /\ free \in Nat
  /\ stage \in {"setup", "accepted"} => SpaceSuffices /\ BelowCeiling

LEMMA FitsStep == IntakeInv /\ FitsInv /\ [Next]_intakeVars => FitsInv'
<1> SUFFICES ASSUME IntakeInv, FitsInv, [Next]_intakeVars PROVE FitsInv'
  OBVIOUS
<1>1. ASSUME UNCHANGED free, stage' \notin {"setup", "accepted"} PROVE FitsInv'
  BY <1>1 DEF FitsInv
<1>2. ASSUME UNCHANGED <<entries, version, free>>, SpaceSuffices, BelowCeiling PROVE FitsInv'
  <2>1. TotalBytes' = TotalBytes
    BY <1>2 DEF TotalBytes, FoldSeq, FoldFunction, FoldFunctionOnSet, MapThenFoldSet
  <2> QED
    BY <1>2, <2>1 DEF FitsInv, SpaceSuffices, BelowCeiling, EstimatePstBytes
<1>3. CASE \E o \in [mode : Mode, settings : Settings] : Launch(o)
  BY <1>1, <1>3 DEF Launch
<1>4. CASE \E f \in Mail : Edit(f)
  BY <1>1, <1>4 DEF Edit
<1>5. CASE Scan
  BY <1>1, <1>5 DEF Scan
<1>6. CASE ScanFailed \/ RejectDeep \/ PreflightRefuses \/ SpaceRefuses \/ ResumeRefused
  <2>1. \E code : Refuse(code)
    BY <1>6 DEF ScanFailed, RejectDeep, PreflightRefuses, EnvironmentRefuses, SpaceRefuses,
                ResumeRefused
  <2> QED
    BY <1>1, <2>1 DEF Refuse
<1>7. CASE ScanAccepted
  BY <1>1, <1>7 DEF ScanAccepted, Proceed
<1>8. CASE ProbeSpace
  BY <1>8, IntakeAssumption DEF ProbeSpace, FitsInv
<1>9. CASE PreflightPasses \/ ResumeAccepted \/ CreateJob
  <2>1. SpaceSuffices /\ BelowCeiling
    BY <1>9 DEF PreflightPasses, ResumeAccepted, CreateJob, FitsInv
  <2>2. UNCHANGED <<entries, version, free>>
    BY <1>9 DEF PreflightPasses, ResumeAccepted, CreateJob, Proceed, scanVars, source
  <2> QED
    BY <1>2, <2>1, <2>2
<1>10. CASE UNCHANGED intakeVars
  <2>1. UNCHANGED <<entries, version, free, stage>>
    BY <1>10 DEF intakeVars, scanVars, source
  <2>2. TotalBytes' = TotalBytes
    BY <2>1 DEF TotalBytes, FoldSeq, FoldFunction, FoldFunctionOnSet, MapThenFoldSet
  <2> QED
    BY <2>1, <2>2 DEF FitsInv, SpaceSuffices, BelowCeiling, EstimatePstBytes
<1> QED
  BY <1>3, <1>4, <1>5, <1>6, <1>7, <1>8, <1>9, <1>10 DEF Next, IntakeStep

\* An accepted job fits, on the disk and below the ceiling, whatever its size: adding up the
\* mail and estimating the PST in 64 bits never makes a large job look small.
THEOREM AcceptedJobsFit == Spec => []AcceptedFits
<1>1. Init => FitsInv
  BY DEF Init, FitsInv
<1>2. IntakeInv /\ FitsInv => AcceptedFits
  <2> SUFFICES ASSUME IntakeInv, FitsInv, stage = "accepted" PROVE AcceptedFits
    BY DEF AcceptedFits
  <2> DEFINE t == RealTotal
             e == EstimatePstBytes(t)
  <2>1. TotalBytes = t /\ t \in Nat /\ 2 * t < Word
    BY TotalIsReal DEF IntakeInv, IntakeTypeOK, ScanTypeOK, WalkInv
  <2>2. free \in Nat /\ e <= 45 * GiB /\ free >= (e + 2 * GiB) % Word
    BY <2>1 DEF FitsInv, SpaceSuffices, BelowCeiling, RequiredFreeBytesFor, PstSizeCeilingBytes
  <2>3. e = (t + ((t * 3) % Word) \div 10 + GiB) % Word
    BY DEF EstimatePstBytes
  <2>4. Word \in Nat /\ GiB \in Nat \ {0} /\ 132 * GiB < Word
    BY IntakeAssumption
  <2>5. Passes(t, Word, GiB, e, free)
    BY <2>1, <2>2, <2>3, <2>4 DEF Passes
  <2> HIDE DEF t, e
  <2>6. 13 * t + 10 * GiB <= 450 * GiB + 9 /\ 13 * t + 30 * GiB <= 10 * free + 9
    BY <2>1, <2>2, <2>4, <2>5, EstimateFits
  <2> QED
    BY <2>6 DEF AcceptedFits, t
<1> QED
  BY IntakeInvariance, FitsStep, <1>1, <1>2, PTL DEF Spec
=============================================================================
