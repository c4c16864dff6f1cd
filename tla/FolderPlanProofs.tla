-------------------------- MODULE FolderPlanProofs --------------------------
(***************************************************************************)
(* Proofs about FolderCollapse and FolderPlan for any source tree, any     *)
(* names and any order of the directories: what a logical path keeps of    *)
(* its directory and in which spelling, that no two folders get the same   *)
(* place and that each gets one, in the folder of its parent.              *)
(***************************************************************************)
EXTENDS FolderPlan, FiniteSetTheorems, WellFoundedInduction, TLAPS

Paths == Seq(Segment)

CollapseTypes ==
  /\ flatten \in BOOLEAN
  /\ dirs \subseteq Paths /\ todo \subseteq dirs
  /\ dir \in Paths /\ rest \in Paths /\ kept \in Paths
  /\ canonical \subseteq [key : Paths, name : Segment]
  /\ logical \subseteq [dir : Paths, path : Paths]

\* One spelling per key.
SpelledOnce == \A c, d \in canonical : c.key = d.key => c.name = d.name

\* A spelling differs from the end of its key in case only.
SpellsItsKey ==
  \A c \in canonical : c.key # <<>> /\ c.key[Len(c.key)] = Lower(c.name)

\* c is the entry for the first n segments of p.
EntryOf(c, p, n) ==
  /\ Len(c.key) = n /\ c.name = p[n]
  /\ \A i \in 1..n : c.key[i] = Lower(p[i])

\* Every segment of p is spelled as its key says.
Canonical(p) == \A n \in 1..Len(p) : \E c \in canonical : EntryOf(c, p, n)

IInv ==
  /\ CollapseTypes
  /\ SpelledOnce
  /\ SpellsItsKey
  /\ flatten => Canonical(kept) /\ \A l \in logical : Canonical(l.path)

-----------------------------------------------------------------------------

\* Lower keeps a name a name, LowerPath a path a path of the same length.
LEMMA LowerType == \A s \in Segment : Lower(s) \in Segment
  BY DEF Lower, Segment

LEMMA LowerPathType ==
  ASSUME NEW p \in Paths
  PROVE  /\ LowerPath(p) \in Paths /\ Len(LowerPath(p)) = Len(p)
         /\ \A i \in 1..Len(p) : LowerPath(p)[i] = Lower(p[i])
  <1>1. DOMAIN p = 1..Len(p) /\ Len(p) \in Nat /\ \A i \in 1..Len(p) : p[i] \in Segment
    BY DEF Paths
  <1>2. LowerPath(p) = [i \in 1..Len(p) |-> Lower(p[i])]
    BY <1>1 DEF LowerPath
  <1>3. LowerPath(p) \in [1..Len(p) -> Segment]
    BY <1>1, <1>2, LowerType
  <1>4. LowerPath(p) \in Paths
    BY <1>1, <1>3 DEF Paths
  <1> QED
    BY <1>1, <1>2, <1>4 DEF Paths

\* The key of a path with one segment more.
LEMMA KeyAppend ==
  ASSUME NEW p \in Paths, NEW s \in Segment
  PROVE  /\ Key(Append(p, s)) \in Paths /\ Len(Key(Append(p, s))) = Len(p) + 1
         /\ \A i \in 1..Len(p) : Key(Append(p, s))[i] = Lower(p[i])
         /\ Key(Append(p, s))[Len(p) + 1] = Lower(s)
  <1>1. /\ Append(p, s) \in Paths /\ Len(Append(p, s)) = Len(p) + 1 /\ Len(p) \in Nat
        /\ \A i \in 1..Len(p) : Append(p, s)[i] = p[i]
        /\ Append(p, s)[Len(p) + 1] = s
    BY DEF Paths
  <1> DEFINE q == Append(p, s)
  <1>2. /\ LowerPath(q) \in Paths /\ Len(LowerPath(q)) = Len(q)
        /\ \A i \in 1..Len(q) : LowerPath(q)[i] = Lower(q[i])
    BY <1>1, LowerPathType
  <1>3. Key(q) = LowerPath(q)
    BY DEF Key
  <1> HIDE DEF q
  <1>4. \A i \in 1..(Len(p) + 1) : Key(q)[i] = Lower(q[i])
    BY <1>1, <1>2, <1>3 DEF q
  <1>5. \A i \in 1..Len(p) : Key(q)[i] = Lower(p[i])
    BY <1>1, <1>4 DEF q
  <1>6. Key(q)[Len(p) + 1] = Lower(s)
    BY <1>1, <1>4 DEF q
  <1> QED
    BY <1>1, <1>2, <1>3, <1>5, <1>6 DEF q

\* Paths that are spelled canonically and equal up to case are equal.
LEMMA CanonicalEqual ==
  ASSUME CollapseTypes, SpelledOnce,
         NEW p \in Paths, NEW q \in Paths, Canonical(p), Canonical(q),
         LowerPath(p) = LowerPath(q)
  PROVE  p = q
  <1>1. Len(p) = Len(q) /\ \A i \in 1..Len(p) : Lower(p[i]) = Lower(q[i])
    BY LowerPathType
  <1>2. ASSUME NEW n \in 1..Len(p) PROVE p[n] = q[n]
    <2>1. PICK c \in canonical : EntryOf(c, p, n)
      BY <1>2 DEF Canonical
    <2>2. PICK d \in canonical : EntryOf(d, q, n)
      BY <1>1, <1>2 DEF Canonical
    <2>3. c.key \in Paths /\ d.key \in Paths
      BY DEF CollapseTypes
    <2>4. \A i \in 1..n : c.key[i] = d.key[i]
      BY <1>1, <1>2, <2>1, <2>2 DEF EntryOf, Paths
    <2>5. c.key = d.key
      <3>1. Len(c.key) = n /\ Len(d.key) = n
        BY <2>1, <2>2 DEF EntryOf
      <3>2. /\ c.key = [i \in 1..Len(c.key) |-> c.key[i]]
            /\ d.key = [i \in 1..Len(d.key) |-> d.key[i]]
        BY <2>3 DEF Paths
      <3> QED
        BY <2>4, <3>1, <3>2
    <2> QED
      BY <2>1, <2>2, <2>5 DEF EntryOf, SpelledOnce
  <1> QED
    BY <1>1, <1>2 DEF Paths

-----------------------------------------------------------------------------
(* The inductive invariant *)

\* Nothing has been collapsed yet.
LEMMA InitHolds == Init => IInv
  <1> SUFFICES ASSUME Init PROVE IInv
    OBVIOUS
  <1>1. dirs \subseteq Paths
    BY PathAssumption DEF Init, CollapseInit, kSubset, Paths
  <1> QED
    BY <1>1 DEF Init, CollapseInit, IInv, CollapseTypes, SpelledOnce, SpellsItsKey, Canonical, Paths

\* A path stays canonical when entries are added.
LEMMA CanonicalStays ==
  ASSUME canonical \subseteq canonical', NEW p, Canonical(p) PROVE Canonical(p)'
  BY DEF Canonical, EntryOf

\* KeepSegment with flattening: the segment is spelled as the entry of its key.
LEMMA KeptByKey ==
  ASSUME CollapseTypes, NEW name \in Segment, NEW c,
         c.key = Key(Append(kept, name)), c.key[Len(c.key)] = Lower(c.name),
         c.name \in Segment
  PROVE  /\ Append(kept, c.name) \in Paths
         /\ Len(c.key) = Len(Append(kept, c.name))
         /\ EntryOf(c, Append(kept, c.name), Len(kept) + 1)
  <1>1. kept \in Paths /\ Len(kept) \in Nat
    BY DEF CollapseTypes, Paths
  <1>2. /\ c.key \in Paths /\ Len(c.key) = Len(kept) + 1
        /\ \A i \in 1..Len(kept) : c.key[i] = Lower(kept[i])
        /\ c.key[Len(kept) + 1] = Lower(name)
    BY <1>1, KeyAppend
  <1>3. /\ Append(kept, c.name) \in Paths /\ Len(Append(kept, c.name)) = Len(kept) + 1
        /\ \A i \in 1..Len(kept) : Append(kept, c.name)[i] = kept[i]
        /\ Append(kept, c.name)[Len(kept) + 1] = c.name
    BY <1>1 DEF Paths
  <1>4. \A i \in 1..(Len(kept) + 1) : c.key[i] = Lower(Append(kept, c.name)[i])
    BY <1>1, <1>2, <1>3
  <1> QED
    BY <1>2, <1>3, <1>4 DEF EntryOf

\* A canonical path stays so with such a segment.
LEMMA CanonicalAppend ==
  ASSUME CollapseTypes, Canonical(kept), NEW c \in canonical,
         EntryOf(c, Append(kept, c.name), Len(kept) + 1), c.name \in Segment
  PROVE  Canonical(Append(kept, c.name))
  <1>1. kept \in Paths /\ Len(kept) \in Nat
    BY DEF CollapseTypes, Paths
  <1>2. /\ Len(Append(kept, c.name)) = Len(kept) + 1
        /\ \A i \in 1..Len(kept) : Append(kept, c.name)[i] = kept[i]
    BY <1>1 DEF Paths
  <1>3. ASSUME NEW n \in 1..Len(kept)
        PROVE  \E d \in canonical : EntryOf(d, Append(kept, c.name), n)
    <2>1. PICK d \in canonical : EntryOf(d, kept, n)
      BY <1>3 DEF Canonical
    <2>2. EntryOf(d, Append(kept, c.name), n)
      BY <1>1, <1>2, <1>3, <2>1 DEF EntryOf
    <2> QED
      BY <2>2
  <1> QED
    BY <1>1, <1>2, <1>3 DEF Canonical

\* What is kept of a directory so far.
LEMMA KeepStep == IInv /\ KeepSegment => IInv'
  <1> SUFFICES ASSUME IInv, KeepSegment PROVE IInv'
    OBVIOUS
  <1>1. CollapseTypes
    BY DEF IInv
  <1> DEFINE name == Head(rest)
             key  == Key(Append(kept, name))
  <1>2. name \in Segment /\ kept \in Paths /\ Tail(rest) \in Paths
    BY <1>1 DEF KeepSegment, CollapseTypes, Paths
  <1>3. key \in Paths /\ Len(key) = Len(kept) + 1 /\ key[Len(key)] = Lower(name)
    <2>1. Len(kept) \in Nat
      BY <1>2 DEF Paths
    <2>2. /\ Key(Append(kept, name)) \in Paths
          /\ Len(Key(Append(kept, name))) = Len(kept) + 1
          /\ Key(Append(kept, name))[Len(kept) + 1] = Lower(name)
      BY <1>2, KeyAppend
    <2> QED
      BY <2>1, <2>2
  <1>4. /\ rest' = Tail(rest)
        /\ UNCHANGED <<flatten, patterns, dirs, pc, todo, dir, logical>>
    BY DEF KeepSegment
  <1> HIDE DEF name, key
  <1>5. \/ ~flatten /\ kept' = Append(kept, name) /\ canonical' = canonical
        \/ /\ flatten /\ canonical' = canonical
           /\ \E c \in canonical : c.key = key /\ kept' = Append(kept, c.name)
        \/ /\ flatten /\ \A c \in canonical : c.key # key
           /\ canonical' = canonical \union {[key |-> key, name |-> name]}
           /\ kept' = Append(kept, name)
    BY DEF KeepSegment, name, key
  <1>6. CASE ~flatten
    <2>1. kept' = Append(kept, name) /\ canonical' = canonical
      BY <1>5, <1>6
    <2>2. kept' \in Paths
      BY <1>2, <2>1 DEF Paths
    <2>3. CollapseTypes'
      BY <1>1, <1>2, <1>4, <2>1, <2>2 DEF CollapseTypes
    <2>4. SpelledOnce' /\ SpellsItsKey'
      BY <2>1 DEF IInv, SpelledOnce, SpellsItsKey
    <2> QED
      BY <1>4, <1>6, <2>3, <2>4 DEF IInv
  <1>7. CASE flatten /\ canonical' = canonical
    <2>1. PICK c \in canonical : c.key = key /\ kept' = Append(kept, c.name)
      <3>1. \A k, n : [key |-> k, name |-> n].key = k
        OBVIOUS
      <3> QED
        BY <1>5, <1>7, <3>1
    <2>2. c.name \in Segment /\ c.key[Len(c.key)] = Lower(c.name)
      BY <1>1 DEF IInv, CollapseTypes, SpellsItsKey
    <2>3. kept' \in Paths /\ EntryOf(c, kept', Len(kept) + 1)
      BY <1>1, <1>2, <2>1, <2>2, KeptByKey DEF key
    <2>4. Canonical(kept')
      BY <1>1, <1>7, <2>1, <2>2, <2>3, CanonicalAppend DEF IInv
    <2>5. CollapseTypes'
      BY <1>1, <1>2, <1>4, <1>7, <2>3 DEF CollapseTypes
    <2>6. SpelledOnce' /\ SpellsItsKey'
      BY <1>7 DEF IInv, SpelledOnce, SpellsItsKey
    <2>7. Canonical(kept)' /\ \A l \in logical' : Canonical(l.path)'
      BY <1>4, <1>7, <2>4 DEF IInv, Canonical, EntryOf
    <2> QED
      BY <2>5, <2>6, <2>7 DEF IInv
  <1>8. CASE flatten /\ canonical' # canonical
    <2> DEFINE c == [key |-> key, name |-> name]
    <2>1. /\ \A d \in canonical : d.key # key
          /\ canonical' = canonical \union {c} /\ kept' = Append(kept, name)
      BY <1>5, <1>8
    <2>2. c.key = key /\ c.name = name /\ c \in canonical'
      BY <2>1
    <2>3. kept' \in Paths /\ Len(kept') = Len(kept) + 1
      BY <1>2, <2>1 DEF Paths
    <2>4. CollapseTypes'
      BY <1>1, <1>2, <1>3, <1>4, <2>1, <2>3 DEF CollapseTypes
    <2>5. SpelledOnce'
      BY <2>1, <2>2 DEF IInv, SpelledOnce
    <2>6. SpellsItsKey'
      BY <1>2, <1>3, <2>1, <2>2 DEF IInv, SpellsItsKey, Paths
    <2> HIDE DEF c
    <2>7. EntryOf(c, kept', Len(kept) + 1)
      BY <1>1, <1>2, <1>3, <2>1, <2>2, KeptByKey DEF key
    <2>8. ASSUME NEW n \in 1..Len(kept') PROVE \E d \in canonical' : EntryOf(d, kept', n)
      <3>1. CASE n = Len(kept) + 1
        BY <2>2, <2>7, <3>1
      <3>2. CASE n # Len(kept) + 1
        <4>1. n \in 1..Len(kept) /\ Len(kept) \in Nat
          BY <1>2, <2>3, <2>8, <3>2 DEF Paths
        <4>2. PICK d \in canonical : EntryOf(d, kept, n)
          BY <1>8, <4>1 DEF IInv, Canonical
        <4>3. \A i \in 1..n : kept'[i] = kept[i]
          BY <1>2, <2>1, <4>1 DEF Paths
        <4> QED
          BY <2>1, <4>1, <4>2, <4>3 DEF EntryOf
      <3> QED
        BY <3>1, <3>2
    <2>9. Canonical(kept)' /\ \A l \in logical' : Canonical(l.path)'
      BY <1>4, <1>8, <2>1, <2>8 DEF IInv, Canonical, EntryOf
    <2> QED
      BY <2>4, <2>5, <2>6, <2>9 DEF IInv
  <1> QED
    BY <1>6, <1>7, <1>8

\* The other actions.
LEMMA OtherStep ==
  ASSUME IInv, \/ NextDir \/ DropSegment \/ DirDone
               \/ UNCHANGED <<flatten, dirs, todo, dir, rest, kept, canonical, logical>>
  PROVE  IInv'
  <1>1. CASE NextDir
    BY <1>1 DEF NextDir, IInv, CollapseTypes, SpelledOnce, SpellsItsKey, Canonical, EntryOf, Paths
  <1>2. CASE DropSegment
    <2>1. /\ rest' = Tail(rest) /\ rest # <<>>
          /\ UNCHANGED <<flatten, dirs, todo, dir, kept, canonical, logical>>
      BY <1>2 DEF DropSegment
    <2>2. CollapseTypes'
      BY <2>1 DEF IInv, CollapseTypes, Paths
    <2> QED
      BY <2>1, <2>2 DEF IInv, SpelledOnce, SpellsItsKey, Canonical, EntryOf
  <1>3. CASE DirDone
    <2>1. /\ logical' = logical \union {[dir |-> dir, path |-> kept]}
          /\ UNCHANGED <<flatten, dirs, todo, dir, rest, kept, canonical>>
      BY <1>3 DEF DirDone
    <2>2. CollapseTypes'
      BY <2>1 DEF IInv, CollapseTypes
    <2>3. flatten => Canonical(kept)' /\ \A l \in logical' : Canonical(l.path)'
      BY <2>1 DEF IInv, Canonical, EntryOf
    <2> QED
      BY <2>1, <2>2, <2>3 DEF IInv, SpelledOnce, SpellsItsKey
  <1>4. CASE UNCHANGED <<flatten, dirs, todo, dir, rest, kept, canonical, logical>>
    BY <1>4 DEF IInv, CollapseTypes, SpelledOnce, SpellsItsKey, Canonical, EntryOf, Paths
  <1> QED
    BY <1>1, <1>2, <1>3, <1>4

-----------------------------------------------------------------------------
(* The theorem *)

\* The plan does not change what was collapsed.
LEMMA Invariance == Spec => []IInv
  <1>1. ASSUME IInv, [Next]_vars PROVE IInv'
    <2>1. \/ KeepSegment \/ NextDir \/ DropSegment \/ DirDone
          \/ UNCHANGED <<flatten, dirs, todo, dir, rest, kept, canonical, logical>>
      BY <1>1 DEF Next, CollapseStep, PlanFails, StartPlan, PlaceSibling, NextGroup, PlanDone,
         vars, collapseVars
    <2> QED
      BY <1>1, <2>1, KeepStep, OtherStep
  <1> QED
    BY InitHolds, <1>1, PTL DEF Spec

\* Folders that differ only in case become one folder (README.md "Folder
\* flattening"), whatever their names, depth, containers and order.
THEOREM VariantsMerge == Spec => []CaseVariantsMerge
  <1>1. ASSUME IInv PROVE CaseVariantsMerge
    <2> SUFFICES ASSUME flatten, NEW a \in logical, NEW b \in logical,
                        LowerPath(a.path) = LowerPath(b.path)
                 PROVE  a.path = b.path
      BY DEF CaseVariantsMerge
    <2>1. a.path \in Paths /\ b.path \in Paths /\ Canonical(a.path) /\ Canonical(b.path)
      BY <1>1 DEF IInv, CollapseTypes
    <2> QED
      BY <1>1, <2>1, CanonicalEqual DEF IInv
  <1> QED
    BY Invariance, <1>1, PTL

-----------------------------------------------------------------------------
(* PositionKept *)

\* The segments before `rest` have been looked at.
Looked == Len(dir) - Len(rest)

RestIsSuffix ==
  /\ Looked \in Nat
  /\ \A i \in 1..Len(rest) : rest[i] = dir[Looked + i]

\* What is kept of the directory at work, and of those that are done.
PositionInv ==
  /\ pc = "segments" => RestIsSuffix /\ Keeps(dir, Looked, kept)
  /\ PositionKept

\* Another segment either counts or does not.
LEMMA StayNext ==
  ASSUME NEW p, NEW n \in Nat
  PROVE  /\ StayUpTo(p, 0) = 0 /\ StayUpTo(p, n) \in Nat
         /\ StayUpTo(p, n + 1) =
              IF IsContainerSegment(p[n + 1]) THEN StayUpTo(p, n) ELSE StayUpTo(p, n) + 1
  <1> DEFINE S(k) == {i \in 1..k : ~IsContainerSegment(p[i])}
  <1>1. \A k \in Nat : IsFiniteSet(S(k)) /\ Cardinality(S(k)) \in Nat
    <2> TAKE k \in Nat
    <2>1. IsFiniteSet(1..k)
      BY FS_Interval
    <2>2. S(k) \in SUBSET (1..k)
      OBVIOUS
    <2>3. IsFiniteSet(S(k))
      BY <2>1, <2>2, FS_Subset
    <2> QED
      BY <2>3, FS_CardinalityType
  <1>2. S(0) = {}
    OBVIOUS
  <1>3. CASE IsContainerSegment(p[n + 1])
    <2>1. S(n + 1) = S(n)
      BY <1>3
    <2> QED
      BY <1>1, <1>2, <1>3, <2>1, FS_EmptySet DEF StayUpTo
  <1>4. CASE ~IsContainerSegment(p[n + 1])
    <2>1. S(n + 1) = S(n) \cup {n + 1} /\ n + 1 \notin S(n)
      BY <1>4
    <2>2. Cardinality(S(n + 1)) = Cardinality(S(n)) + 1
      BY <1>1, <2>1, FS_AddElement
    <2> QED
      BY <1>1, <1>2, <1>4, <2>2, FS_EmptySet DEF StayUpTo
  <1> QED
    BY <1>3, <1>4

\* The places of the segments that stay do not go beyond their number.
LEMMA StayBounds ==
  ASSUME NEW p, NEW n \in Nat, NEW i \in 1..n, ~IsContainerSegment(p[i])
  PROVE  StayUpTo(p, i) \in 1..StayUpTo(p, n)
  <1> DEFINE S(k) == {j \in 1..k : ~IsContainerSegment(p[j])}
  <1>1. IsFiniteSet(S(n))
    <2>1. IsFiniteSet(1..n) /\ S(n) \in SUBSET (1..n)
      BY FS_Interval
    <2> QED
      BY <2>1, FS_Subset
  <1>2. S(i) \in SUBSET S(n)
    OBVIOUS
  <1>3. IsFiniteSet(S(i)) /\ Cardinality(S(i)) <= Cardinality(S(n))
    BY <1>1, <1>2, FS_Subset
  <1>4. i \in S(i)
    OBVIOUS
  <1>5. Cardinality(S(i)) # 0
    BY <1>3, <1>4, FS_EmptySet
  <1>6. Cardinality(S(i)) \in Nat /\ Cardinality(S(n)) \in Nat
    BY <1>1, <1>3, FS_CardinalityType
  <1> QED
    BY <1>3, <1>5, <1>6 DEF StayUpTo

\* A container adds nothing to what is kept, another segment adds itself.
LEMMA KeepsNext ==
  ASSUME NEW p \in Paths, NEW n \in 0..(Len(p) - 1), NEW q \in Paths, Keeps(p, n, q)
  PROVE  /\ IsContainerSegment(p[n + 1]) => Keeps(p, n + 1, q)
         /\ ~IsContainerSegment(p[n + 1]) =>
              \A s \in Segment : Lower(s) = Lower(p[n + 1]) => Keeps(p, n + 1, Append(q, s))
  <1>1. n \in Nat /\ Len(q) = StayUpTo(p, n) /\ Len(q) \in Nat
    BY DEF Keeps, Paths
  <1>2. \A i \in 1..n : ~IsContainerSegment(p[i]) => StayUpTo(p, i) \in 1..Len(q)
    BY <1>1, StayBounds
  <1>3. CASE IsContainerSegment(p[n + 1])
    <2>1. StayUpTo(p, n + 1) = StayUpTo(p, n)
      BY <1>1, <1>3, StayNext
    <2>2. \A i \in 1..(n + 1) : i # n + 1 => i \in 1..n
      BY <1>1
    <2> QED
      BY <1>1, <1>3, <2>1, <2>2 DEF Keeps
  <1>4. CASE ~IsContainerSegment(p[n + 1])
    <2>1. StayUpTo(p, n + 1) = Len(q) + 1
      BY <1>1, <1>4, StayNext
    <2>2. ASSUME NEW s \in Segment, Lower(s) = Lower(p[n + 1])
          PROVE  Keeps(p, n + 1, Append(q, s))
      <3>1. /\ Len(Append(q, s)) = Len(q) + 1 /\ Append(q, s)[Len(q) + 1] = s
            /\ \A i \in 1..Len(q) : Append(q, s)[i] = q[i]
        BY DEF Paths
      <3>2. ASSUME NEW i \in 1..(n + 1), ~IsContainerSegment(p[i])
            PROVE  Lower(Append(q, s)[StayUpTo(p, i)]) = Lower(p[i])
        <4>1. CASE i = n + 1
          BY <2>1, <2>2, <3>1, <4>1
        <4>2. CASE i # n + 1
          <5>1. i \in 1..n
            BY <1>1, <3>2, <4>2
          <5>2. StayUpTo(p, i) \in 1..Len(q) /\ Lower(q[StayUpTo(p, i)]) = Lower(p[i])
            BY <1>2, <3>2, <5>1 DEF Keeps
          <5> QED
            BY <3>1, <5>2
        <4> QED
          BY <4>1, <4>2
      <3> QED
        BY <2>1, <3>1, <3>2 DEF Keeps
    <2> QED
      BY <1>4, <2>2
  <1> QED
    BY <1>3, <1>4

\* What is a container does not change while the program runs.
LEMMA KeepsStays ==
  ASSUME flatten' = flatten, patterns' = patterns, NEW p, NEW n, NEW q, Keeps(p, n, q)
  PROVE  Keeps(p, n, q)'
  BY DEF Keeps, StayUpTo, IsContainerSegment

\* The walk along one directory.
LEMMA SegmentStep ==
  ASSUME IInv, PositionInv, pc = "segments", rest # <<>>,
         rest' = Tail(rest), dir' = dir, flatten' = flatten, patterns' = patterns,
         logical' = logical, kept' \in Paths,
         IF IsContainerSegment(Head(rest)) THEN kept' = kept
         ELSE \E s \in Segment : Lower(s) = Lower(Head(rest)) /\ kept' = Append(kept, s)
  PROVE  PositionInv'
  <1>1. dir \in Paths /\ rest \in Paths /\ kept \in Paths /\ Len(rest) \in Nat /\ Len(dir) \in Nat
    BY DEF IInv, CollapseTypes, Paths
  <1>2. Looked \in Nat /\ \A i \in 1..Len(rest) : rest[i] = dir[Looked + i]
    BY DEF PositionInv, RestIsSuffix
  <1>3. /\ Len(rest) # 0 /\ Head(rest) = rest[1] /\ Len(Tail(rest)) = Len(rest) - 1
        /\ \A i \in 1..(Len(rest) - 1) : Tail(rest)[i] = rest[i + 1]
    BY <1>1 DEF Paths
  <1>4. Looked' = Looked + 1 /\ Looked \in 0..(Len(dir) - 1) /\ Head(rest) = dir[Looked + 1]
    BY <1>1, <1>2, <1>3 DEF Looked
  <1>5. RestIsSuffix'
    <2>1. \A i \in 1..Len(rest') : rest'[i] = dir'[Looked' + i]
      <3> TAKE i \in 1..Len(rest')
      <3>1. i \in 1..(Len(rest) - 1) /\ i + 1 \in 1..Len(rest)
        BY <1>1, <1>3
      <3>2. rest'[i] = rest[i + 1]
        BY <1>3, <3>1
      <3>3. rest[i + 1] = dir[Looked + (i + 1)]
        BY <1>2, <3>1
      <3>4. Looked + (i + 1) = Looked' + i
        BY <1>2, <1>4, <3>1
      <3> QED
        BY <3>2, <3>3, <3>4
    <2> QED
      BY <1>2, <1>4, <2>1 DEF RestIsSuffix
  <1>6. Keeps(dir, Looked, kept)
    BY DEF PositionInv
  <1>7. PICK k, d, q : k = Looked + 1 /\ d = dir /\ q = kept'
    OBVIOUS
  <1>8. Keeps(d, k, q)
    <2>1. CASE IsContainerSegment(Head(rest))
      BY <1>1, <1>4, <1>6, <1>7, <2>1, KeepsNext
    <2>2. CASE ~IsContainerSegment(Head(rest))
      BY <1>1, <1>4, <1>6, <1>7, <2>2, KeepsNext
    <2> QED
      BY <2>1, <2>2
  <1>9. Keeps(d, k, q)'
    BY <1>8, KeepsStays
  <1>10. Keeps(dir, Looked, kept)'
    BY <1>4, <1>7, <1>9 DEF Keeps
  <1>11. PositionKept'
    <2> SUFFICES ASSUME NEW l \in logical PROVE Keeps(l.dir, Len(l.dir), l.path)'
      BY DEF PositionKept
    <2> QED
      BY KeepsStays DEF PositionInv, PositionKept
  <1> QED
    BY <1>5, <1>10, <1>11 DEF PositionInv

\* Each step keeps the positions.
LEMMA PositionStep ==
  ASSUME IInv, PositionInv, Next \/ UNCHANGED vars
  PROVE  PositionInv'
  <1>1. flatten' = flatten /\ patterns' = patterns
    BY DEF Next, CollapseStep, NextDir, DropSegment, KeepSegment, DirDone, PlanFails, StartPlan,
       PlaceSibling, NextGroup, PlanDone, vars, collapseVars
  <1>2. PositionKept /\ (logical' = logical => PositionKept')
    <2>1. ASSUME logical' = logical, NEW l \in logical
          PROVE  Keeps(l.dir, Len(l.dir), l.path)'
      BY <1>1, <2>1, KeepsStays DEF PositionInv, PositionKept
    <2> QED
      BY <2>1 DEF PositionInv, PositionKept
  <1>3. CASE NextDir
    <2>1. /\ dir' = rest' /\ kept' = <<>> /\ logical' = logical /\ dir' \in todo
      BY <1>3 DEF NextDir
    <2>2. PICK d \in Paths : d = dir' /\ d = rest'
      BY <2>1 DEF IInv, CollapseTypes
    <2>3. Len(d) \in Nat
      BY DEF Paths
    <2>4. Looked' = 0
      BY <2>2, <2>3 DEF Looked
    <2>5. RestIsSuffix'
      <3>1. \A i \in 1..Len(rest') : rest'[i] = dir'[Looked' + i]
        BY <2>2, <2>3, <2>4
      <3> QED
        BY <2>4, <3>1 DEF RestIsSuffix
    <2>6. Keeps(d, 0, <<>>)
      BY StayNext DEF Keeps
    <2>7. Keeps(d, 0, <<>>)'
      BY <1>1, <2>6, KeepsStays
    <2>8. Keeps(dir, Looked, kept)'
      BY <2>1, <2>2, <2>4, <2>7 DEF Keeps
    <2> QED
      BY <1>2, <2>1, <2>5, <2>8 DEF PositionInv
  <1>4. CASE DropSegment
    BY <1>1, <1>4, SegmentStep DEF DropSegment, IInv, CollapseTypes
  <1>5. CASE KeepSegment
    <2>1. /\ pc = "segments" /\ rest # <<>> /\ rest' = Tail(rest) /\ dir' = dir
          /\ logical' = logical /\ ~IsContainerSegment(Head(rest))
      BY <1>5 DEF KeepSegment
    <2>2. Head(rest) \in Segment /\ kept \in Paths
      BY <2>1 DEF IInv, CollapseTypes, Paths
    <2>3. \E s \in Segment : Lower(s) = Lower(Head(rest)) /\ kept' = Append(kept, s)
      <3>1. \/ kept' = Append(kept, Head(rest))
            \/ \E c \in canonical : /\ c.key = Key(Append(kept, Head(rest)))
                                    /\ kept' = Append(kept, c.name)
        BY <1>5 DEF KeepSegment
      <3>2. ASSUME NEW c \in canonical, c.key = Key(Append(kept, Head(rest)))
            PROVE  c.name \in Segment /\ Lower(c.name) = Lower(Head(rest))
        <4>1. c.name \in Segment /\ c.key[Len(c.key)] = Lower(c.name)
          BY DEF IInv, CollapseTypes, SpellsItsKey
        <4>2. Len(kept) \in Nat
          BY <2>2 DEF Paths
        <4>3. c.key[Len(c.key)] = Lower(Head(rest))
          BY <2>2, <3>2, <4>2, KeyAppend
        <4> QED
          BY <4>1, <4>3
      <3> QED
        BY <2>2, <3>1, <3>2
    <2>4. kept' \in Paths
      BY <2>2, <2>3 DEF Paths
    <2> QED
      BY <1>1, <2>1, <2>3, <2>4, SegmentStep
  <1>6. CASE DirDone
    <2>1. /\ pc = "segments" /\ rest = <<>> /\ pc' = "dirs"
          /\ logical' = logical \union {[dir |-> dir, path |-> kept]}
      BY <1>6 DEF DirDone
    <2>2. Looked = Len(dir) /\ Keeps(dir, Looked, kept)
      BY <2>1 DEF PositionInv, Looked, IInv, CollapseTypes, Paths
    <2>3. ASSUME NEW l \in logical' PROVE Keeps(l.dir, Len(l.dir), l.path)
      <3>1. CASE l \in logical
        BY <1>2, <3>1 DEF PositionKept
      <3>2. CASE l \notin logical
        <4>1. l.dir = dir /\ l.path = kept
          BY <2>1, <2>3, <3>2
        <4> QED
          BY <2>2, <4>1
      <3> QED
        BY <3>1, <3>2
    <2>4. PositionKept'
      BY <1>1, <2>3, KeepsStays DEF PositionKept
    <2> QED
      BY <2>1, <2>4 DEF PositionInv
  <1>7. CASE \/ PlanFails \/ StartPlan \/ PlanDone
    BY <1>2, <1>7 DEF PlanFails, StartPlan, PlanDone, PositionInv
  <1>8. CASE UNCHANGED collapseVars
    <2>1. Keeps(dir, Looked, kept)' = Keeps(dir, Looked, kept)
      BY <1>8 DEF collapseVars, Keeps, StayUpTo, IsContainerSegment, Looked
    <2> QED
      BY <1>2, <1>8, <2>1 DEF PositionInv, RestIsSuffix, Looked, collapseVars
  <1> QED
    BY <1>3, <1>4, <1>5, <1>6, <1>7, <1>8 DEF Next, CollapseStep, PlaceSibling, NextGroup, vars

\* A logical path keeps every segment of its directory that is not a container, in
\* order, whatever the containers, their patterns and the spellings of others.
THEOREM PositionsKept == Spec => []PositionKept
  <1>1. Init => PositionInv
    BY DEF Init, CollapseInit, PositionInv, PositionKept
  <1>2. IInv /\ PositionInv /\ [Next]_vars => PositionInv'
    BY PositionStep
  <1>3. PositionInv => PositionKept
    BY DEF PositionInv
  <1> QED
    BY Invariance, <1>1, <1>2, <1>3, PTL DEF Spec

-----------------------------------------------------------------------------
(* The plan: names *)

\* Least elements exist.
LEMMA Least ==
  ASSUME NEW S \in SUBSET Nat, S # {}
  PROVE  \E n \in S : \A m \in S : n <= m
  <1>1. \E n \in S : \A m \in S : ~(<<m, n>> \in OpToRel(<, Nat))
    BY NatLessThanWellFounded, WFMin
  <1>2. PICK n \in S : \A m \in S : ~(<<m, n>> \in OpToRel(<, Nat))
    BY <1>1
  <1>3. \A m \in S : m \in Nat /\ n \in Nat /\ ~(m < n)
    BY <1>2 DEF OpToRel
  <1>4. \A m \in S : n <= m
    BY <1>3
  <1> QED
    BY <1>4

\* A path and its last segment.
LEMMA FrontLast ==
  ASSUME NEW S, NEW p \in Seq(S), p # <<>>
  PROVE  /\ Front(p) \in Seq(S) /\ Last(p) \in S
         /\ Len(p) \in Nat \ {0} /\ Len(Front(p)) = Len(p) - 1
         /\ Append(Front(p), Last(p)) = p
  BY DEF Front, Last

LEMMA FrontAppend ==
  ASSUME NEW S, NEW p \in Seq(S), NEW e \in S
  PROVE  /\ Front(Append(p, e)) = p /\ Last(Append(p, e)) = e
         /\ Append(p, e) \in Seq(S) /\ Append(p, e) # <<>> /\ Len(Append(p, e)) = Len(p) + 1
  BY DEF Front, Last

\* Names of folders: segments, shortened ones with a hash.
Names ==
  [stem : Stem, dup : Seq(Nat), trail : BOOLEAN, upper : BOOLEAN,
   hash : {""} \union {Hash(s) : s \in Segment}]

LEMMA NormalizeType == \A s \in Segment : Normalize(s) \in Names
  <1> TAKE s \in Segment
  <1>1. /\ s.stem \in Stem /\ s.dup \in Seq(Nat) /\ s.trail \in BOOLEAN /\ s.upper \in BOOLEAN
        /\ s.hash = ""
    BY DEF Segment
  <1> DEFINE trimmed == [s EXCEPT !.stem = Clean[@], !.trail = FALSE]
             named == IF trimmed.stem = Blank /\ trimmed.dup = <<>>
                      THEN [trimmed EXCEPT !.stem = Underscore] ELSE trimmed
  <1>2. trimmed \in Segment
    BY <1>1, PlanStemAssumption DEF Segment
  <1>3. named \in Segment
    BY <1>2, PlanStemAssumption DEF Segment
  <1> HIDE DEF named
  <1>4. named \in Names
    BY <1>3 DEF Segment, Names
  <1>5. named.stem \in Long =>
          [named EXCEPT !.stem = Prefix[@], !.dup = <<>>, !.hash = Hash(s)] \in Names
    <2>1. Hash(s) \in {""} \union {Hash(t) : t \in Segment}
      BY Zenon
    <2>2. named.stem \in Long => Prefix[named.stem] \in Stem
      BY PlanStemAssumption
    <2> DEFINE H == {""} \union {Hash(t) : t \in Segment}
    <2> HIDE DEF H
    <2>3. Hash(s) \in H
      BY <2>1 DEF H
    <2>4. Names = [stem : Stem, dup : Seq(Nat), trail : BOOLEAN, upper : BOOLEAN, hash : H]
      BY DEF Names, H
    <2>5. <<>> \in Seq(Nat)
      OBVIOUS
    <2>6. ASSUME NEW n \in Names, NEW e \in Stem
          PROVE  [n EXCEPT !.stem = e, !.dup = <<>>, !.hash = Hash(s)] \in Names
      BY <2>3, <2>4, <2>5
    <2> QED
      BY <1>4, <2>2, <2>6
  <1> QED
    BY <1>4, <1>5 DEF Normalize, named

LEMMA BaseNameType == \A node \in Paths : BaseName(node) \in Names
  <1> TAKE node \in Paths
  <1>1. CASE node = <<>>
    BY <1>1, PlanStemAssumption DEF BaseName, Segment, Names
  <1>2. CASE node # <<>>
    BY <1>2, FrontLast, NormalizeType DEF BaseName, Paths
  <1> QED
    BY <1>1, <1>2

\* Suffixes with different numbers make different names, also without case.
LEMMA SuffixesDiffer ==
  ASSUME NEW b \in Names, NEW j \in Nat, NEW k \in Nat
  PROVE  /\ Suffixed(b, k) \in Names
         /\ Lower(Suffixed(b, j)) = Lower(Suffixed(b, k)) => j = k
  <1>1. b.dup \in Seq(Nat)
    BY DEF Names
  <1>2. Append(b.dup, k) \in Seq(Nat) /\ Last(Append(b.dup, k)) = k /\ Last(Append(b.dup, j)) = j
    BY <1>1, FrontAppend
  <1>3. Suffixed(b, k) \in Names /\ Suffixed(b, j).dup = Append(b.dup, j)
        /\ Suffixed(b, k).dup = Append(b.dup, k)
    BY <1>1, <1>2 DEF Suffixed, Names
  <1>4. /\ Lower(Suffixed(b, j)).dup = Append(b.dup, j)
        /\ Lower(Suffixed(b, k)).dup = Append(b.dup, k)
    BY DEF Suffixed, Lower, Names
  <1> QED
    BY <1>2, <1>3, <1>4

\* Among that many suffixes one is free.
LEMMA SomeSuffixFree ==
  ASSUME used \subseteq Names, IsFiniteSet(used), NEW b \in Names
  PROVE  \E k \in 2..(Cardinality(used) + 2) : ~Taken(Suffixed(b, k))
  <1> DEFINE n == Cardinality(used)
             K == 2..(n + 2)
             f == [k \in K |-> CHOOSE u \in used : Lower(Suffixed(b, k)) = Lower(u)]
  <1> SUFFICES ASSUME \A k \in K : Taken(Suffixed(b, k)) PROVE FALSE
    OBVIOUS
  <1>1. n \in Nat
    BY FS_CardinalityType
  <1>2. IsFiniteSet(K) /\ Cardinality(K) = n + 1
    BY <1>1, FS_Interval
  <1>3. \A k \in K : f[k] \in used /\ Lower(Suffixed(b, k)) = Lower(f[k])
    BY DEF Taken
  <1>4. f \in [K -> used]
    BY <1>3
  <1> HIDE DEF f
  <1>5. \E j, k \in K : j # k /\ f[j] = f[k]
    BY <1>1, <1>2, <1>4, FS_PigeonHole
  <1>6. PICK j \in K, k \in K : j # k /\ f[j] = f[k]
    BY <1>5
  <1>7. j \in Nat /\ k \in Nat /\ Lower(Suffixed(b, j)) = Lower(Suffixed(b, k))
    BY <1>1, <1>3, <1>6
  <1> QED
    BY <1>6, <1>7, SuffixesDiffer

\* The loop for a free name ends with one.
LEMMA FinalNameFree ==
  ASSUME used \subseteq Names, IsFiniteSet(used), NEW node \in Paths
  PROVE  FinalName(node) \in Names /\ ~Taken(FinalName(node))
  <1> DEFINE b == BaseName(node)
             free == {k \in 2..(Cardinality(used) + 2) : ~Taken(Suffixed(b, k))}
  <1>1. b \in Names
    BY BaseNameType
  <1>2. CASE ~Taken(b)
    BY <1>1, <1>2 DEF FinalName
  <1>3. CASE Taken(b)
    <2>1. free # {}
      BY <1>1, SomeSuffixFree
    <2>2. free \in SUBSET Nat
      BY FS_CardinalityType
    <2> HIDE DEF free
    <2>3. Min(free) \in free
      BY <2>1, <2>2, Least DEF Min
    <2>4. ~Taken(Suffixed(b, Min(free))) /\ Min(free) \in Nat
      BY <2>2, <2>3 DEF free
    <2>5. FinalName(node) = Suffixed(b, Min(free))
      BY <1>3 DEF FinalName, free
    <2> QED
      BY <1>1, <2>4, <2>5, SuffixesDiffer
  <1> QED
    BY <1>2, <1>3

-----------------------------------------------------------------------------
(* The plan: groups, queue and targets *)

ParentOf(node) == IF node = <<>> THEN <<>> ELSE Front(node)
Placed(node) == \E t \in target : t.node = node

PlanTypes ==
  /\ queue \in Seq(Paths) /\ group \subseteq Paths /\ parent \in Paths
  /\ used \subseteq Names
  /\ target \subseteq [node : Paths, path : Seq(Names)]

\* Nothing is planned while directories are collapsed.
NotBegun ==
  pc \in {"dirs", "segments"} => queue = <<>> /\ target = {}

\* A node in the queue has a placed parent, whose group has not come yet: no child
\* of it is placed.  Children of one parent stand together.
QueueInv ==
  /\ \A i \in 1..Len(queue) :
       /\ queue[i] # <<>> /\ Front(queue[i]) # <<>>
       /\ Placed(Front(queue[i])) /\ Front(queue[i]) # parent
       /\ \A t \in target : ParentOf(t.node) # Front(queue[i])
  /\ \A i, j, k \in 1..Len(queue) :
       i < j /\ j < k /\ Front(queue[i]) = Front(queue[k]) => Front(queue[j]) = Front(queue[i])

\* A node of the group at work is not placed; `used` has the names of its siblings
\* that are.
GroupInv ==
  /\ parent = <<>> \/ Placed(parent)
  /\ \A g \in group : ParentOf(g) = parent /\ ~Placed(g)
  /\ \A t \in target : ParentOf(t.node) = parent => Last(t.path) \in used

\* One place per node, one level deeper than that of its parent.
TargetInv ==
  /\ \A s, t \in target : s.node = t.node => s = t
  /\ \A t \in target : t.path # <<>> /\ (Len(t.node) <= 1 => Len(t.path) = 1)
  /\ TreeKept

PlanInv ==
  /\ PlanTypes /\ IsFiniteSet(used) /\ IsFiniteSet(logical) /\ NotBegun
  /\ QueueInv /\ GroupInv /\ TargetInv /\ TargetsDiffer

\* The parent of a node that is not at the top is placed, so it has a place.
LEMMA ParentPlace ==
  ASSUME PlanInv
  PROVE  /\ ParentTarget \in Seq(Names)
         /\ parent = <<>> => ParentTarget = <<>>
         /\ parent # <<>> => \E t \in target : t.node = parent /\ t.path = ParentTarget
  <1>1. CASE parent = <<>>
    BY <1>1 DEF ParentTarget
  <1>2. CASE parent # <<>>
    <2>1. \E t \in target : t.node = parent
      BY <1>2 DEF PlanInv, GroupInv, Placed
    <2> DEFINE p == CHOOSE t \in target : t.node = parent
    <2>2. p \in target /\ p.node = parent
      BY <2>1
    <2>3. ParentTarget = p.path
      BY <1>2 DEF ParentTarget
    <2>4. p.path \in Seq(Names)
      BY <2>2 DEF PlanInv, PlanTypes
    <2> QED
      BY <1>2, <2>2, <2>3, <2>4
  <1> QED
    BY <1>1, <1>2

\* What PlaceSibling does, with the path of the node as the node itself.
LEMMA Placing ==
  ASSUME PlanInv, PlaceSibling
  PROVE  \E node \in group, name \in Names :
           /\ node \in Paths /\ ~Placed(node) /\ ParentOf(node) = parent /\ ~Taken(name)
           /\ group' = group \ {node} /\ used' = used \union {name}
           /\ target' = target \union {[node |-> node, path |-> Append(ParentTarget, name)]}
           /\ IF node = <<>> THEN queue' = queue
              ELSE \E s \in SetToSeqs(Children(node)) : queue' = queue \o s
           /\ UNCHANGED <<collapseVars, parent>>
  <1>1. PICK node \in group :
          LET path == IF node = <<>> THEN node ELSE Append(parent, Last(node))
              name == FinalName(node) IN
          /\ group' = group \ {node} /\ used' = used \union {name}
          /\ target' = target \union {[node |-> path, path |-> Append(ParentTarget, name)]}
          /\ IF node = <<>> THEN UNCHANGED queue
             ELSE \E s \in SetToSeqs(Children(node)) :
                     /\ \A i, j \in DOMAIN s : i < j => Before(s[i], s[j])
                     /\ queue' = queue \o s
    BY DEF PlaceSibling
  <1>2. node \in Paths /\ ~Placed(node) /\ ParentOf(node) = parent
    BY DEF PlanInv, PlanTypes, GroupInv
  <1>3. (IF node = <<>> THEN node ELSE Append(parent, Last(node))) = node
    BY <1>2, FrontLast DEF ParentOf, Paths
  <1>4. FinalName(node) \in Names /\ ~Taken(FinalName(node))
    BY <1>2, FinalNameFree DEF PlanInv, PlanTypes
  <1>5. UNCHANGED <<collapseVars, parent>>
    BY DEF PlaceSibling
  <1>6. IF node = <<>> THEN queue' = queue
        ELSE \E s \in SetToSeqs(Children(node)) : queue' = queue \o s
    BY <1>1
  <1> QED
    BY <1>1, <1>2, <1>3, <1>4, <1>5, <1>6

\* The tree of finitely many directories is finite.
LEMMA FiniteImage ==
  ASSUME NEW S, IsFiniteSet(S), NEW f, DOMAIN f = S
  PROVE  IsFiniteSet({f[x] : x \in S})
  <1> DEFINE T == {f[x] : x \in S}
             g == [x \in S |-> f[x]]
  <1>1. g \in [S -> T] /\ \A y \in T : \E x \in S : g[x] = y
    OBVIOUS
  <1>2. g \in Surjection(S, T)
    BY <1>1 DEF Surjection
  <1> HIDE DEF g, T
  <1>3. IsFiniteSet(T)
    BY <1>2, FS_Surjection
  <1> QED
    BY <1>3 DEF T

LEMMA FiniteTree ==
  ASSUME IsFiniteSet(logical), LogicalDirs \subseteq Paths
  PROVE  Nodes \subseteq Paths /\ IsFiniteSet(Nodes)
  <1>1. IsFiniteSet(LogicalDirs)
    <2> DEFINE f == [l \in logical |-> l.path]
    <2>1. {f[l] : l \in logical} = LogicalDirs
      BY DEF LogicalDirs
    <2>2. DOMAIN f = logical
      OBVIOUS
    <2> HIDE DEF f
    <2> QED
      BY <2>1, <2>2, FiniteImage
  <1> DEFINE SourcePaths == [p \in LogicalDirs |-> {SubSeq(p, 1, n) : n \in 1..Len(p)}]
  <1>2. ASSUME NEW p \in LogicalDirs PROVE IsFiniteSet(SourcePaths[p])
    <2> DEFINE f == [n \in 1..Len(p) |-> SubSeq(p, 1, n)]
    <2>1. Len(p) \in Nat
      BY DEF Paths
    <2>2. IsFiniteSet(1..Len(p))
      BY <2>1, FS_Interval
    <2>3. {f[n] : n \in 1..Len(p)} = SourcePaths[p]
      OBVIOUS
    <2>4. DOMAIN f = 1..Len(p)
      OBVIOUS
    <2> HIDE DEF f
    <2> QED
      BY <2>2, <2>3, <2>4, FiniteImage
  <1>3. IsFiniteSet({SourcePaths[p] : p \in LogicalDirs})
    <2>1. DOMAIN SourcePaths = LogicalDirs
      OBVIOUS
    <2> HIDE DEF SourcePaths
    <2> QED
      BY <1>1, <2>1, FiniteImage
  <1>4. Nodes = UNION {SourcePaths[p] : p \in LogicalDirs}
    BY DEF Nodes
  <1> HIDE DEF SourcePaths
  <1>5. IsFiniteSet(Nodes)
    BY <1>2, <1>3, <1>4, FS_UNION
  <1>6. Nodes \subseteq Paths
    BY DEF Nodes, Paths
  <1> QED
    BY <1>5, <1>6

\* The children of a node in a sequence.
LEMMA ChildrenSeq ==
  ASSUME IsFiniteSet(logical), LogicalDirs \subseteq Paths,
         NEW node, NEW s \in SetToSeqs(Children(node))
  PROVE  /\ s \in Seq(Paths)
         /\ \A i \in 1..Len(s) : s[i] # <<>> /\ Front(s[i]) = node
         /\ \A c \in Children(node) : \E i \in 1..Len(s) : s[i] = c
  <1> DEFINE C == Children(node)
             n == Cardinality(C)
  <1>1. C \in SUBSET Nodes /\ \A p \in C : p # <<>> /\ Front(p) = node
    BY DEF Children
  <1>2. C \subseteq Paths /\ IsFiniteSet(C)
    BY <1>1, FiniteTree, FS_Subset
  <1>3. n \in Nat
    BY <1>2, FS_CardinalityType
  <1>4. s \in [1..n -> C] /\ \A i, j \in 1..n : i # j => s[i] # s[j]
    BY DEF SetToSeqs
  <1> HIDE DEF C
  <1>5. s \in Seq(Paths) /\ Len(s) = n
    BY <1>2, <1>3, <1>4
  <1>6. s \in Surjection(1..n, C)
    <2>1. s \in Injection(1..n, C)
      BY <1>4 DEF Injection, IsInjective
    <2>2. IsFiniteSet(1..n) /\ Cardinality(1..n) = n
      BY <1>3, FS_Interval
    <2> QED
      BY <1>2, <2>1, <2>2, FS_Injection
  <1>7. \A c \in C : \E i \in 1..n : s[i] = c
    BY <1>6 DEF Surjection
  <1> QED
    BY <1>1, <1>4, <1>5, <1>7 DEF C

\* Paths of names that are equal without case are so in every part.
LEMMA LowerLen ==
  ASSUME NEW p \in Seq(Names), NEW q \in Seq(Names), LowerPath(p) = LowerPath(q)
  PROVE  Len(p) = Len(q) /\ \A i \in 1..Len(p) : Lower(p[i]) = Lower(q[i])
  <1>1. DOMAIN LowerPath(p) = 1..Len(p) /\ DOMAIN LowerPath(q) = 1..Len(q)
    BY DEF LowerPath
  <1>2. Len(p) = Len(q)
    BY <1>1
  <1> QED
    BY <1>2 DEF LowerPath

LEMMA LowerAppend ==
  ASSUME NEW p \in Seq(Names), p # <<>>, NEW q \in Seq(Names), NEW e \in Names,
         LowerPath(p) = LowerPath(Append(q, e))
  PROVE  LowerPath(Front(p)) = LowerPath(q) /\ Lower(Last(p)) = Lower(e)
  <1>1. Append(q, e) \in Seq(Names) /\ Len(Append(q, e)) = Len(q) + 1 /\ Len(q) \in Nat
    OBVIOUS
  <1>2. Len(p) = Len(q) + 1 /\ \A i \in 1..Len(p) : Lower(p[i]) = Lower(Append(q, e)[i])
    BY <1>1, LowerLen
  <1>3. Lower(Last(p)) = Lower(e)
    BY <1>1, <1>2 DEF Last
  <1>4. /\ DOMAIN Front(p) = 1..Len(q) /\ DOMAIN q = 1..Len(q)
        /\ \A i \in 1..Len(q) : Front(p)[i] = p[i] /\ Append(q, e)[i] = q[i]
    BY <1>1, <1>2 DEF Front
  <1>5. \A i \in 1..Len(q) : Lower(Front(p)[i]) = Lower(q[i])
    BY <1>1, <1>2, <1>4
  <1>6. LowerPath(Front(p)) = LowerPath(q)
    BY <1>4, <1>5 DEF LowerPath
  <1> QED
    BY <1>3, <1>6

\* A sibling gets a place.
LEMMA PlaceStep ==
  ASSUME IInv, PlanInv, PlaceSibling
  PROVE  PlanInv'
  <1>1. PICK node \in group, name \in Names :
           /\ node \in Paths /\ ~Placed(node) /\ ParentOf(node) = parent /\ ~Taken(name)
           /\ group' = group \ {node} /\ used' = used \union {name}
           /\ target' = target \union {[node |-> node, path |-> Append(ParentTarget, name)]}
           /\ IF node = <<>> THEN queue' = queue
              ELSE \E s \in SetToSeqs(Children(node)) : queue' = queue \o s
           /\ UNCHANGED <<collapseVars, parent>>
    BY Placing
  <1> DEFINE new == [node |-> node, path |-> Append(ParentTarget, name)]
  <1>2. /\ PlanTypes /\ QueueInv /\ GroupInv /\ TargetInv /\ TargetsDiffer
        /\ IsFiniteSet(used) /\ IsFiniteSet(logical) /\ pc = "group"
    BY DEF PlanInv, PlaceSibling
  <1>3. /\ ParentTarget \in Seq(Names)
        /\ parent = <<>> => ParentTarget = <<>>
        /\ parent # <<>> => \E t \in target : t.node = parent /\ t.path = ParentTarget
    BY ParentPlace
  <1>4. /\ Front(new.path) = ParentTarget /\ Last(new.path) = name
        /\ new.path \in Seq(Names) /\ new.path # <<>> /\ Len(new.path) = Len(ParentTarget) + 1
        /\ new.node = node /\ new.path = Append(ParentTarget, name)
    BY <1>3, FrontAppend
  <1> HIDE DEF new
  <1>5. target' = target \union {new}
    BY <1>1 DEF new
  <1>6. parent' = parent /\ pc' = pc /\ logical' = logical
    BY <1>1 DEF collapseVars
  <1>7. LogicalDirs \subseteq Paths
    BY DEF IInv, CollapseTypes, LogicalDirs
  <1>8. PICK s \in Seq(Paths) :
          /\ queue' = queue \o s
          /\ \A i \in 1..Len(s) : s[i] # <<>> /\ Front(s[i]) = node /\ node # <<>>
    <2>1. CASE node = <<>>
      <3>1. <<>> \in Seq(Paths) /\ Len(<<>>) = 0
        OBVIOUS
      <3>2. queue' = queue \o <<>>
        BY <1>1, <1>2, <2>1 DEF PlanTypes
      <3>3. \A i \in 1..Len(<<>>) : FALSE
        BY <3>1
      <3> QED
        BY <3>1, <3>2, <3>3
    <2>2. CASE node # <<>>
      <3>1. PICK s \in SetToSeqs(Children(node)) : queue' = queue \o s
        BY <1>1, <2>2
      <3>2. s \in Seq(Paths) /\ \A i \in 1..Len(s) : s[i] # <<>> /\ Front(s[i]) = node
        BY <1>2, <1>7, ChildrenSeq
      <3> QED
        BY <2>2, <3>1, <3>2
    <2> QED
      BY <2>1, <2>2
  <1>9. PlanTypes'
    <2>1. queue' \in Seq(Paths)
      BY <1>2, <1>8 DEF PlanTypes
    <2>2. new \in [node : Paths, path : Seq(Names)]
      BY <1>1, <1>4 DEF new
    <2> QED
      BY <1>1, <1>2, <1>5, <1>6, <2>1, <2>2 DEF PlanTypes
  <1>10. IsFiniteSet(used)'
    BY <1>1, <1>2, FS_AddElement
  <1>11. \A n : Placed(n) => Placed(n)'
    BY <1>5 DEF Placed
  <1>12. \A n : Placed(n)' => Placed(n) \/ n = node
    BY <1>4, <1>5 DEF Placed
  \* The node is neither its own parent, nor was it anyone's before.
  <1>13. node # parent \/ node = <<>>
    <2>1. node # <<>> => Len(Front(node)) = Len(node) - 1 /\ Len(node) \in Nat
      BY <1>1, FrontLast DEF Paths
    <2> QED
      BY <1>1, <2>1 DEF ParentOf
  <1>14. \A t \in target : ParentOf(t.node) # node \/ node = <<>>
    <2> SUFFICES ASSUME NEW t \in target, ParentOf(t.node) = node, node # <<>> PROVE FALSE
      OBVIOUS
    <2>1. t.node \in Paths /\ t.node # <<>> /\ Front(t.node) = node
      BY <1>2 DEF ParentOf, PlanTypes
    <2>2. Len(t.node) > 1
      <3>1. Len(node) \in Nat /\ Len(node) # 0
        BY <1>1 DEF Paths
      <3>2. Len(node) = Len(t.node) - 1 /\ Len(t.node) \in Nat
        BY <2>1, FrontLast DEF Paths
      <3> QED
        BY <3>1, <3>2
    <2>3. Placed(node)
      BY <1>2, <2>1, <2>2 DEF TargetInv, TreeKept, Placed
    <2> QED
      BY <1>1, <2>3
  <1>15. QueueInv'
    <2>1. queue \in Seq(Paths) /\ Len(queue) \in Nat /\ Len(s) \in Nat
      BY <1>2 DEF PlanTypes
    <2>2. /\ Len(queue') = Len(queue) + Len(s)
          /\ \A i \in 1..Len(queue) : queue'[i] = queue[i]
          /\ \A i \in 1..Len(queue') : i > Len(queue) =>
               queue'[i] # <<>> /\ Front(queue'[i]) = node /\ node # <<>>
      <3>1. \A i \in 1..Len(queue') :
              i > Len(queue) => queue'[i] = s[i - Len(queue)] /\ i - Len(queue) \in 1..Len(s)
        BY <1>8, <2>1
      <3> QED
        BY <1>8, <2>1, <3>1
    <2>3. \A i \in 1..Len(queue) : Front(queue[i]) # node
      <3>1. \A i \in 1..Len(queue) : Placed(Front(queue[i]))
        BY <1>2 DEF QueueInv
      <3> QED
        BY <1>1, <3>1
    <2>4. ASSUME NEW i \in 1..Len(queue')
          PROVE  /\ queue'[i] # <<>> /\ Front(queue'[i]) # <<>>
                 /\ \E t \in target' : t.node = Front(queue'[i])
                 /\ Front(queue'[i]) # parent'
                 /\ \A t \in target' : ParentOf(t.node) # Front(queue'[i])
      <3>1. CASE i <= Len(queue)
        <4>1. i \in 1..Len(queue) /\ queue'[i] = queue[i]
          BY <2>1, <2>2, <3>1
        <4>2. /\ queue[i] # <<>> /\ Front(queue[i]) # <<>>
              /\ Placed(Front(queue[i])) /\ Front(queue[i]) # parent
              /\ \A t \in target : ParentOf(t.node) # Front(queue[i])
          BY <1>2, <4>1 DEF QueueInv
        <4>3. \E t \in target' : t.node = Front(queue'[i])
          BY <1>5, <4>1, <4>2 DEF Placed
        <4> QED
          BY <1>1, <1>4, <1>5, <1>6, <4>1, <4>2, <4>3
      <3>2. CASE i > Len(queue)
        <4>1. queue'[i] # <<>> /\ Front(queue'[i]) = node /\ node # <<>>
          BY <2>2, <3>2
        <4>2. \E t \in target' : t.node = Front(queue'[i])
          BY <1>4, <1>5, <4>1
        <4> QED
          BY <1>1, <1>4, <1>5, <1>6, <1>13, <1>14, <4>1, <4>2
      <3> QED
        BY <2>1, <2>2, <3>1, <3>2
    <2>5. ASSUME NEW i \in 1..Len(queue'), NEW j \in 1..Len(queue'), NEW k \in 1..Len(queue'),
                 i < j, j < k, Front(queue'[i]) = Front(queue'[k])
          PROVE  Front(queue'[j]) = Front(queue'[i])
      <3>1. CASE k <= Len(queue)
        <4>1. i \in 1..Len(queue) /\ j \in 1..Len(queue) /\ k \in 1..Len(queue)
          BY <2>1, <2>2, <2>5, <3>1
        <4> QED
          BY <1>2, <2>2, <2>5, <4>1 DEF QueueInv
      <3>2. CASE i > Len(queue)
        <4>1. j > Len(queue)
          BY <2>1, <2>2, <2>5, <3>2
        <4> QED
          BY <2>2, <3>2, <4>1
      <3>3. CASE i <= Len(queue) /\ k > Len(queue)
        <4>1. i \in 1..Len(queue)
          BY <2>1, <2>2, <3>3
        <4> QED
          BY <2>2, <2>3, <2>5, <3>3, <4>1
      <3> QED
        BY <2>1, <2>2, <3>1, <3>2, <3>3
    <2> QED
      BY <2>4, <2>5 DEF QueueInv, Placed
  <1>16. GroupInv'
    <2>1. parent' = <<>> \/ Placed(parent)'
      BY <1>2, <1>6, <1>11 DEF GroupInv, Placed
    <2>2. \A g \in group' : ParentOf(g) = parent' /\ ~Placed(g)'
      BY <1>1, <1>2, <1>6, <1>12 DEF GroupInv
    <2>3. \A t \in target' : ParentOf(t.node) = parent' => Last(t.path) \in used'
      BY <1>1, <1>2, <1>4, <1>5, <1>6 DEF GroupInv
    <2> QED
      BY <2>1, <2>2, <2>3 DEF GroupInv
  <1>17. TargetInv'
    <2>1. \A t \in target : t.node # node
      BY <1>1 DEF Placed
    <2>2. \A x, t \in target' : x.node = t.node => x = t
      BY <1>2, <1>4, <1>5, <2>1 DEF TargetInv
    <2>3. Len(node) <= 1 => Len(new.path) = 1
      <3>1. Len(node) <= 1 => parent = <<>>
        <4>1. node # <<>> => Len(parent) = Len(node) - 1 /\ Len(node) \in Nat \ {0}
          BY <1>1, FrontLast DEF ParentOf, Paths
        <4>2. parent \in Paths /\ (Len(parent) = 0 => parent = <<>>)
          BY <1>2 DEF PlanTypes, Paths
        <4> QED
          BY <1>1, <4>1, <4>2 DEF ParentOf, Paths
      <3> QED
        BY <1>3, <1>4, <3>1
    <2>4. \A t \in target' : t.path # <<>> /\ (Len(t.node) <= 1 => Len(t.path) = 1)
      BY <1>2, <1>4, <1>5, <2>3 DEF TargetInv
    <2>5. Len(node) > 1 => \E t \in target : t.node = Front(node) /\ t.path = Front(new.path)
      <3> SUFFICES ASSUME Len(node) > 1
                   PROVE  \E t \in target : t.node = Front(node) /\ t.path = Front(new.path)
        OBVIOUS
      <3>1. node # <<>>
        BY DEF Paths
      <3>2. parent = Front(node) /\ Len(parent) = Len(node) - 1
        BY <1>1, <3>1, FrontLast DEF ParentOf, Paths
      <3>3. parent # <<>>
        BY <1>1, <3>2 DEF Paths
      <3> QED
        BY <1>3, <1>4, <3>2, <3>3
    <2>6. TreeKept'
      BY <1>2, <1>4, <1>5, <2>5 DEF TargetInv, TreeKept
    <2> QED
      BY <2>2, <2>4, <2>6 DEF TargetInv
  <1>18. \A t \in target : LowerTarget(t) # LowerTarget(new)
    <2> SUFFICES ASSUME NEW t \in target, LowerPath(t.path) = LowerPath(new.path) PROVE FALSE
      BY DEF LowerTarget
    <2>1. t.path \in Seq(Names) /\ t.path # <<>> /\ t.node \in Paths
      BY <1>2 DEF PlanTypes, TargetInv
    <2>2. /\ LowerPath(Front(t.path)) = LowerPath(ParentTarget)
          /\ Lower(Last(t.path)) = Lower(name)
      BY <1>3, <1>4, <2>1, LowerAppend
    <2>3. ParentOf(t.node) # parent
      BY <1>1, <1>2, <2>2 DEF GroupInv, Taken
    <2>4. Len(ParentTarget) = Len(Front(t.path))
      BY <1>3, <2>1, <2>2, FrontLast, LowerLen
    <2>5. Len(t.node) > 1
      <3>1. CASE parent = <<>>
        <4>1. t.node # <<>> /\ Front(t.node) # <<>>
          BY <2>3, <3>1 DEF ParentOf
        <4>2. Len(Front(t.node)) = Len(t.node) - 1 /\ Front(t.node) \in Paths /\ Len(t.node) \in Nat
          BY <2>1, <4>1, FrontLast DEF Paths
        <4>3. Len(Front(t.node)) \in Nat \ {0}
          BY <4>1, <4>2, FrontLast DEF Paths
        <4> HIDE DEF Front
        <4>4. \A m, n \in Nat : m # 0 /\ m = n - 1 => n > 1
          OBVIOUS
        <4> QED
          BY <4>2, <4>3, <4>4
      <3>2. CASE parent # <<>>
        <4>1. ParentTarget # <<>>
          BY <1>2, <1>3, <3>2 DEF TargetInv
        <4>2. Len(t.path) # 1
          BY <1>3, <2>1, <2>4, <4>1, FrontLast
        <4>3. Len(t.node) \in Nat /\ (Len(t.node) <= 1 => Len(t.path) = 1)
          BY <1>2, <2>1 DEF TargetInv, Paths
        <4>4. ~(Len(t.node) <= 1)
          BY <4>2, <4>3
        <4> QED
          BY <4>3, <4>4
      <3> QED
        BY <3>1, <3>2
    <2>6. PICK x \in target : x.node = Front(t.node) /\ x.path = Front(t.path)
      BY <1>2, <2>5 DEF TargetInv, TreeKept
    <2>7. parent # <<>>
      <3>1. x.path # <<>>
        BY <1>2, <2>6 DEF TargetInv
      <3>2. Len(Front(t.path)) # 0
        BY <2>1, <2>6, <3>1, FrontLast
      <3> QED
        BY <1>3, <2>4, <3>2
    <2>8. PICK y \in target : y.node = parent /\ y.path = ParentTarget
      BY <1>3, <2>7
    <2>9. t.node # <<>>
      BY <2>5 DEF Paths
    <2>10. x.node # y.node
      BY <2>3, <2>6, <2>8, <2>9 DEF ParentOf
    <2> QED
      BY <1>2, <2>2, <2>6, <2>8, <2>10 DEF TargetsDiffer, LowerTarget
  <1>19. TargetsDiffer'
    BY <1>2, <1>4, <1>5, <1>18 DEF TargetsDiffer, LowerTarget
  <1> QED
    BY <1>2, <1>6, <1>9, <1>10, <1>15, <1>16, <1>17, <1>19 DEF PlanInv, NotBegun

\* The next group starts.
LEMMA GroupStep ==
  ASSUME PlanInv, NextGroup
  PROVE  PlanInv'
  <1>1. PICK n \in 1..Len(queue) :
          /\ \A i \in 1..n : Front(queue[i]) = Front(queue[1])
          /\ n < Len(queue) => Front(queue[n + 1]) # Front(queue[1])
          /\ group' = {queue[i] : i \in 1..n}
          /\ queue' = SubSeq(queue, n + 1, Len(queue))
    BY DEF NextGroup
  <1>2. /\ parent' = Front(queue[1]) /\ used' = {} /\ target' = target
        /\ pc = "group" /\ pc' = pc /\ logical' = logical
    BY DEF NextGroup, collapseVars
  <1>3. /\ PlanTypes /\ QueueInv /\ GroupInv /\ TargetInv /\ TargetsDiffer /\ IsFiniteSet(logical)
    BY DEF PlanInv
  <1>4. queue \in Seq(Paths) /\ Len(queue) \in Nat /\ n \in Nat /\ 1 \in 1..Len(queue)
    BY <1>1, <1>3 DEF PlanTypes
  <1>5. /\ queue' \in Seq(Paths) /\ Len(queue') = Len(queue) - n
        /\ \A i \in 1..Len(queue') : n + i \in 1..Len(queue) /\ queue'[i] = queue[n + i]
    BY <1>1, <1>4
  <1>6. /\ \A i \in 1..Len(queue) :
             /\ queue[i] # <<>> /\ Front(queue[i]) # <<>> /\ Placed(Front(queue[i]))
             /\ \A t \in target : ParentOf(t.node) # Front(queue[i])
        /\ \A i, j, k \in 1..Len(queue) :
             i < j /\ j < k /\ Front(queue[i]) = Front(queue[k])
               => Front(queue[j]) = Front(queue[i])
    BY <1>3 DEF QueueInv
  \* The first group is complete.
  <1>7. \A i \in 1..Len(queue') : Front(queue'[i]) # parent'
    <2> SUFFICES ASSUME NEW i \in 1..Len(queue'), Front(queue[n + i]) = Front(queue[1])
                 PROVE  FALSE
      BY <1>2, <1>5
    <2>1. n + i \in 1..Len(queue) /\ n < Len(queue)
      BY <1>1, <1>4, <1>5
    <2>2. Front(queue[n + 1]) # Front(queue[1])
      BY <1>1, <2>1
    <2>3. i # 1
      BY <2>2
    <2>4. n + 1 \in 1..Len(queue) /\ 1 < n + 1
      BY <1>1, <1>4, <2>1
    <2>5. n + 1 < n + i
      BY <1>4, <1>5, <2>3
    <2> QED
      BY <1>4, <1>6, <2>1, <2>2, <2>4, <2>5
  <1>8. PlanTypes'
    <2>1. group' \subseteq Paths
      BY <1>1, <1>4
    <2>2. queue[1] \in Paths /\ queue[1] # <<>>
      BY <1>4, <1>6
    <2>3. parent' \in Paths
      BY <1>2, <2>2, FrontLast DEF Paths
    <2> QED
      BY <1>2, <1>3, <1>5, <2>1, <2>3 DEF PlanTypes
  <1>9. IsFiniteSet(used)'
    BY <1>2, FS_EmptySet
  <1>10. QueueInv'
    <2>1. ASSUME NEW i \in 1..Len(queue')
          PROVE  /\ queue'[i] # <<>> /\ Front(queue'[i]) # <<>>
                 /\ \E t \in target' : t.node = Front(queue'[i])
                 /\ Front(queue'[i]) # parent'
                 /\ \A t \in target' : ParentOf(t.node) # Front(queue'[i])
      <3>1. Front(queue'[i]) # parent'
        BY <1>7
      <3> QED
        BY <1>2, <1>5, <1>6, <3>1 DEF Placed
    <2>2. ASSUME NEW i \in 1..Len(queue'), NEW j \in 1..Len(queue'), NEW k \in 1..Len(queue'),
                 i < j, j < k, Front(queue'[i]) = Front(queue'[k])
          PROVE  Front(queue'[j]) = Front(queue'[i])
      <3>1. n + i < n + j /\ n + j < n + k
        BY <1>4, <1>5, <2>2
      <3>2. /\ n + i \in 1..Len(queue) /\ queue'[i] = queue[n + i]
            /\ n + j \in 1..Len(queue) /\ queue'[j] = queue[n + j]
            /\ n + k \in 1..Len(queue) /\ queue'[k] = queue[n + k]
        BY <1>5
      <3>3. Front(queue[n + i]) = Front(queue[n + k])
        BY <2>2, <3>2
      <3>4. Front(queue[n + j]) = Front(queue[n + i])
        BY <1>6, <3>1, <3>2, <3>3
      <3> QED
        BY <3>2, <3>4
    <2> QED
      BY <2>1, <2>2 DEF QueueInv, Placed
  <1>11. GroupInv'
    <2>1. Placed(parent)'
      BY <1>2, <1>4, <1>6 DEF Placed
    <2>2. \A g \in group' : ParentOf(g) = parent' /\ ~Placed(g)'
      <3> SUFFICES ASSUME NEW i \in 1..n
                   PROVE  ParentOf(queue[i]) = parent' /\ \A t \in target' : t.node # queue[i]
        BY <1>1 DEF Placed
      <3>1. i \in 1..Len(queue) /\ Front(queue[i]) = parent'
        BY <1>1, <1>2, <1>4
      <3>2. ParentOf(queue[i]) = Front(queue[i])
        BY <1>6, <3>1 DEF ParentOf
      <3> QED
        BY <1>2, <1>6, <3>1, <3>2
    <2>3. \A t \in target' : ParentOf(t.node) # parent'
      BY <1>2, <1>4, <1>6
    <2> QED
      BY <2>1, <2>2, <2>3 DEF GroupInv
  <1>12. TargetInv' /\ TargetsDiffer'
    BY <1>2, <1>3 DEF TargetInv, TreeKept, TargetsDiffer
  <1> QED
    BY <1>2, <1>3, <1>8, <1>9, <1>10, <1>11, <1>12 DEF PlanInv, NotBegun

\* The first group starts, with nothing placed.
LEMMA StartStep ==
  ASSUME IInv, PlanInv, StartPlan
  PROVE  PlanInv'
  <1>1. /\ pc = "dirs" /\ pc' = "group" /\ parent' = <<>> /\ used' = {}
        /\ group' = Children(<<>>) \union (LogicalDirs \cap {<<>>})
        /\ UNCHANGED <<logical, queue, target>>
    BY DEF StartPlan
  <1>2. queue = <<>> /\ target = {} /\ PlanTypes /\ IsFiniteSet(logical)
    BY <1>1 DEF PlanInv, NotBegun
  <1>3. Children(<<>>) \subseteq Paths
    <2>1. LogicalDirs \subseteq Paths
      BY DEF IInv, CollapseTypes, LogicalDirs
    <2> QED
      BY <1>2, <2>1, FiniteTree DEF Children
  <1>4. \A g \in group' : ParentOf(g) = <<>>
    BY <1>1 DEF Children, ParentOf
  <1>5. <<>> \in Paths
    BY DEF Paths
  <1>6. PlanTypes'
    BY <1>1, <1>2, <1>3, <1>5 DEF PlanTypes
  <1>7. IsFiniteSet(used)' /\ IsFiniteSet(logical)'
    BY <1>1, <1>2, FS_EmptySet
  <1>8. QueueInv' /\ GroupInv' /\ TargetInv' /\ TargetsDiffer'
    BY <1>1, <1>2, <1>4 DEF QueueInv, GroupInv, TargetInv, TreeKept, TargetsDiffer, Placed
  <1> QED
    BY <1>1, <1>6, <1>7, <1>8 DEF PlanInv, NotBegun

\* Steps that leave the plan alone.
LEMMA QuietStep ==
  ASSUME PlanInv, UNCHANGED planVars, IsFiniteSet(logical)',
         pc' \in {"dirs", "segments"} => pc \in {"dirs", "segments"}
  PROVE  PlanInv'
  BY DEF planVars, PlanInv, PlanTypes, NotBegun, QueueInv, GroupInv, TargetInv, TreeKept,
     TargetsDiffer, Placed

LEMMA PlanStep ==
  ASSUME IInv, PlanInv, Next \/ UNCHANGED vars
  PROVE  PlanInv'
  <1>1. IsFiniteSet(logical)
    BY DEF PlanInv
  <1>2. CASE DirDone /\ UNCHANGED planVars
    <2>1. /\ logical' = logical \union {[dir |-> dir, path |-> kept]}
          /\ pc = "segments"
      BY <1>2 DEF DirDone
    <2>2. IsFiniteSet(logical)'
      BY <1>1, <2>1, FS_AddElement
    <2> QED
      BY <1>2, <2>1, <2>2, QuietStep
  <1>3. CASE (NextDir \/ DropSegment \/ KeepSegment) /\ UNCHANGED planVars
    <2>1. logical' = logical /\ pc \in {"dirs", "segments"}
      BY <1>3 DEF NextDir, DropSegment, KeepSegment
    <2>2. IsFiniteSet(logical)'
      BY <1>1, <2>1
    <2> QED
      BY <1>3, <2>1, <2>2, QuietStep
  <1>4. CASE PlanFails \/ PlanDone \/ UNCHANGED vars
    <2>1. logical' = logical /\ UNCHANGED planVars
          /\ (pc' \in {"dirs", "segments"} => pc \in {"dirs", "segments"})
      BY <1>4 DEF PlanFails, PlanDone, vars, collapseVars, planVars
    <2>2. IsFiniteSet(logical)'
      BY <1>1, <2>1
    <2> QED
      BY <2>1, <2>2, QuietStep
  <1> QED
    BY <1>2, <1>3, <1>4, StartStep, PlaceStep, GroupStep DEF Next, CollapseStep

LEMMA PlanHolds == Spec => []PlanInv
  <1>1. Init => PlanInv
    <2> SUFFICES ASSUME Init PROVE PlanInv
      OBVIOUS
    <2>1. parent = <<>> /\ group = {} /\ used = {} /\ queue = <<>> /\ target = {} /\ logical = {}
      BY DEF Init, CollapseInit
    <2>2. IsFiniteSet(used) /\ IsFiniteSet(logical)
      BY <2>1, FS_EmptySet
    <2>3. PlanTypes
      BY <2>1 DEF PlanTypes, Paths
    <2> QED
      BY <2>1, <2>2, <2>3 DEF PlanInv, NotBegun, QueueInv, GroupInv, TargetInv, TreeKept, TargetsDiffer
  <1>2. IInv /\ PlanInv /\ [Next]_vars => PlanInv'
    BY PlanStep
  <1> QED
    BY Invariance, <1>1, <1>2, PTL DEF Spec

\* Two folders never get the same place, whatever their names, their hashes and
\* the order of the siblings.
THEOREM NoSharedTarget == Spec => []TargetsDiffer
  <1>1. PlanInv => TargetsDiffer
    BY DEF PlanInv
  <1> QED
    BY PlanHolds, <1>1, PTL

\* A folder is placed in the folder of its parent, which was placed before, however
\* the queue mixes the levels.
THEOREM ShapeKept == Spec => []TreeKept
  <1>1. PlanInv => TreeKept
    BY DEF PlanInv, TargetInv
  <1> QED
    BY PlanHolds, <1>1, PTL

-----------------------------------------------------------------------------
(* Every directory is planned *)

Queued(node) == \E i \in 1..Len(queue) : queue[i] = node

\* Where a node of the tree is: a node below the top whose parent has no place yet
\* is still to be found.
Underway(node) ==
  Placed(node) \/ node \in group \/ Queued(node) \/ (Len(node) > 1 /\ ~Placed(Front(node)))

CoverInv ==
  /\ pc \in {"group", "done"} =>
       /\ \A n \in Nodes : Underway(n)
       /\ <<>> \in LogicalDirs => Placed(<<>>) \/ <<>> \in group
  /\ pc = "done" => group = {} /\ queue = <<>>

\* The tree holds every directory but the root, and with a node its parent.
LEMMA TreeClosed ==
  ASSUME LogicalDirs \subseteq Paths
  PROVE  /\ Nodes \subseteq Paths /\ \A n \in Nodes : Len(n) \in Nat \ {0}
         /\ \A p \in LogicalDirs : p # <<>> => p \in Nodes
         /\ \A n \in Nodes : Len(n) > 1 => Front(n) \in Nodes /\ Len(Front(n)) = Len(n) - 1
  <1>1. ASSUME NEW p \in LogicalDirs, NEW k \in 1..Len(p)
        PROVE  /\ SubSeq(p, 1, k) \in Paths /\ SubSeq(p, 1, k) \in Nodes
               /\ Len(SubSeq(p, 1, k)) = k /\ Len(SubSeq(p, 1, k)) \in Nat \ {0}
               /\ k > 1 => Front(SubSeq(p, 1, k)) = SubSeq(p, 1, k - 1)
    <2>1. p \in Seq(Segment) /\ Len(p) \in Nat
      BY DEF Paths
    <2>2. SubSeq(p, 1, k) \in Nodes
      BY DEF Nodes
    <2>3. SubSeq(p, 1, k) \in Paths /\ Len(SubSeq(p, 1, k)) = k
      BY <2>1 DEF Paths
    <2>4. k > 1 => Front(SubSeq(p, 1, k)) = SubSeq(p, 1, k - 1)
      BY <2>1, <2>3 DEF Front, Paths
    <2> QED
      BY <2>2, <2>3, <2>4
  <1>2. ASSUME NEW n \in Nodes PROVE \E p \in LogicalDirs : \E k \in 1..Len(p) : n = SubSeq(p, 1, k)
    BY DEF Nodes
  <1>3. ASSUME NEW p \in LogicalDirs, p # <<>> PROVE p \in Nodes
    <2>1. p = SubSeq(p, 1, Len(p)) /\ Len(p) \in 1..Len(p)
      BY <1>3 DEF Paths
    <2> QED
      BY <1>1, <2>1
  <1>4. ASSUME NEW n \in Nodes, Len(n) > 1 PROVE Front(n) \in Nodes /\ Len(Front(n)) = Len(n) - 1
    <2>1. PICK p \in LogicalDirs : \E k \in 1..Len(p) : n = SubSeq(p, 1, k)
      BY <1>2
    <2>2. PICK k \in 1..Len(p) : n = SubSeq(p, 1, k)
      BY <2>1
    <2>3. Len(n) = k /\ k > 1 /\ Front(n) = SubSeq(p, 1, k - 1) /\ k - 1 \in 1..Len(p)
      BY <1>1, <1>4, <2>2
    <2> QED
      BY <1>1, <2>3
  <1>5. ASSUME NEW n \in Nodes PROVE n \in Paths /\ Len(n) \in Nat \ {0}
    <2>1. PICK p \in LogicalDirs : \E k \in 1..Len(p) : n = SubSeq(p, 1, k)
      BY <1>2
    <2> QED
      BY <1>1, <2>1
  <1> QED
    BY <1>3, <1>4, <1>5

\* A placed node sends its children to the queue.
LEMMA PlaceCovers ==
  ASSUME IInv, PlanInv, CoverInv, PlaceSibling
  PROVE  CoverInv'
  <1>1. PICK node \in group, name \in Names :
           /\ node \in Paths /\ ~Placed(node) /\ ParentOf(node) = parent /\ ~Taken(name)
           /\ group' = group \ {node} /\ used' = used \union {name}
           /\ target' = target \union {[node |-> node, path |-> Append(ParentTarget, name)]}
           /\ IF node = <<>> THEN queue' = queue
              ELSE \E s \in SetToSeqs(Children(node)) : queue' = queue \o s
           /\ UNCHANGED <<collapseVars, parent>>
    BY Placing
  <1>2. pc = "group" /\ pc' = pc /\ LogicalDirs' = LogicalDirs /\ Nodes' = Nodes
    BY <1>1 DEF PlaceSibling, collapseVars, LogicalDirs, Nodes
  <1>3. LogicalDirs \subseteq Paths
    BY DEF IInv, CollapseTypes, LogicalDirs
  <1>4. queue \in Seq(Paths) /\ Len(queue) \in Nat /\ IsFiniteSet(logical)
    BY DEF PlanInv, PlanTypes
  <1>5. \A n : Placed(n)' <=> Placed(n) \/ n = node
    <2> DEFINE new == [node |-> node, path |-> Append(ParentTarget, name)]
    <2>1. new.node = node
      OBVIOUS
    <2> HIDE DEF new
    <2>2. target' = target \union {new}
      BY <1>1 DEF new
    <2> QED
      BY <2>1, <2>2 DEF Placed
  <1>6. \A n : Queued(n) => Queued(n)'
    <2>1. CASE node = <<>>
      BY <1>1, <2>1 DEF Queued
    <2>2. CASE node # <<>>
      <3>1. PICK s \in SetToSeqs(Children(node)) : queue' = queue \o s
        BY <1>1, <2>2
      <3>2. s \in Seq(Paths)
        BY <1>3, <1>4, ChildrenSeq
      <3>3. \A i \in 1..Len(queue) : i \in 1..Len(queue') /\ queue'[i] = queue[i]
        BY <1>4, <3>1, <3>2
      <3> QED
        BY <3>3 DEF Queued
    <2> QED
      BY <2>1, <2>2
  <1>7. ASSUME NEW n \in Nodes, Len(n) > 1, Front(n) = node
        PROVE  Queued(n)'
    <2>1. node # <<>> /\ n \in Children(node)
      <3>1. Len(node) = Len(n) - 1 /\ Len(n) \in Nat
        BY <1>3, <1>7, TreeClosed
      <3>2. n # <<>> /\ node # <<>>
        BY <1>7, <3>1
      <3> QED
        BY <1>7, <3>2 DEF Children
    <2>2. PICK s \in SetToSeqs(Children(node)) : queue' = queue \o s
      BY <1>1, <2>1
    <2>3. s \in Seq(Paths) /\ \E i \in 1..Len(s) : s[i] = n
      BY <1>3, <1>4, <2>1, ChildrenSeq
    <2>4. PICK i \in 1..Len(s) : s[i] = n
      BY <2>3
    <2>5. Len(queue) + i \in 1..Len(queue') /\ queue'[Len(queue) + i] = n
      BY <1>4, <2>2, <2>3, <2>4
    <2> QED
      BY <2>5 DEF Queued
  <1>8. ASSUME NEW n \in Nodes PROVE Underway(n)'
    <2>1. Underway(n)
      BY <1>2 DEF CoverInv
    <2>2. CASE Placed(n) \/ Queued(n)
      BY <1>5, <1>6, <2>2 DEF Underway
    <2>3. CASE n \in group
      BY <1>1, <1>5, <2>3 DEF Underway
    <2>4. CASE Len(n) > 1 /\ ~Placed(Front(n))
      BY <1>5, <1>7, <2>4 DEF Underway
    <2> QED
      BY <2>1, <2>2, <2>3, <2>4 DEF Underway
  <1>9. <<>> \in LogicalDirs => Placed(<<>>)' \/ <<>> \in group'
    BY <1>1, <1>2, <1>5 DEF CoverInv
  <1> QED
    BY <1>2, <1>8, <1>9 DEF CoverInv

\* The group takes its nodes from the queue.
LEMMA GroupCovers ==
  ASSUME PlanInv, CoverInv, NextGroup
  PROVE  CoverInv'
  <1>1. PICK n \in 1..Len(queue) :
          /\ group' = {queue[i] : i \in 1..n}
          /\ queue' = SubSeq(queue, n + 1, Len(queue))
    BY DEF NextGroup
  <1>2. /\ pc = "group" /\ pc' = pc /\ group = {} /\ target' = target
        /\ LogicalDirs' = LogicalDirs /\ Nodes' = Nodes
    BY DEF NextGroup, collapseVars, LogicalDirs, Nodes
  <1>3. queue \in Seq(Paths) /\ Len(queue) \in Nat /\ n \in Nat
    BY <1>1 DEF PlanInv, PlanTypes
  <1>4. ASSUME NEW m, Queued(m) PROVE m \in group' \/ Queued(m)'
    <2>1. PICK i \in 1..Len(queue) : queue[i] = m
      BY <1>4 DEF Queued
    <2>2. CASE i <= n
      BY <1>1, <1>3, <2>1, <2>2
    <2>3. CASE i > n
      <3>1. i - n \in 1..Len(queue') /\ queue'[i - n] = m
        BY <1>1, <1>3, <2>1, <2>3
      <3> QED
        BY <3>1 DEF Queued
    <2> QED
      BY <1>3, <2>2, <2>3
  <1>5. \A m : Placed(m)' <=> Placed(m)
    BY <1>2 DEF Placed
  <1>6. ASSUME NEW m \in Nodes PROVE Underway(m)'
    <2>1. Underway(m) /\ m \notin group
      BY <1>2 DEF CoverInv
    <2> QED
      BY <1>4, <1>5, <2>1 DEF Underway
  <1> QED
    BY <1>2, <1>5, <1>6 DEF CoverInv

LEMMA CoverStep ==
  ASSUME IInv, PlanInv, CoverInv, Next \/ UNCHANGED vars
  PROVE  CoverInv'
  <1>1. LogicalDirs \subseteq Paths
    BY DEF IInv, CollapseTypes, LogicalDirs
  <1>2. CASE CollapseStep
    <2>1. pc' \in {"dirs", "segments"}
      BY <1>2 DEF CollapseStep, NextDir, DropSegment, KeepSegment, DirDone
    <2> QED
      BY <2>1 DEF CoverInv
  <1>3. CASE PlanFails
    BY <1>3 DEF PlanFails, CoverInv
  <1>4. CASE StartPlan
    <2>1. /\ target' = {} /\ pc' = "group"
          /\ group' = Children(<<>>) \union (LogicalDirs \cap {<<>>})
          /\ LogicalDirs' = LogicalDirs /\ Nodes' = Nodes
      BY <1>4 DEF StartPlan, PlanInv, NotBegun, LogicalDirs, Nodes
    <2>2. ASSUME NEW n \in Nodes PROVE n \in group' \/ Len(n) > 1
      <3>1. n \in Paths /\ Len(n) \in Nat \ {0}
        BY <1>1, TreeClosed
      <3>2. CASE Len(n) = 1
        <4>1. n # <<>>
          BY <3>2
        <4>2. Front(n) \in Seq(Segment) /\ Len(Front(n)) = 0
          BY <3>1, <3>2, <4>1, FrontLast DEF Paths
        <4>3. Front(n) = <<>>
          BY <4>2
        <4> QED
          BY <2>1, <4>1, <4>3 DEF Children
      <3>3. Len(n) = 1 \/ Len(n) > 1
        <4>1. \A m \in Nat \ {0} : m = 1 \/ m > 1
          OBVIOUS
        <4> QED
          BY <3>1, <4>1
      <3> QED
        BY <3>2, <3>3
    <2>3. \A n : ~Placed(n)'
      BY <2>1 DEF Placed
    <2> QED
      BY <2>1, <2>2, <2>3 DEF CoverInv, Underway
  <1>5. CASE PlanDone
    <2>1. /\ pc = "group" /\ pc' = "done" /\ group = {} /\ queue = <<>>
          /\ UNCHANGED <<logical, group, queue, target>>
      BY <1>5 DEF PlanDone, planVars
    <2> QED
      BY <2>1 DEF CoverInv, Underway, Placed, Queued, Nodes, LogicalDirs
  <1>6. CASE UNCHANGED vars
    BY <1>6 DEF vars, collapseVars, planVars, CoverInv, Underway, Placed, Queued, Nodes, LogicalDirs
  <1> QED
    BY <1>2, <1>3, <1>4, <1>5, <1>6, PlaceCovers, GroupCovers DEF Next

\* When the queue and the group are empty, a node without a place would have a parent
\* without one: the shortest such node cannot be.
LEMMA CoverDecides ==
  ASSUME IInv, CoverInv, pc = "done"
  PROVE  \A n \in Nodes : Placed(n)
  <1>1. LogicalDirs \subseteq Paths
    BY DEF IInv, CollapseTypes, LogicalDirs
  <1>2. \A n \in Nodes : Placed(n) \/ (Len(n) > 1 /\ ~Placed(Front(n)))
    <2>1. group = {} /\ queue = <<>> /\ Len(queue) = 0
      BY DEF CoverInv
    <2> QED
      BY <2>1 DEF CoverInv, Underway, Queued
  <1> DEFINE missing == {n \in Nodes : ~Placed(n)}
             lengths == {Len(n) : n \in missing}
  <1> SUFFICES ASSUME missing # {} PROVE FALSE
    OBVIOUS
  <1>3. lengths # {} /\ lengths \in SUBSET Nat
    BY <1>1, TreeClosed
  <1> HIDE DEF lengths
  <1>4. PICK k \in lengths : \A m \in lengths : k <= m
    BY <1>3, Least
  <1>5. PICK n \in missing : k = Len(n)
    BY <1>4 DEF lengths
  <1>6. Len(n) > 1 /\ ~Placed(Front(n))
    BY <1>2, <1>5
  <1>7. Front(n) \in missing /\ Len(Front(n)) = Len(n) - 1 /\ Len(n) \in Nat
    BY <1>1, <1>5, <1>6, TreeClosed
  <1>8. Len(Front(n)) \in lengths
    BY <1>7 DEF lengths
  <1> QED
    BY <1>4, <1>5, <1>7, <1>8

\* Every logical folder has a place when the plan is done.
THEOREM NoFolderUnplanned == Spec => []EveryDirPlanned
  <1>1. Init => CoverInv
    BY DEF Init, CollapseInit, CoverInv
  <1>2. IInv /\ PlanInv /\ CoverInv /\ [Next]_vars => CoverInv'
    BY CoverStep
  <1>3. IInv /\ CoverInv => EveryDirPlanned
    <2> SUFFICES ASSUME IInv, CoverInv, pc = "done", NEW l \in logical
                 PROVE  Placed(l.path)
      BY DEF EveryDirPlanned, Placed
    <2>1. l.path \in LogicalDirs /\ LogicalDirs \subseteq Paths
      BY DEF IInv, CollapseTypes, LogicalDirs
    <2>2. CASE l.path = <<>>
      BY <2>1, <2>2 DEF CoverInv
    <2>3. CASE l.path # <<>>
      BY <2>1, <2>3, TreeClosed, CoverDecides
    <2> QED
      BY <2>2, <2>3
  <1> QED
    BY Invariance, PlanHolds, <1>1, <1>2, <1>3, PTL DEF Spec
=============================================================================
