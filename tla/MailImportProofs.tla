-------------------------- MODULE MailImportProofs --------------------------
(***************************************************************************)
(* Theorems of MailImport for every mail, whatever its text and whatever   *)
(* the converter delivers.                                                 *)
(*                                                                         *)
(* First what needs nothing of the text functions: no loss counts as       *)
(* imported, and no message carries an absurd date that is not that of     *)
(* its file.  Then what the second attempt reads: lines and their order,   *)
(* the rewritten header, which is clean, has the words of the old one and  *)
(* says the same fields, and the body, which is kept.  Last the calendar,  *)
(* and whose date a message carries.                                       *)
(***************************************************************************)
EXTENDS MailImport, FiniteSetTheorems, TLAPS

Headers == Inspect(file.text)

DeclaresMixed ==
  \E v \in FirstValue(Headers, "Content-Type") : v # <<>> /\ v[1] = "multipart/mixed"

\* The metadata of the row, once they are read, are those of the mail.
MetaInv ==
  /\ file \in Files
  /\ stage # "read" =>
       /\ meta.subject <=> FirstValue(Headers, "Subject") # {}
       /\ meta.mixed <=> DeclaresMixed
       /\ \/ (meta.date = file.mtime) /\ meta.fromFile
          \/ (meta.date # NoDate) /\ InBounds(meta.date, Now)

Converted == {"state", "dates", "save", "verify", "imported"}

\* The message at work has the parts the mail has at most.
PartsInv == stage \in Converted => msg.parts \in Nat

\* The date that counts for the mail: of its submission or of its delivery.
OwnDate == IF meta.sent THEN msg.submit ELSE msg.delivery

DateInv ==
  stage \in {"save", "verify", "imported"} =>
    \/ (OwnDate # NoDate) /\ InBounds(OwnDate, Now)
    \/ (OwnDate = file.mtime) /\ meta.fromFile

LossInv == stage = "imported" => ~LossFound

ImportInv == MetaInv /\ PartsInv /\ DateInv /\ LossInv

\* A date that is read is one, and in bounds.
LEMMA DatesAreBounded ==
  ASSUME NEW headers, NEW sent, NEW d \in FallbackDates(headers, sent)
  PROVE  d # NoDate /\ InBounds(d, Now)
<1>1. PICK text : d \in ParseBounded(text, Now)
  BY DEF FallbackDates, HeaderDate
<1>2. d \in ParseDate(text) /\ InBounds(d, Now)
  BY <1>1 DEF ParseBounded
<1>3. PICK year, month, day, second, offset : d = UnixTime(year, month, day, second, offset)
  BY <1>2 DEF ParseDate
<1> QED
  BY <1>2, <1>3 DEF UnixTime, NoDate

\* Reading the header fixes the metadata.
LEMMA ReadKeeps == ASSUME ImportInv, ReadHeader PROVE ImportInv'
<1> DEFINE dates == FallbackDates(Headers, IsSent(Headers))
<1>1. /\ stage' = "convert" /\ file' = file
      /\ meta' = [sent     |-> IsSent(Headers),
                  draft    |-> IsDraft(Headers),
                  subject  |-> FirstValue(Headers, "Subject") # {},
                  mixed    |-> DeclaresMixed,
                  date     |-> IF dates = {} THEN file.mtime ELSE CHOOSE d \in dates : TRUE,
                  fromFile |-> dates = {}]
  BY DEF ReadHeader, Headers, DeclaresMixed
<1>2. /\ meta'.subject = (FirstValue(Headers, "Subject") # {})
      /\ meta'.mixed = DeclaresMixed
  BY <1>1, Zenon
<1>3. CASE dates = {}
  <2>1. meta'.date = file.mtime
    BY <1>1, <1>3
  <2>2. meta'.fromFile = (dates = {})
    BY <1>1, Zenon
  <2> QED
    BY <1>1, <1>2, <1>3, <2>1, <2>2 DEF ImportInv, MetaInv, PartsInv, DateInv, LossInv, Converted,
       Headers, DeclaresMixed
<1>4. CASE dates # {}
  <2>1. meta'.date \in dates
    BY <1>1, <1>4
  <2>2. meta'.date # NoDate /\ InBounds(meta'.date, Now)
    BY <2>1, DatesAreBounded
  <2> QED
    BY <1>1, <1>2, <2>2 DEF ImportInv, MetaInv, PartsInv, DateInv, LossInv, Converted,
       Headers, DeclaresMixed, InBounds
<1> QED
  BY <1>3, <1>4

\* A failing attempt leaves the mail and what is known of it alone.
LEMMA FailKeeps == ASSUME ImportInv, FailAttempt, stage # "read" PROVE ImportInv'
<1>1. /\ stage' \in {"convert", "preserved"} /\ file' = file /\ meta' = meta
  BY DEF FailAttempt, Retry, GiveUp
<1> QED
  BY <1>1 DEF ImportInv, MetaInv, PartsInv, DateInv, LossInv, Converted, Headers, DeclaresMixed

\* Every other step of an attempt.
LEMMA AttemptKeeps ==
  ASSUME ImportInv,
         \/ \E flags \in SUBSET {"UNSENT"},
               delivery, submit \in ConverterDates \cup {NoDate},
               keepsSubject \in BOOLEAN, parts \in 0..file.parts :
               Convert(flags, delivery, submit, keepsSubject, parts)
         \/ ApplyMessageState \/ ApplyDatePolicy \/ Save \/ Accept
  PROVE  ImportInv'
<1>1. /\ file' = file /\ meta' = meta /\ stage # "read" /\ stage' # "read"
  BY DEF Convert, ApplyMessageState, ApplyDatePolicy, Save, Accept
<1>2. MetaInv'
  BY <1>1 DEF ImportInv, MetaInv, Headers, DeclaresMixed
<1>3. ASSUME NEW flags \in SUBSET {"UNSENT"},
             NEW delivery \in ConverterDates \cup {NoDate}, NEW submit \in ConverterDates \cup {NoDate},
             NEW keepsSubject \in BOOLEAN, NEW parts \in 0..file.parts,
             Convert(flags, delivery, submit, keepsSubject, parts)
      PROVE  ImportInv'
  <2>1. stage' = "state" /\ msg'.parts = parts
    BY <1>3 DEF Convert
  <2>2. file.parts \in Nat
    BY FilesAssumption DEF ImportInv, MetaInv, FileShape
  <2> QED
    BY <1>2, <2>1, <2>2 DEF ImportInv, PartsInv, DateInv, LossInv
<1>4. CASE ApplyMessageState
  <2>1. stage = "state" /\ stage' = "dates" /\ msg'.parts = msg.parts
    BY <1>4 DEF ApplyMessageState
  <2> QED
    BY <1>2, <2>1 DEF ImportInv, PartsInv, DateInv, LossInv, Converted
<1>5. CASE ApplyDatePolicy
  <2> DEFINE replace == IF meta.sent THEN ~Valid(msg.submit) ELSE ~Valid(msg.delivery)
  <2>1. stage = "dates" /\ stage' = "save" /\ msg'.parts = msg.parts
    BY <1>5 DEF ApplyDatePolicy
  <2>2. OwnDate' = IF replace THEN meta.date ELSE OwnDate
    BY <1>5, <1>1 DEF ApplyDatePolicy, OwnDate
  <2>3. ~replace => OwnDate # NoDate /\ InBounds(OwnDate, Now)
    BY DEF OwnDate, Valid
  <2>4. DateInv'
    BY <1>1, <2>1, <2>2, <2>3 DEF ImportInv, MetaInv, DateInv
  <2> QED
    BY <1>2, <2>1, <2>4 DEF ImportInv, PartsInv, LossInv, Converted
<1>6. CASE Save
  BY <1>2, <1>6 DEF Save, ImportInv, PartsInv, DateInv, LossInv, Converted, OwnDate
<1>7. CASE Accept
  <2>1. stage = "verify" /\ stage' = "imported" /\ ~LossFound
        /\ msg' = msg /\ meta' = meta /\ file' = file
    BY <1>7 DEF Accept
  <2>2. LossInv'
    BY <2>1 DEF LossInv, LossFound
  <2> QED
    BY <1>2, <2>1, <2>2 DEF ImportInv, PartsInv, DateInv, Converted, OwnDate
<1> QED
  BY <1>3, <1>4, <1>5, <1>6, <1>7

\* The invariant of one mail holds in every reachable state.
LEMMA ImportInvariance == Spec => []ImportInv
<1>1. Init => ImportInv
  BY DEF Init, ImportInv, MetaInv, PartsInv, DateInv, LossInv, Converted
<1>2. ImportInv /\ [Next]_vars => ImportInv'
  <2> SUFFICES ASSUME ImportInv, [Next]_vars PROVE ImportInv'
    OBVIOUS
  <2>1. CASE ReadHeader
    BY <2>1, ReadKeeps
  <2>2. CASE CallFails \/ Reject
    BY <2>2, FailKeeps DEF CallFails, Reject
  <2>3. CASE ApplyMessageState \/ ApplyDatePolicy \/ Save \/ Accept
    BY <2>3, AttemptKeeps
  <2>4. CASE \E flags \in SUBSET {"UNSENT"},
               delivery, submit \in ConverterDates \cup {NoDate},
               keepsSubject \in BOOLEAN, parts \in 0..file.parts :
               Convert(flags, delivery, submit, keepsSubject, parts)
    BY <2>4, AttemptKeeps
  <2>5. CASE UNCHANGED vars
    BY <2>5 DEF vars, ImportInv, MetaInv, PartsInv, DateInv, LossInv, LossFound, Headers,
                DeclaresMixed, OwnDate
  <2> QED
    BY <2>1, <2>2, <2>3, <2>4, <2>5 DEF Next
<1> QED
  BY <1>1, <1>2, PTL DEF Spec

\* A mail that declares a subject never counts as imported without one, nor a
\* multipart/mixed one without an attachment, whatever the converter delivers.
THEOREM NoLossCounts == Spec => []LossNeverCounts
<1>1. ImportInv => LossNeverCounts
  <2> SUFFICES ASSUME ImportInv, stage = "imported"
               PROVE  /\ OwnSubject # {} => msg.subject # {}
                      /\ DeclaresMixed => msg.parts > 0
    BY DEF LossNeverCounts, DeclaresMixed, Headers
  <2>1. (meta.subject => msg.subject # {}) /\ (meta.mixed => msg.parts # 0)
    BY DEF ImportInv, LossInv, LossFound
  <2>2. (OwnSubject # {} => meta.subject) /\ (DeclaresMixed => meta.mixed)
    BY DEF ImportInv, MetaInv, OwnSubject, Headers
  <2>3. msg.parts \in Nat
    BY DEF ImportInv, PartsInv, Converted
  <2> QED
    BY <2>1, <2>2, <2>3
<1> QED
  BY <1>1, ImportInvariance, PTL

\* An imported message has a date that is not absurd, or it has that of its file,
\* which is taken only if the header has none in bounds.
THEOREM PlausiblyDated == Spec => []DatedPlausibly
<1>1. ImportInv => DatedPlausibly
  BY DEF ImportInv, DateInv, OwnDate, DatedPlausibly, InBounds, NoDate
<1> QED
  BY <1>1, ImportInvariance, PTL

\* ---- What every step leaves in its range

\* The flags are set between the converter and the dates, and an attempt that fails puts
\* its message away.
RangeInv ==
  /\ MailTypeOK
  /\ file \in Files
  /\ DOMAIN msg = DOMAIN NoMessage
  /\ stage \in {"dates", "save", "verify"} => "READ" \in msg.flags

LEMMA InitRange == Init => RangeInv
<1> SUFFICES ASSUME Init PROVE RangeInv
  OBVIOUS
<1>1. file.parts \in Nat
  BY FilesAssumption DEF Init, FileShape
<1> QED
  BY <1>1 DEF Init, RangeInv, MailTypeOK, NoMeta, NoMessage

LEMMA FailRange == ASSUME RangeInv, FailAttempt PROVE RangeInv'
<1>1. file.parts \in Nat
  BY FilesAssumption DEF RangeInv, FileShape
<1>2. /\ msg' = NoMessage /\ file' = file /\ meta' = meta
      /\ stage' \in {"convert", "preserved"}
      /\ attempt' = 2 \/ (attempt' = attempt /\ input' = input)
  BY DEF FailAttempt, Retry, GiveUp
<1> QED
  BY <1>1, <1>2 DEF RangeInv, MailTypeOK, NoMessage

LEMMA StepRange == RangeInv /\ [Next]_vars => RangeInv'
<1> SUFFICES ASSUME RangeInv, [Next]_vars PROVE RangeInv'
  OBVIOUS
<1>1. ASSUME ReadHeader PROVE RangeInv'
  <2>1. /\ meta'.sent = IsSent(Headers) /\ meta'.draft = IsDraft(Headers)
        /\ stage' = "convert" /\ UNCHANGED <<file, attempt, input, msg>>
    BY <1>1, Zenon DEF ReadHeader, Headers
  <2>2. ~(meta'.sent /\ meta'.draft)
    BY <2>1, Zenon DEF IsSent
  <2> QED
    BY <2>1, <2>2 DEF RangeInv, MailTypeOK
<1>2. CASE CallFails \/ Reject
  BY <1>2, FailRange DEF CallFails, Reject
<1>3. ASSUME NEW flags \in SUBSET {"UNSENT"},
             NEW delivery \in ConverterDates \cup {NoDate},
             NEW submit \in ConverterDates \cup {NoDate},
             NEW keepsSubject \in BOOLEAN, NEW parts \in 0..file.parts,
             Convert(flags, delivery, submit, keepsSubject, parts)
      PROVE  RangeInv'
  <2>1. /\ DOMAIN msg' = DOMAIN NoMessage /\ msg'.flags = flags /\ msg'.parts = parts
        /\ stage' = "state" /\ UNCHANGED <<file, attempt, input, meta>>
    BY <1>3 DEF Convert, NoMessage
  <2> QED
    BY <2>1 DEF RangeInv, MailTypeOK
<1>4. ASSUME ApplyMessageState PROVE RangeInv'
  <2>1. DOMAIN msg = {"subject", "parts", "flags", "delivery", "submit", "replaced"}
    BY DEF RangeInv, NoMessage
  <2>2. /\ DOMAIN msg' = DOMAIN msg /\ msg'.flags = StateFlags(msg.flags)
        /\ msg'.parts = msg.parts
        /\ stage' = "dates" /\ UNCHANGED <<file, attempt, input, meta>>
    BY <1>4, <2>1 DEF ApplyMessageState
  <2>3. StateFlags(msg.flags) \subseteq {"READ", "UNSENT", "FROMME"}
        /\ "READ" \in StateFlags(msg.flags)
    BY DEF RangeInv, MailTypeOK, StateFlags
  <2> QED
    BY <2>2, <2>3 DEF RangeInv, MailTypeOK
<1>5. ASSUME ApplyDatePolicy PROVE RangeInv'
  <2>1. DOMAIN msg = {"subject", "parts", "flags", "delivery", "submit", "replaced"}
    BY DEF RangeInv, NoMessage
  <2>2. /\ DOMAIN msg' = DOMAIN msg /\ msg'.flags = msg.flags /\ msg'.parts = msg.parts
        /\ stage = "dates" /\ stage' = "save" /\ UNCHANGED <<file, attempt, input, meta>>
    BY <1>5, <2>1 DEF ApplyDatePolicy
  <2> QED
    BY <2>2 DEF RangeInv, MailTypeOK
<1>6. CASE Save \/ Accept
  BY <1>6 DEF Save, Accept, RangeInv, MailTypeOK
<1>7. CASE UNCHANGED vars
  BY <1>7 DEF vars, RangeInv, MailTypeOK
<1> QED
  BY <1>1, <1>2, <1>3, <1>4, <1>5, <1>6, <1>7 DEF Next

\* No mail is both sent and a draft, the first attempt reads the file as it is, and what is
\* imported is marked read, whatever flags and parts the converter delivers.
THEOREM MailTypesHold == Spec => []MailTypeOK
<1>1. RangeInv => MailTypeOK
  BY DEF RangeInv
<1> QED
  BY InitRange, StepRange, <1>1, PTL DEF Spec

-----------------------------------------------------------------------------
(* What the header of a mail is read as *)

\* Least elements exist.
LEMMA Least ==
  ASSUME NEW S \in SUBSET Nat, S # {}
  PROVE  Min(S) \in S /\ \A m \in S : Min(S) <= m
<1>1. PICK n \in S : \A m \in S : ~(<<m, n>> \in OpToRel(<, Nat))
  BY NatLessThanWellFounded, WFMin
<1>2. \A m \in S : m \in Nat /\ n \in Nat /\ ~(m < n)
  BY <1>1 DEF OpToRel
<1>3. \E x \in S : \A y \in S : x <= y
  BY <1>2
<1> QED
  BY <1>3 DEF Min

\* InOrder enumerates a set of positions, each once and in ascending order.
LEMMA Enumerates ==
  ASSUME NEW n \in Nat, NEW S \in SUBSET (1..n)
  PROVE  /\ Cardinality(S) \in Nat
         /\ InOrder(S) \in [1..Cardinality(S) -> S]
         /\ \A j, k \in 1..Cardinality(S) : j < k => InOrder(S)[j] < InOrder(S)[k]
         /\ \A p \in S : \E k \in 1..Cardinality(S) : InOrder(S)[k] = p
<1> DEFINE Below(p) == {q \in S : q < p}
           rank == [p \in S |-> Cardinality(Below(p)) + 1]
           c == Cardinality(S)
<1>0. \A p \in S : p \in Nat
  OBVIOUS
<1>1. IsFiniteSet(S) /\ c \in Nat
  <2>1. IsFiniteSet(1..n)
    BY FS_Interval
  <2>2. IsFiniteSet(S)
    BY <2>1, FS_Subset
  <2> QED
    BY <2>2, FS_CardinalityType
<1>2. ASSUME NEW p \in S
      PROVE  IsFiniteSet(Below(p)) /\ Cardinality(Below(p)) \in Nat /\ Cardinality(Below(p)) < c
  <2>1. Below(p) \in SUBSET S /\ Below(p) # S
    BY <1>2
  <2>2. IsFiniteSet(Below(p)) /\ Cardinality(Below(p)) <= c /\ Cardinality(Below(p)) # c
    BY <1>1, <2>1, FS_Subset
  <2>3. Cardinality(Below(p)) \in Nat
    BY <2>2, FS_CardinalityType
  <2> QED
    BY <1>1, <2>2, <2>3
<1>3. ASSUME NEW p \in S, NEW q \in S, p < q
      PROVE  Cardinality(Below(p)) < Cardinality(Below(q))
  <2>1. Below(p) \cup {p} \in SUBSET Below(q) /\ p \notin Below(p)
    <3>1. \A r \in S : r < p => r < q
      BY <1>0, <1>3
    <3>2. ~(p < p)
      BY <1>0
    <3> QED
      BY <1>3, <3>1, <3>2
  <2>2. /\ IsFiniteSet(Below(p) \cup {p})
        /\ Cardinality(Below(p) \cup {p}) = Cardinality(Below(p)) + 1
    BY <1>2, <2>1, FS_AddElement
  <2>3. Cardinality(Below(p) \cup {p}) <= Cardinality(Below(q))
    BY <1>2, <2>1, FS_Subset
  <2>4. Cardinality(Below(p)) \in Nat /\ Cardinality(Below(q)) \in Nat
    BY <1>2
  <2> HIDE DEF Below
  <2> QED
    BY <2>2, <2>3, <2>4
<1>4. rank \in [S -> 1..c]
  BY <1>1, <1>2
<1>5. \A p, q \in S : p # q => rank[p] # rank[q]
  <2> SUFFICES ASSUME NEW p \in S, NEW q \in S, p # q PROVE rank[p] # rank[q]
    OBVIOUS
  <2>1. p < q \/ q < p
    OBVIOUS
  <2> QED
    BY <1>2, <1>3, <2>1
<1>6. rank \in Injection(S, 1..c)
  BY <1>4, <1>5 DEF Injection, IsInjective
<1>7. IsFiniteSet(1..c) /\ Cardinality(1..c) = c
  BY <1>1, FS_Interval
<1>8. rank \in Surjection(S, 1..c)
  BY <1>1, <1>6, <1>7, FS_Injection
<1>9. ASSUME NEW k \in 1..c
      PROVE  InOrder(S)[k] \in S /\ Cardinality(Below(InOrder(S)[k])) = k - 1
  <2>1. PICK p \in S : rank[p] = k
    BY <1>8 DEF Surjection
  <2>2. Cardinality(Below(p)) = k - 1
    BY <1>2, <2>1
  <2>3. InOrder(S)[k] = CHOOSE q \in S : Cardinality({r \in S : r < q}) = k - 1
    BY DEF InOrder
  <2> QED
    BY <2>2, <2>3
<1>10. ASSUME NEW j \in 1..c, NEW k \in 1..c, j < k
       PROVE  InOrder(S)[j] < InOrder(S)[k]
  <2>1. /\ InOrder(S)[j] \in S /\ Cardinality(Below(InOrder(S)[j])) = j - 1
        /\ InOrder(S)[k] \in S /\ Cardinality(Below(InOrder(S)[k])) = k - 1
    BY <1>9
  <2>2. InOrder(S)[j] # InOrder(S)[k]
    BY <1>1, <1>10, <2>1
  <2>3. ~(InOrder(S)[k] < InOrder(S)[j])
    <3>1. ~(k - 1 < j - 1)
      BY <1>1, <1>10
    <3> HIDE DEF Below
    <3> QED
      BY <1>3, <2>1, <3>1
  <2>4. InOrder(S)[j] \in Nat /\ InOrder(S)[k] \in Nat
    BY <1>0, <2>1
  <2> QED
    BY <2>2, <2>3, <2>4
<1>11. ASSUME NEW p \in S PROVE \E k \in 1..c : InOrder(S)[k] = p
  <2>1. rank[p] \in 1..c
    BY <1>4
  <2>2. /\ InOrder(S)[rank[p]] \in S
        /\ Cardinality(Below(InOrder(S)[rank[p]])) = rank[p] - 1
    BY <1>9, <2>1
  <2>3. rank[InOrder(S)[rank[p]]] = rank[p]
    BY <1>1, <2>1, <2>2
  <2> QED
    BY <1>5, <2>1, <2>2, <2>3
<1>12. InOrder(S) \in [1..c -> S]
  BY <1>9 DEF InOrder
<1> QED
  BY <1>1, <1>10, <1>11, <1>12

\* What texts are made of (no prover knows that a literal is a string).
Char == STRING \cup {"CR", "LF", " "}

\* What one line does to the reading of a header.
LEMMA LineRead ==
  ASSUME NEW read, DOMAIN read = DOMAIN NothingRead, read.reasons \subseteq {"line-without-colon"},
         NEW line
  PROVE  /\ DOMAIN ReadLine(read, line) = DOMAIN NothingRead
         /\ ReadLine(read, line).reasons \subseteq {"line-without-colon"}
<1>1. DOMAIN NothingRead = {"fields", "open", "reasons"}
  BY DEF NothingRead
<1> DEFINE text == StripNul(line.text)
<1>2. CASE text # <<>> /\ text[1] = " "
  BY <1>1, <1>2 DEF ReadLine
<1>3. CASE ~(text # <<>> /\ text[1] = " ") /\ ":" \notin ToSet(text)
  BY <1>1, <1>3 DEF ReadLine
<1>4. CASE ~(text # <<>> /\ text[1] = " ") /\ ":" \in ToSet(text)
  BY <1>1, <1>4 DEF ReadLine
<1> QED
  BY <1>2, <1>3, <1>4

\* The reading of a header line by line is a function.
Reading(lines, n, g) ==
  g = [i \in 0..n |-> IF i = 0 THEN NothingRead ELSE ReadLine(g[i - 1], lines[i])]

LEMMA ReadingExists == ASSUME NEW lines, NEW n \in Nat PROVE \E g : Reading(lines, n, g)
<1> DEFINE S == {m \in Nat : ~ \E g : Reading(lines, m, g)}
<1> SUFFICES ASSUME S # {} PROVE FALSE
  OBVIOUS
<1>1. Min(S) \in S /\ \A k \in S : Min(S) <= k
  BY Least
<1> DEFINE m == Min(S)
<1> HIDE DEF m
<1>2. m \in Nat /\ ~ \E g : Reading(lines, m, g)
  BY <1>1 DEF m
<1>3. m # 0
  <2>1. Reading(lines, 0, [i \in 0..0 |-> NothingRead])
    BY DEF Reading
  <2> QED
    BY <1>2, <2>1
<1>4. m - 1 \in Nat /\ m - 1 \notin S
  BY <1>1, <1>2, <1>3 DEF m
<1>5. PICK g : Reading(lines, m - 1, g)
  BY <1>4
<1> DEFINE h == [i \in 0..m |-> IF i = m THEN ReadLine(g[m - 1], lines[m]) ELSE g[i]]
<1>6. \A i \in 0..m : h[i] = IF i = 0 THEN NothingRead ELSE ReadLine(h[i - 1], lines[i])
  <2> SUFFICES ASSUME NEW i \in 0..m
               PROVE  h[i] = IF i = 0 THEN NothingRead ELSE ReadLine(h[i - 1], lines[i])
    OBVIOUS
  <2>1. CASE i = m
    <3>1. h[i - 1] = g[m - 1]
      BY <1>2, <1>3, <2>1
    <3> QED
      BY <1>2, <1>3, <2>1, <3>1
  <2>2. CASE i # m
    <3>1. i \in 0..(m - 1)
      BY <1>2, <2>2
    <3>2. g[i] = IF i = 0 THEN NothingRead ELSE ReadLine(g[i - 1], lines[i])
      BY <1>5, <3>1 DEF Reading
    <3>3. i # 0 => h[i - 1] = g[i - 1]
      BY <1>2, <2>2, <3>1
    <3> QED
      BY <2>2, <3>1, <3>2, <3>3
  <2> QED
    BY <2>1, <2>2
<1>7. Reading(lines, m, h)
  BY <1>6 DEF Reading
<1> QED
  BY <1>2, <1>7

\* Reading a header reports no more than lines without a colon.
LEMMA ReadReasons ==
  ASSUME NEW lines, Len(lines) \in Nat
  PROVE  ReadLines(lines).reasons \subseteq {"line-without-colon"}
<1>1. PICK g : Reading(lines, Len(lines), g) /\ ReadLines(lines) = g[Len(lines)]
  BY ReadingExists DEF Reading, ReadLines
<1> DEFINE Plain(i) == /\ DOMAIN g[i] = DOMAIN NothingRead
                       /\ g[i].reasons \subseteq {"line-without-colon"}
           S == {i \in 0..Len(lines) : ~Plain(i)}
<1>2. S = {}
  <2> SUFFICES ASSUME S # {} PROVE FALSE
    OBVIOUS
  <2>1. S \in SUBSET Nat
    OBVIOUS
  <2>2. Min(S) \in S /\ \A k \in S : Min(S) <= k
    BY <2>1, Least
  <2> DEFINE i == Min(S)
  <2> HIDE DEF i
  <2>3. i \in 0..Len(lines) /\ ~Plain(i) /\ \A k \in S : i <= k
    BY <2>2 DEF i
  <2>4. g[i] = IF i = 0 THEN NothingRead ELSE ReadLine(g[i - 1], lines[i])
    BY <1>1, <2>3 DEF Reading
  <2>5. CASE i = 0
    BY <2>3, <2>4, <2>5 DEF NothingRead
  <2>6. CASE i # 0
    <3>1. i - 1 \in 0..Len(lines) /\ i - 1 \notin S
      BY <2>3, <2>6
    <3>2. Plain(i - 1)
      BY <3>1
    <3>3. g[i] = ReadLine(g[i - 1], lines[i])
      BY <2>4, <2>6
    <3>4. Plain(i)
      BY <3>2, <3>3, LineRead
    <3> QED
      BY <2>3, <3>4
  <2> QED
    BY <2>5, <2>6
<1>3. Plain(Len(lines))
  BY <1>2
<1> QED
  BY <1>1, <1>3

-----------------------------------------------------------------------------
(* Lines *)

\* Where a line ends.
LEMMA LineEnds ==
  ASSUME NEW w \in Seq(Char), NEW p \in 1..Len(w)
  PROVE  /\ LineEnd(w, p) \in p..(Len(w) + 1)
         /\ \A i \in p..(LineEnd(w, p) - 1) : w[i] \notin Breaks
         /\ LineEnd(w, p) <= Len(w) => w[LineEnd(w, p)] \in Breaks
         /\ \A i \in p..Len(w) : w[i] \in Breaks => LineEnd(w, p) <= i
<1> DEFINE S == {i \in p..Len(w) : w[i] \in Breaks} \cup {Len(w) + 1}
<1>1. S \in SUBSET Nat /\ S # {}
  OBVIOUS
<1>2. Min(S) \in S /\ \A m \in S : Min(S) <= m
  BY <1>1, Least
<1>3. LineEnd(w, p) = Min(S)
  BY DEF LineEnd
<1> DEFINE e == LineEnd(w, p)
<1> HIDE DEF e
<1>4. e \in S /\ \A m \in S : e <= m
  BY <1>2, <1>3 DEF e
<1>5. /\ e \in p..(Len(w) + 1)
      /\ \A i \in p..(e - 1) : w[i] \notin Breaks
      /\ e <= Len(w) => w[e] \in Breaks
      /\ \A i \in p..Len(w) : w[i] \in Breaks => e <= i
  BY <1>4
<1> QED
  BY <1>5 DEF e

\* What a line says and how it ends.
LEMMA LineIs ==
  ASSUME NEW w \in Seq(Char), NEW p \in 1..Len(w)
  PROVE  /\ LineAt(w, p).first = p
         /\ LineAt(w, p).text \in Seq(Char)
         /\ Len(LineAt(w, p).text) = LineEnd(w, p) - p
         /\ \A i \in 1..(LineEnd(w, p) - p) : LineAt(w, p).text[i] = w[p + i - 1]
         /\ LineAt(w, p).text = <<>> <=> w[p] \in Breaks
         /\ LineAt(w, p).ending = "CR" =>
              /\ LineEnd(w, p) <= Len(w) /\ w[LineEnd(w, p)] = "CR"
              /\ LineEnd(w, p) < Len(w) => w[LineEnd(w, p) + 1] # "LF"
<1> DEFINE e == LineEnd(w, p)
<1>1. /\ e \in p..(Len(w) + 1)
      /\ \A i \in p..(e - 1) : w[i] \notin Breaks
      /\ e <= Len(w) => w[e] \in Breaks
      /\ \A i \in p..Len(w) : w[i] \in Breaks => e <= i
  BY LineEnds
<1>2. LineAt(w, p).first = p /\ LineAt(w, p).text = SubSeq(w, p, e - 1)
  BY DEF LineAt
<1>3. LineAt(w, p).ending = IF e > Len(w) THEN "none"
                ELSE IF e < Len(w) /\ w[e] = "CR" /\ w[e + 1] = "LF" THEN "CRLF"
                ELSE w[e]
  BY DEF LineAt
<1> HIDE DEF e
<1>4. /\ SubSeq(w, p, e - 1) \in Seq(Char) /\ Len(SubSeq(w, p, e - 1)) = e - p
      /\ \A i \in 1..(e - p) : SubSeq(w, p, e - 1)[i] = w[p + i - 1]
  BY <1>1
<1>5. SubSeq(w, p, e - 1) = <<>> <=> e = p
  BY <1>1, <1>4
<1>6. e = p <=> w[p] \in Breaks
  BY <1>1
<1>7. LineAt(w, p).ending = "CR" => e <= Len(w) /\ w[e] = "CR" /\ (e < Len(w) => w[e + 1] # "LF")
  BY <1>1, <1>3
<1> QED
  BY <1>2, <1>4, <1>5, <1>6, <1>7 DEF e

\* The lines of a text begin at its line starts, in their order.
Starts(w) == InOrder(LineStarts(w))

LEMMA LinesAre ==
  ASSUME NEW w \in Seq(Char)
  PROVE  /\ Len(Lines(w)) \in Nat /\ DOMAIN Lines(w) = 1..Len(Lines(w))
         /\ Starts(w) \in [1..Len(Lines(w)) -> LineStarts(w)]
         /\ \A i \in 1..Len(Lines(w)) : Lines(w)[i] = LineAt(w, Starts(w)[i])
         /\ \A i, j \in 1..Len(Lines(w)) : i < j => Starts(w)[i] < Starts(w)[j]
         /\ \A p \in LineStarts(w) : \E i \in 1..Len(Lines(w)) : Starts(w)[i] = p
         /\ LineStarts(w) \in SUBSET (1..Len(w))
<1>1. TextStart(w) \in {1, 2} /\ Len(w) \in Nat
  BY DEF TextStart
<1>2. LineStarts(w) \in SUBSET (1..Len(w))
  BY <1>1 DEF LineStarts
<1> DEFINE c == Cardinality(LineStarts(w))
<1>3. /\ c \in Nat /\ Starts(w) \in [1..c -> LineStarts(w)]
      /\ \A j, k \in 1..c : j < k => Starts(w)[j] < Starts(w)[k]
      /\ \A p \in LineStarts(w) : \E k \in 1..c : Starts(w)[k] = p
  BY <1>1, <1>2, Enumerates DEF Starts
<1>4. DOMAIN Starts(w) = 1..c
  BY <1>3
<1>5. Lines(w) = [i \in 1..c |-> LineAt(w, Starts(w)[i])]
  BY <1>4 DEF Lines, Starts
<1> HIDE DEF c
<1>6. DOMAIN Lines(w) = 1..c /\ Len(Lines(w)) = c
  BY <1>3, <1>5
<1> QED
  BY <1>2, <1>3, <1>5, <1>6

\* The separator is the first empty line.
LEMMA BlankIs ==
  ASSUME NEW lines, Len(lines) \in Nat
  PROVE  \/ /\ BlankLine(lines) = 0
            /\ \A i \in 1..Len(lines) : lines[i].text # <<>>
         \/ /\ BlankLine(lines) \in 1..Len(lines)
            /\ lines[BlankLine(lines)].text = <<>>
            /\ \A i \in 1..(BlankLine(lines) - 1) : lines[i].text # <<>>
<1> DEFINE S == {i \in 1..Len(lines) : lines[i].text = <<>>}
<1>1. BlankLine(lines) = IF S # {} THEN Min(S) ELSE 0
  BY DEF BlankLine, SelectInSeq
<1>2. S \in SUBSET Nat
  OBVIOUS
<1>3. CASE S = {}
  BY <1>1, <1>3
<1>4. CASE S # {}
  <2>1. Min(S) \in S /\ \A m \in S : Min(S) <= m
    BY <1>2, <1>4, Least
  <2> DEFINE b == BlankLine(lines)
  <2>2. b \in S /\ \A m \in S : b <= m
    BY <1>1, <1>4, <2>1
  <2> HIDE DEF b
  <2>3. b \in 1..Len(lines) /\ lines[b].text = <<>> /\ \A i \in 1..(b - 1) : lines[i].text # <<>>
    BY <2>2
  <2> QED
    BY <2>3 DEF b
<1> QED
  BY <1>3, <1>4

\* The walk ends at the first line that ends the header.
LEMMA HeaderEndIs ==
  ASSUME NEW lines, Len(lines) \in Nat
  PROVE  \/ /\ HeaderEnd(lines) = 0
            /\ \A i \in 1..Len(lines) : ~EndsHeader(lines[i])
         \/ /\ HeaderEnd(lines) \in 1..Len(lines)
            /\ EndsHeader(lines[HeaderEnd(lines)])
            /\ \A i \in 1..(HeaderEnd(lines) - 1) : ~EndsHeader(lines[i])
<1> DEFINE S == {i \in 1..Len(lines) : EndsHeader(lines[i])}
<1>1. HeaderEnd(lines) = IF S # {} THEN Min(S) ELSE 0
  BY DEF HeaderEnd, SelectInSeq
<1>2. S \in SUBSET Nat
  OBVIOUS
<1>3. CASE S = {}
  BY <1>1, <1>3
<1>4. CASE S # {}
  <2>1. Min(S) \in S /\ \A m \in S : Min(S) <= m
    BY <1>2, <1>4, Least
  <2> DEFINE b == HeaderEnd(lines)
  <2>2. b \in S /\ \A m \in S : b <= m
    BY <1>1, <1>4, <2>1
  <2> HIDE DEF b
  <2>3. b \in 1..Len(lines) /\ EndsHeader(lines[b]) /\ \A i \in 1..(b - 1) : ~EndsHeader(lines[i])
    BY <2>2
  <2> QED
    BY <2>3 DEF b
<1> QED
  BY <1>3, <1>4

-----------------------------------------------------------------------------
(* Rewriting a header *)

\* What is left of a line without its NULs: no NUL, nothing that was not there, and
\* before its first character only NULs were left out.
LEMMA Stripped ==
  ASSUME NEW text \in Seq(Char)
  PROVE  /\ StripNul(text) \in Seq(Char)
         /\ \A k \in 1..Len(StripNul(text)) :
              StripNul(text)[k] # "NUL" /\ \E i \in 1..Len(text) : text[i] = StripNul(text)[k]
         /\ StripNul(text) # <<>> =>
              \E i \in 1..Len(text) : /\ text[i] = StripNul(text)[1]
                                      /\ \A j \in 1..(i - 1) : text[j] = "NUL"
<1> DEFINE S == {i \in DOMAIN text : text[i] \notin {"NUL"}}
           c == Cardinality(S)
           o == InOrder(S)
<1>1. Len(text) \in Nat /\ S \in SUBSET (1..Len(text))
  OBVIOUS
<1>2. /\ c \in Nat /\ o \in [1..c -> S]
      /\ \A j, k \in 1..c : j < k => o[j] < o[k]
      /\ \A p \in S : \E k \in 1..c : o[k] = p
  BY <1>1, Enumerates
<1>3. DOMAIN o = 1..c
  BY <1>2
<1>4. StripNul(text) = [k \in 1..c |-> text[o[k]]]
  BY <1>3 DEF StripNul, Without
<1> HIDE DEF c, o
<1>5. \A k \in 1..c : o[k] \in 1..Len(text) /\ text[o[k]] # "NUL"
  BY <1>2
<1>6. StripNul(text) \in Seq(Char) /\ Len(StripNul(text)) = c
  BY <1>2, <1>4, <1>5
<1>7. ASSUME StripNul(text) # <<>>
      PROVE  \E i \in 1..Len(text) : /\ text[i] = StripNul(text)[1]
                                     /\ \A j \in 1..(i - 1) : text[j] = "NUL"
  <2>1. 1 \in 1..c
    BY <1>2, <1>6, <1>7
  <2>2. o[1] \in 1..Len(text) /\ text[o[1]] = StripNul(text)[1]
    BY <1>4, <1>5, <2>1
  <2>3. ASSUME NEW j \in 1..(o[1] - 1), text[j] # "NUL" PROVE FALSE
    <3>1. j \in S
      BY <1>1, <2>2, <2>3
    <3>2. PICK k \in 1..c : o[k] = j
      BY <1>2, <3>1
    <3>3. o[1] <= o[k]
      BY <1>2, <1>5, <2>1
    <3> QED
      BY <2>2, <2>3, <3>2, <3>3
  <2> QED
    BY <2>2, <2>3
<1> QED
  BY <1>4, <1>5, <1>6, <1>7

\* Two texts, one after the other.
LEMMA Joined ==
  ASSUME NEW a \in Seq(Char), NEW b \in Seq(Char)
  PROVE  /\ a \o b \in Seq(Char) /\ Len(a) \in Nat /\ Len(b) \in Nat
         /\ Len(a \o b) = Len(a) + Len(b)
         /\ \A i \in 1..Len(a) : (a \o b)[i] = a[i]
         /\ \A i \in 1..Len(b) : (a \o b)[Len(a) + i] = b[i]
  OBVIOUS

LEMMA JoinedFirst ==
  ASSUME NEW a \in Seq(Char), NEW b \in Seq(Char), a # <<>>
  PROVE  a \o b # <<>> /\ (a \o b)[1] = a[1]
<1>1. Len(a) \in Nat /\ Len(a) # 0 /\ Len(a \o b) = Len(a) + Len(b) /\ Len(b) \in Nat
  OBVIOUS
<1>2. 1 \in 1..Len(a)
  BY <1>1
<1>3. (a \o b)[1] = a[1]
  BY <1>2
<1>4. Len(a \o b) # 0
  BY <1>1
<1> QED
  BY <1>3, <1>4

LEMMA LineBreak ==
  /\ CRLF \in Seq(Char) /\ Len(CRLF) = 2 /\ CRLF[1] = "CR" /\ CRLF[2] = "LF"
<1>1. "CR" \in Char /\ "LF" \in Char
  BY DEF Char
<1>2. <<"CR", "LF">> \in Seq(Char)
  BY <1>1
<1> QED
  BY <1>2 DEF CRLF

\* A text with no NUL, no CR that is not followed by LF and no unfinished line.
Clean(text) ==
  /\ text \in Seq(Char)
  /\ text # <<>> => text[Len(text)] = "LF"
  /\ \A i \in 1..Len(text) :
       text[i] # "NUL" /\ (text[i] = "CR" => i < Len(text) /\ text[i + 1] = "LF")

LEMMA CleanAppend ==
  ASSUME NEW a, NEW b, Clean(a), Clean(b)
  PROVE  Clean(a \o b)
<1>1. /\ a \in Seq(Char) /\ b \in Seq(Char) /\ Len(a) \in Nat /\ Len(b) \in Nat
      /\ Len(a \o b) = Len(a) + Len(b) /\ a \o b \in Seq(Char)
      /\ \A i \in 1..Len(a) : (a \o b)[i] = a[i]
      /\ \A i \in (Len(a) + 1)..(Len(a) + Len(b)) : (a \o b)[i] = b[i - Len(a)]
  BY DEF Clean
<1> DEFINE t == a \o b
<1> HIDE DEF t
<1>2. t # <<>> => t[Len(t)] = "LF"
  <2>1. CASE Len(b) = 0
    <3>1. t = a
      BY <1>1, <2>1 DEF t
    <3> QED
      BY <3>1 DEF Clean
  <2>2. CASE Len(b) # 0
    <3>1. b[Len(b)] = "LF"
      BY <1>1, <2>2 DEF Clean
    <3>2. t[Len(a) + Len(b)] = b[Len(b)]
      BY <1>1, <2>2 DEF t
    <3> QED
      BY <1>1, <3>1, <3>2 DEF t
  <2> QED
    BY <2>1, <2>2
<1>3. ASSUME NEW i \in 1..Len(t)
      PROVE  t[i] # "NUL" /\ (t[i] = "CR" => i < Len(t) /\ t[i + 1] = "LF")
  <2>1. CASE i \in 1..Len(a)
    <3>1. t[i] = a[i] /\ (i < Len(a) => t[i + 1] = a[i + 1])
      BY <1>1, <2>1 DEF t
    <3>2. a[i] # "NUL" /\ (a[i] = "CR" => i < Len(a) /\ a[i + 1] = "LF")
      BY <2>1 DEF Clean
    <3> QED
      BY <1>1, <2>1, <3>1, <3>2 DEF t
  <2>2. CASE i \in (Len(a) + 1)..(Len(a) + Len(b))
    <3> DEFINE k == i - Len(a)
    <3>1. k \in 1..Len(b) /\ t[i] = b[k] /\ (k < Len(b) => t[i + 1] = b[k + 1])
      BY <1>1, <2>2 DEF t
    <3>2. b[k] # "NUL" /\ (b[k] = "CR" => k < Len(b) /\ b[k + 1] = "LF")
      BY <3>1 DEF Clean
    <3> QED
      BY <1>1, <2>2, <3>1, <3>2 DEF t
  <2> QED
    BY <1>1, <1>3, <2>1, <2>2 DEF t
<1> QED
  BY <1>1, <1>2, <1>3 DEF Clean, t

\* Clean text with a line end is clean.
LEMMA RewrittenClean ==
  ASSUME NEW l, l.text \in Seq(Char), \A i \in 1..Len(l.text) : l.text[i] \notin Breaks
  PROVE  /\ Clean(Rewritten(l)) /\ Rewritten(l) # <<>>
         /\ StripNul(l.text) # <<>> => Rewritten(l)[1] = StripNul(l.text)[1]
         /\ StripNul(l.text) = <<>> => Rewritten(l)[1] = "CR"
<1> DEFINE s == StripNul(l.text)
<1>1. /\ s \in Seq(Char)
      /\ \A k \in 1..Len(s) : s[k] # "NUL" /\ s[k] \notin Breaks
  BY Stripped
<1>2. Rewritten(l) = s \o CRLF
  BY DEF Rewritten
<1> HIDE DEF s
<1>3. CRLF \in Seq(Char) /\ Len(CRLF) = 2 /\ CRLF[1] = "CR" /\ CRLF[2] = "LF"
  BY LineBreak
<1> DEFINE r == s \o CRLF
<1>4. /\ r \in Seq(Char) /\ Len(s) \in Nat /\ Len(r) = Len(s) + 2
      /\ \A i \in 1..Len(s) : r[i] = s[i]
      /\ r[Len(s) + 1] = "CR" /\ r[Len(s) + 2] = "LF"
  <2>1. s \in Seq(Char) /\ CRLF \in Seq(Char)
    BY <1>1, <1>3
  <2>2. /\ r \in Seq(Char) /\ Len(s) \in Nat
        /\ Len(r) = Len(s) + Len(CRLF)
        /\ \A i \in 1..Len(s) : r[i] = s[i]
        /\ \A i \in 1..Len(CRLF) : r[Len(s) + i] = CRLF[i]
    BY <2>1, Joined
  <2>3. 1 \in 1..Len(CRLF) /\ 2 \in 1..Len(CRLF)
    BY <1>3
  <2>4. r[Len(s) + 1] = CRLF[1] /\ r[Len(s) + 2] = CRLF[2]
    BY <2>2, <2>3
  <2> HIDE DEF r
  <2> QED
    BY <1>3, <2>2, <2>4
<1> HIDE DEF r
<1>5. ASSUME NEW i \in 1..Len(r)
      PROVE  r[i] # "NUL" /\ (r[i] = "CR" => i < Len(r) /\ r[i + 1] = "LF")
  <2>1. CASE i \in 1..Len(s)
    BY <1>1, <1>4, <2>1 DEF Breaks
  <2>2. CASE i = Len(s) + 1
    BY <1>4, <2>2
  <2>3. CASE i = Len(s) + 2
    BY <1>4, <2>3
  <2> QED
    BY <1>4, <2>1, <2>2, <2>3
<1>6. Clean(r) /\ r # <<>>
  BY <1>4, <1>5 DEF Clean
<1>7. s # <<>> => r[1] = s[1]
  BY <1>1, <1>4
<1>8. s = <<>> => r[1] = "CR"
  BY <1>4
<1> QED
  BY <1>2, <1>6, <1>7, <1>8 DEF s, r

\* Joining sequences one by one is a function.
Joining(seqs, n, g) ==
  g = [i \in 1..n |-> IF i = 1 THEN seqs[i] ELSE g[i - 1] \o seqs[i]]

LEMMA JoiningExists ==
  ASSUME NEW seqs, NEW n \in Nat PROVE \E g : Joining(seqs, n, g)
<1> DEFINE S == {m \in Nat : ~ \E g : Joining(seqs, m, g)}
<1> SUFFICES ASSUME S # {} PROVE FALSE
  OBVIOUS
<1>1. Min(S) \in S /\ \A k \in S : Min(S) <= k
  BY Least
<1> DEFINE m == Min(S)
<1> HIDE DEF m
<1>2. m \in Nat /\ ~ \E g : Joining(seqs, m, g)
  BY <1>1 DEF m
<1>3. m # 0
  <2>1. Joining(seqs, 0, [i \in 1..0 |-> <<>>])
    BY DEF Joining
  <2> QED
    BY <1>2, <2>1
<1>4. m - 1 \in Nat /\ m - 1 \notin S
  BY <1>1, <1>2, <1>3 DEF m
<1>5. PICK g : Joining(seqs, m - 1, g)
  BY <1>4
<1> DEFINE top == IF m = 1 THEN seqs[m] ELSE g[m - 1] \o seqs[m]
           h == [i \in 1..m |-> IF i = m THEN top ELSE g[i]]
<1>6. \A i \in 1..m : h[i] = IF i = 1 THEN seqs[i] ELSE h[i - 1] \o seqs[i]
  <2> SUFFICES ASSUME NEW i \in 1..m
               PROVE  h[i] = IF i = 1 THEN seqs[i] ELSE h[i - 1] \o seqs[i]
    OBVIOUS
  <2>1. CASE i = m
    <3>1. i # 1 => h[i - 1] = g[m - 1]
      BY <1>2, <1>3, <2>1
    <3>2. h[i] = top
      BY <2>1
    <3> QED
      BY <2>1, <3>1, <3>2
  <2>2. CASE i # m
    <3>1. i \in 1..(m - 1)
      BY <1>2, <2>2
    <3>2. g[i] = IF i = 1 THEN seqs[i] ELSE g[i - 1] \o seqs[i]
      BY <1>5, <3>1 DEF Joining
    <3>3. i # 1 => h[i - 1] = g[i - 1]
      BY <1>2, <2>2, <3>1
    <3>4. h[i] = g[i]
      BY <2>2
    <3> QED
      BY <3>2, <3>3, <3>4
  <2> QED
    BY <2>1, <2>2
<1>7. Joining(seqs, m, h)
  BY <1>6 DEF Joining
<1> QED
  BY <1>2, <1>7

LEMMA FlatIs ==
  ASSUME NEW seqs, Len(seqs) \in Nat, Len(seqs) # 0
  PROVE  \E g : Joining(seqs, Len(seqs), g) /\ FlattenSeq(seqs) = g[Len(seqs)]
  BY JoiningExists DEF Joining, FlattenSeq

\* The concatenation of clean texts is clean and begins like the first of them.
LEMMA CleanFlat ==
  ASSUME NEW seqs, Len(seqs) \in Nat, seqs = <<>> \/ Len(seqs) # 0,
         \A i \in 1..Len(seqs) : Clean(seqs[i]) /\ seqs[i] # <<>>
  PROVE  /\ Clean(FlattenSeq(seqs))
         /\ FlattenSeq(seqs) # <<>> => Len(seqs) # 0 /\ FlattenSeq(seqs)[1] = seqs[1][1]
<1>1. CASE Len(seqs) = 0
  <2>1. FlattenSeq(seqs) = <<>>
    BY <1>1 DEF FlattenSeq
  <2> QED
    BY <2>1 DEF Clean
<1>2. CASE Len(seqs) # 0
  <2>1. PICK g : Joining(seqs, Len(seqs), g) /\ FlattenSeq(seqs) = g[Len(seqs)]
    BY <1>2, FlatIs
  <2> DEFINE Good(i) == Clean(g[i]) /\ g[i] # <<>> /\ g[i][1] = seqs[1][1]
             S == {i \in 1..Len(seqs) : ~Good(i)}
  <2>2. S = {}
    <3> SUFFICES ASSUME S # {} PROVE FALSE
      OBVIOUS
    <3>1. S \in SUBSET Nat
      OBVIOUS
    <3>2. Min(S) \in S /\ \A k \in S : Min(S) <= k
      BY <3>1, Least
    <3> DEFINE i == Min(S)
    <3> HIDE DEF i
    <3>3. i \in 1..Len(seqs) /\ ~Good(i) /\ \A k \in S : i <= k
      BY <3>2 DEF i
    <3>4. g[i] = IF i = 1 THEN seqs[i] ELSE g[i - 1] \o seqs[i]
      BY <2>1, <3>3 DEF Joining
    <3>5. CASE i = 1
      BY <3>3, <3>4, <3>5
    <3>6. CASE i # 1
      <4>1. i - 1 \in 1..Len(seqs) /\ i - 1 \notin S
        BY <3>3, <3>6
      <4>2. Good(i - 1)
        BY <4>1
      <4>3. g[i] = g[i - 1] \o seqs[i] /\ Clean(seqs[i])
        BY <3>3, <3>4, <3>6
      <4>4. Clean(g[i])
        BY <4>2, <4>3, CleanAppend
      <4>5. g[i - 1] \in Seq(Char) /\ seqs[i] \in Seq(Char) /\ Len(g[i - 1]) > 0
        BY <4>2, <4>3 DEF Clean
      <4>6. g[i] # <<>> /\ g[i][1] = g[i - 1][1]
        BY <4>2, <4>3, <4>5, JoinedFirst
      <4> QED
        BY <3>3, <4>2, <4>4, <4>6
    <3> QED
      BY <3>5, <3>6
  <2>3. Good(Len(seqs))
    BY <1>2, <2>2
  <2> QED
    BY <1>2, <2>1, <2>3
<1> QED
  BY <1>1, <1>2

-----------------------------------------------------------------------------
(* The copy is in order *)

\* The window is the beginning of the text.
LEMMA WindowIs ==
  ASSUME NEW text \in Seq(Char)
  PROVE  /\ Window(text) \in Seq(Char) /\ Len(Window(text)) \in 0..Len(text)
         /\ \A i \in 1..Len(Window(text)) : Window(text)[i] = text[i]
         /\ Len(Window(text)) = Len(text) \/ Len(Window(text)) = Cap
         /\ Len(Window(text)) <= Cap
         /\ TextStart(Window(text)) = TextStart(text)
<1> DEFINE S == {Cap, Len(text)}
           n == Min(S)
<1>1. Cap \in Nat \ {0} /\ Len(text) \in Nat
  BY CapAssumption
<1>2. S \in SUBSET Nat /\ S # {}
  BY <1>1
<1>3. n \in S /\ \A m \in S : n <= m
  BY <1>2, Least
<1>4. Window(text) = SubSeq(text, 1, n)
  BY DEF Window
<1> HIDE DEF n
<1>5. n \in 0..Len(text) /\ n <= Cap /\ (n = Len(text) \/ n = Cap)
  BY <1>1, <1>3
<1>6. /\ SubSeq(text, 1, n) \in Seq(Char) /\ Len(SubSeq(text, 1, n)) = n
      /\ \A i \in 1..n : SubSeq(text, 1, n)[i] = text[i]
  BY <1>5
<1>7. TextStart(Window(text)) = TextStart(text)
  <2>1. CASE n = 0
    <3>1. Len(text) = 0
      BY <1>1, <1>5, <2>1
    <3>2. text = <<>> /\ SubSeq(text, 1, n) = <<>>
      BY <1>6, <2>1, <3>1
    <3> QED
      BY <1>4, <3>2
  <2>2. CASE n # 0
    <3>1. text # <<>> /\ SubSeq(text, 1, n) # <<>> /\ SubSeq(text, 1, n)[1] = text[1]
      BY <1>5, <1>6, <2>2
    <3> QED
      BY <1>4, <3>1 DEF TextStart
  <2> QED
    BY <2>1, <2>2
<1> QED
  BY <1>4, <1>5, <1>6, <1>7

\* The first line begins where the text does.
LEMMA FirstLine ==
  ASSUME NEW w \in Seq(Char), Len(Lines(w)) # 0
  PROVE  Starts(w)[1] = TextStart(w)
<1>1. /\ Len(Lines(w)) \in Nat /\ Starts(w) \in [1..Len(Lines(w)) -> LineStarts(w)]
      /\ \A i, j \in 1..Len(Lines(w)) : i < j => Starts(w)[i] < Starts(w)[j]
      /\ \A p \in LineStarts(w) : \E i \in 1..Len(Lines(w)) : Starts(w)[i] = p
      /\ LineStarts(w) \in SUBSET (1..Len(w))
  BY LinesAre
<1>2. TextStart(w) \in Nat /\ Len(w) \in Nat
  BY DEF TextStart
<1>3. Starts(w)[1] \in LineStarts(w)
  BY <1>1
<1>4. TextStart(w) <= Starts(w)[1] /\ Starts(w)[1] \in 1..Len(w)
  BY <1>1, <1>2, <1>3 DEF LineStarts
<1>5. TextStart(w) \in LineStarts(w)
  BY <1>2, <1>4 DEF LineStarts
<1>6. PICK i \in 1..Len(Lines(w)) : Starts(w)[i] = TextStart(w)
  BY <1>1, <1>5
<1>7. i = 1 \/ 1 < i
  BY <1>6
<1>8. 1 < i => Starts(w)[1] < Starts(w)[i]
  BY <1>1
<1> QED
  BY <1>2, <1>4, <1>6, <1>7, <1>8

\* The lines that normalize_eml_header takes for the header.
KeptLines(text) ==
  LET lines == Lines(Window(text))
      stop  == HeaderEnd(lines)
  IN  IF stop = 0 THEN lines ELSE SubSeq(lines, 1, stop - 1)

LEMMA KeptAre ==
  ASSUME NEW text \in Seq(Char)
  PROVE  LET w == Window(text)
         IN  /\ Len(KeptLines(text)) \in Nat /\ Len(KeptLines(text)) <= Len(Lines(w))
             /\ DOMAIN KeptLines(text) = 1..Len(KeptLines(text))
             /\ \A i \in 1..Len(KeptLines(text)) : KeptLines(text)[i] = LineAt(w, Starts(w)[i])
<1> DEFINE w == Window(text)
           lines == Lines(w)
           n == Len(lines)
           stop == HeaderEnd(lines)
<1>1. w \in Seq(Char)
  BY WindowIs
<1>2. /\ n \in Nat /\ DOMAIN lines = 1..n
      /\ \A i \in 1..n : lines[i] = LineAt(w, Starts(w)[i])
  BY <1>1, LinesAre
<1>3. stop = 0 \/ stop \in 1..n
  BY <1>2, HeaderEndIs
<1>4. KeptLines(text) = IF stop = 0 THEN lines ELSE SubSeq(lines, 1, stop - 1)
  BY DEF KeptLines
<1> HIDE DEF lines, stop
<1>5. CASE stop = 0
  BY <1>2, <1>4, <1>5 DEF lines
<1>6. CASE stop # 0
  <2>1. /\ Len(SubSeq(lines, 1, stop - 1)) = stop - 1
        /\ DOMAIN SubSeq(lines, 1, stop - 1) = 1..(stop - 1)
        /\ \A i \in 1..(stop - 1) : SubSeq(lines, 1, stop - 1)[i] = lines[i]
    BY <1>2, <1>3, <1>6
  <2> QED
    BY <1>2, <1>3, <1>4, <1>6, <2>1 DEF lines
<1> QED
  BY <1>5, <1>6

\* The new header is clean text and an empty line; a byte order mark that it starts
\* with was hidden in the mail.
LEMMA HeaderClean ==
  ASSUME NEW text \in Seq(Char)
  PROVE  \E head : /\ Clean(head) /\ Normalize(text).header = head \o CRLF
                   /\ head # <<>> /\ head[1] = "BOM" => HiddenBom(text)
<1> DEFINE w == Window(text)
           kept == KeptLines(text)
           n == Len(kept)
           new == [i \in DOMAIN kept |-> Rewritten(kept[i])]
           head == FlattenSeq(new)
<1>1. Normalize(text).header = head \o CRLF
  BY DEF Normalize, KeptLines
<1>2. /\ w \in Seq(Char) /\ Len(w) \in 0..Len(text) /\ Len(text) \in Nat
      /\ \A i \in 1..Len(w) : w[i] = text[i]
      /\ TextStart(w) = TextStart(text)
  BY WindowIs
<1>3. /\ n \in Nat /\ n <= Len(Lines(w)) /\ DOMAIN kept = 1..n
      /\ \A i \in 1..n : kept[i] = LineAt(w, Starts(w)[i])
  BY KeptAre
<1>4. /\ Len(Lines(w)) \in Nat
      /\ \A i \in 1..Len(Lines(w)) : Starts(w)[i] \in 1..Len(w)
  BY <1>2, LinesAre
<1>5. new = [i \in 1..n |-> Rewritten(kept[i])]
  BY <1>3
<1> HIDE DEF kept, n
<1>6. Len(new) = n /\ \A i \in 1..n : new[i] = Rewritten(kept[i])
  BY <1>3, <1>5
<1>7. ASSUME NEW i \in 1..n
      PROVE  /\ kept[i].text \in Seq(Char)
             /\ \A k \in 1..Len(kept[i].text) : kept[i].text[k] \notin Breaks
  <2> DEFINE p == Starts(w)[i]
  <2>1. p \in 1..Len(w) /\ kept[i] = LineAt(w, p)
    BY <1>3, <1>4
  <2> HIDE DEF p
  <2>2. /\ LineAt(w, p).text \in Seq(Char)
        /\ Len(LineAt(w, p).text) = LineEnd(w, p) - p
        /\ \A k \in 1..(LineEnd(w, p) - p) : LineAt(w, p).text[k] = w[p + k - 1]
    BY <1>2, <2>1, LineIs
  <2>3. /\ LineEnd(w, p) \in p..(Len(w) + 1)
        /\ \A k \in p..(LineEnd(w, p) - 1) : w[k] \notin Breaks
    BY <1>2, <2>1, LineEnds
  <2>4. \A k \in 1..(LineEnd(w, p) - p) : p + k - 1 \in p..(LineEnd(w, p) - 1)
    BY <1>2, <2>1, <2>3
  <2> QED
    BY <2>1, <2>2, <2>3, <2>4
<1>8. \A i \in 1..n :
        /\ Clean(Rewritten(kept[i])) /\ Rewritten(kept[i]) # <<>>
        /\ StripNul(kept[i].text) # <<>> => Rewritten(kept[i])[1] = StripNul(kept[i].text)[1]
        /\ StripNul(kept[i].text) = <<>> => Rewritten(kept[i])[1] = "CR"
  BY <1>7, RewrittenClean
<1>9. new = <<>> \/ Len(new) # 0
  BY <1>3, <1>5, <1>6
<1> HIDE DEF new
<1>10. Clean(head) /\ (head # <<>> => n # 0 /\ head[1] = new[1][1])
  BY <1>3, <1>6, <1>8, <1>9, CleanFlat
<1> HIDE DEF head
<1>11. ASSUME head # <<>>, head[1] = "BOM" PROVE HiddenBom(text)
  <2> DEFINE l == kept[1].text
             p == TextStart(w)
  <2>1. 1 \in 1..n
    BY <1>3, <1>10, <1>11
  <2>2. Starts(w)[1] = p
    BY <1>2, <1>3, <1>4, <2>1, FirstLine
  <2>3. p \in 1..Len(w) /\ kept[1] = LineAt(w, p)
    BY <1>3, <1>4, <2>1, <2>2
  <2>4. StripNul(l) # <<>> /\ StripNul(l)[1] = "BOM"
    BY <1>6, <1>8, <1>10, <1>11, <2>1
  <2>text. l \in Seq(Char)
    BY <1>7, <2>1
  <2>place. /\ Len(LineAt(w, p).text) = LineEnd(w, p) - p /\ LineEnd(w, p) \in p..(Len(w) + 1)
        /\ \A k \in 1..(LineEnd(w, p) - p) : LineAt(w, p).text[k] = w[p + k - 1]
    BY <1>2, <2>3, LineIs, LineEnds
  <2>same. l = LineAt(w, p).text
    BY <2>3
  <2> HIDE DEF p, l, w
  <2>5. PICK i \in 1..Len(l) : l[i] = "BOM" /\ \A j \in 1..(i - 1) : l[j] = "NUL"
    BY <2>text, <2>4, Stripped
  <2>6. /\ Len(l) = LineEnd(w, p) - p /\ LineEnd(w, p) \in p..(Len(w) + 1)
        /\ \A k \in 1..(LineEnd(w, p) - p) : l[k] = w[p + k - 1]
    BY <2>place, <2>same
  <2> DEFINE m == p + i - 1
  <2> HIDE DEF m
  <2>7. m \in p..Len(text) /\ text[m] = "BOM"
    <3>1. m \in p..Len(w) /\ i \in 1..(LineEnd(w, p) - p)
      BY <1>2, <2>3, <2>5, <2>6 DEF m
    <3>2. w[m] = "BOM"
      BY <2>5, <2>6, <3>1 DEF m
    <3> QED
      BY <1>2, <2>3, <3>1, <3>2
  <2>8. \A j \in p..(m - 1) : text[j] = "NUL"
    <3> SUFFICES ASSUME NEW j \in p..(m - 1) PROVE text[j] = "NUL"
      OBVIOUS
    <3>1. j - p + 1 \in 1..(i - 1) /\ j - p + 1 \in 1..(LineEnd(w, p) - p) /\ j \in 1..Len(w)
      BY <1>2, <2>3, <2>5, <2>6 DEF m
    <3>2. p + (j - p + 1) - 1 = j
      BY <2>3
    <3>3. l[j - p + 1] = w[j]
      BY <2>6, <3>1, <3>2
    <3> QED
      BY <1>2, <2>5, <3>1, <3>3
  <2>9. p = TextStart(text)
    BY <1>2 DEF p
  <2>10. \E k \in p..Len(text) : text[k] = "BOM" /\ \A j \in p..(k - 1) : text[j] = "NUL"
    BY <2>7, <2>8, Zenon
  <2> QED
    BY <2>9, <2>10, Zenon DEF HiddenBom
<1> QED
  BY <1>1, <1>10, <1>11

\* The next line begins behind this one.
LEMMA NextIs ==
  ASSUME NEW w \in Seq(Char), NEW p \in 1..Len(w)
  PROVE  /\ LineAt(w, p).next \in Nat /\ LineAt(w, p).next - 1 \in p..Len(w)
         /\ LineAt(w, p).next - 1 \in (LineEnd(w, p) - 1)..(LineEnd(w, p) + 1)
<1> DEFINE e == LineEnd(w, p)
           l == LineAt(w, p)
<1>1. /\ e \in p..(Len(w) + 1) /\ Len(w) \in Nat
      /\ e <= Len(w) => w[e] \in Breaks
  BY LineEnds
<1>2. l.ending = IF e > Len(w) THEN "none"
                ELSE IF e < Len(w) /\ w[e] = "CR" /\ w[e + 1] = "LF" THEN "CRLF"
                ELSE w[e]
  BY DEF LineAt
<1>3. l.next = e + (CASE l.ending = "none" -> 0 [] l.ending = "CRLF" -> 2 [] OTHER -> 1)
  BY DEF LineAt
<1> HIDE DEF e, l
<1>4. CASE e > Len(w)
  <2>1. l.next = e /\ e = Len(w) + 1
    BY <1>1, <1>2, <1>3, <1>4
  <2> QED
    BY <1>1, <2>1 DEF e, l
<1>5. CASE e < Len(w) /\ w[e] = "CR" /\ w[e + 1] = "LF"
  <2>1. l.next = e + 2
    BY <1>1, <1>2, <1>3, <1>5
  <2> QED
    BY <1>1, <1>5, <2>1 DEF e, l
<1>6. CASE e <= Len(w) /\ ~(e < Len(w) /\ w[e] = "CR" /\ w[e + 1] = "LF")
  <2>1. l.ending = "CR" \/ l.ending = "LF"
    BY <1>1, <1>2, <1>6 DEF Breaks
  <2>2. l.next = e + 1
    BY <1>3, <2>1
  <2> QED
    BY <1>1, <1>6, <2>2 DEF e, l
<1> QED
  BY <1>1, <1>4, <1>5, <1>6

\* Clean text and an empty line in front of anything: the inspector finds the
\* separator, and nothing that could be repaired but a byte order mark.
LEMMA CleanIsRead ==
  ASSUME NEW head, Clean(head), NEW rest \in Seq(Char)
  PROVE  LET read == InspectWindow((head \o CRLF) \o rest)
         IN  /\ read.separator /\ read.bytes <= Len(head) + 2
             /\ \/ read.reasons \cap Repairable = {}
                \/ /\ head # <<>> /\ head[1] = "BOM"
                   /\ read.reasons \cap Repairable = {"utf8-bom"}
<1> DEFINE w == (head \o CRLF) \o rest
           h == Len(head)
           z == h + 1
<1>1. /\ w \in Seq(Char) /\ h \in Nat /\ Len(w) \in Nat /\ h + 2 <= Len(w)
      /\ \A i \in 1..h : w[i] = head[i]
      /\ w[z] = "CR" /\ w[h + 2] = "LF"
  <2>1. head \in Seq(Char) /\ CRLF \in Seq(Char) /\ Len(CRLF) = 2
        /\ CRLF[1] = "CR" /\ CRLF[2] = "LF"
    BY LineBreak DEF Clean
  <2> DEFINE top == head \o CRLF
  <2>2. /\ top \in Seq(Char) /\ h \in Nat /\ Len(top) = h + Len(CRLF)
        /\ \A i \in 1..h : top[i] = head[i]
        /\ \A i \in 1..Len(CRLF) : top[h + i] = CRLF[i]
    BY <2>1, Joined
  <2> HIDE DEF top
  <2>3. /\ top \o rest \in Seq(Char) /\ Len(rest) \in Nat
        /\ Len(top \o rest) = Len(top) + Len(rest)
        /\ \A i \in 1..Len(top) : (top \o rest)[i] = top[i]
    BY <2>2, Joined
  <2>4. w = top \o rest
    BY DEF top
  <2> HIDE DEF w, h
  <2>5. 1 \in 1..Len(CRLF) /\ 2 \in 1..Len(CRLF)
    BY <2>1
  <2>6. top[h + 1] = "CR" /\ top[h + 2] = "LF"
    BY <2>1, <2>2, <2>5
  <2>7. Len(top) = h + 2 /\ h + 1 \in 1..Len(top) /\ h + 2 \in 1..Len(top)
    BY <2>1, <2>2
  <2>8. \A i \in 1..h : i \in 1..Len(top)
    BY <2>2, <2>7
  <2> QED
    BY <2>2, <2>3, <2>4, <2>6, <2>7, <2>8
<1> HIDE DEF w, h
<1>2. z \in LineStarts(w)
  <2>1. CASE h = 0
    <3>1. w[1] = "CR" /\ w # <<>>
      BY <1>1, <2>1
    <3>2. TextStart(w) = 1
      BY <3>1 DEF TextStart
    <3> QED
      BY <1>1, <2>1, <3>2 DEF LineStarts
  <2>2. CASE h # 0
    <3>1. head[h] = "LF" /\ h \in 1..h
      BY <1>1, <2>2 DEF Clean, h
    <3>2. w[z - 1] = "LF"
      BY <1>1, <3>1
    <3>3. TextStart(w) \in 1..2 /\ z \in 1..Len(w) /\ z >= 2
      BY <1>1, <2>2 DEF TextStart
    <3>4. z \in TextStart(w)..Len(w)
      BY <1>1, <3>3
    <3> QED
      BY <3>2, <3>4 DEF LineStarts
  <2> QED
    BY <2>1, <2>2
<1> DEFINE lines == Lines(w)
           blank == BlankLine(lines)
           section == IF blank = 0 THEN lines ELSE SubSeq(lines, 1, blank - 1)
           ended == IF blank = 0 THEN lines ELSE SubSeq(lines, 1, blank)
           start(i) == Starts(w)[i]
           n == Len(lines)
<1>3. /\ n \in Nat /\ DOMAIN lines = 1..n
      /\ \A i \in 1..n : start(i) \in 1..Len(w) /\ lines[i] = LineAt(w, start(i))
      /\ \A i, j \in 1..n : i < j => start(i) < start(j)
      /\ \E i \in 1..n : start(i) = z
  BY <1>1, <1>2, LinesAre
<1>4. PICK last \in 1..n : start(last) = z
  BY <1>3
<1> HIDE DEF start, lines, n
<1>5. z \in 1..Len(w) /\ w[z] \in Breaks
  BY <1>1 DEF Breaks
<1>6. lines[last].text = <<>>
  BY <1>1, <1>3, <1>4, <1>5, LineIs
<1>7. /\ blank \in 1..n /\ blank <= last
      /\ \A i \in 1..blank : start(i) <= z
      /\ \A i \in 1..(blank - 1) : start(i) < z
  <2>1. blank \in 1..n /\ \A i \in 1..(blank - 1) : lines[i].text # <<>>
    BY <1>3, <1>4, <1>6, BlankIs DEF n
  <2>2. blank <= last
    <3>1. ~(last \in 1..(blank - 1))
      BY <1>6, <2>1
    <3> QED
      BY <1>3, <1>4, <2>1, <3>1
  <2> HIDE DEF blank
  <2>3. ASSUME NEW i \in 1..blank PROVE start(i) <= z /\ (i < blank => start(i) < z)
    <3>1. i \in 1..n /\ (i = last \/ i < last)
      BY <1>3, <1>4, <2>1, <2>2, <2>3
    <3>2. i < last => start(i) < start(last)
      BY <1>3, <1>4, <3>1
    <3> QED
      BY <1>3, <1>4, <1>5, <2>1, <2>2, <3>1, <3>2
  <2>4. \A i \in 1..(blank - 1) : i \in 1..blank /\ i < blank
    BY <2>1, <1>3
  <2> QED
    BY <2>1, <2>2, <2>3, <2>4
<1> HIDE DEF blank
<1>8. /\ blank # 0
      /\ Len(section) = blank - 1 /\ Len(ended) = blank
      /\ DOMAIN section = 1..(blank - 1) /\ DOMAIN ended = 1..blank
      /\ \A i \in 1..(blank - 1) : section[i] = lines[i]
      /\ \A i \in 1..blank : ended[i] = lines[i]
  BY <1>3, <1>7
<1> HIDE DEF section, ended
<1>9. ASSUME NEW i \in 1..blank
      PROVE  /\ LineEnd(w, start(i)) <= z
             /\ lines[i] = LineAt(w, start(i)) /\ start(i) \in 1..Len(w)
  <2>1. i \in 1..n /\ start(i) \in 1..Len(w) /\ start(i) <= z
    BY <1>3, <1>7
  <2>2. z \in start(i)..Len(w)
    BY <1>5, <2>1
  <2> QED
    BY <1>1, <1>3, <1>5, <2>1, <2>2, LineEnds
<1>10. ASSUME NEW i \in 1..(blank - 1) PROVE "NUL" \notin ToSet(lines[i].text)
  <2> DEFINE p == start(i)
             e == LineEnd(w, p)
  <2>1. p \in 1..Len(w) /\ e <= z /\ lines[i] = LineAt(w, p)
    BY <1>7, <1>9
  <2> HIDE DEF p, e
  <2>2. /\ LineAt(w, p).text \in Seq(Char) /\ Len(LineAt(w, p).text) = e - p
        /\ \A k \in 1..(e - p) : LineAt(w, p).text[k] = w[p + k - 1]
        /\ e \in p..(Len(w) + 1)
    BY <1>1, <2>1, LineIs, LineEnds DEF e
  <2>3. ASSUME NEW k \in 1..(e - p) PROVE LineAt(w, p).text[k] # "NUL"
    <3>1. p + k - 1 \in 1..h
      BY <1>1, <2>1, <2>2
    <3>2. head[p + k - 1] # "NUL"
      BY <3>1 DEF Clean, h
    <3> QED
      BY <1>1, <2>2, <3>1, <3>2
  <2> QED
    BY <2>1, <2>2, <2>3 DEF ToSet
<1>11. ASSUME NEW i \in 1..blank PROVE lines[i].ending # "CR"
  <2> DEFINE p == start(i)
             e == LineEnd(w, p)
  <2>1. p \in 1..Len(w) /\ e <= z /\ lines[i] = LineAt(w, p)
    BY <1>9
  <2> HIDE DEF p, e
  <2> SUFFICES ASSUME LineAt(w, p).ending = "CR" PROVE FALSE
    BY <2>1
  <2>2. w[e] = "CR" /\ (e < Len(w) => w[e + 1] # "LF") /\ e \in p..(Len(w) + 1)
    BY <1>1, <2>1, LineIs, LineEnds DEF e
  <2>3. e \in 1..z /\ e < Len(w)
    BY <1>1, <2>1, <2>2
  <2>4. CASE e = z
    BY <1>1, <2>2, <2>3, <2>4
  <2>5. CASE e # z
    <3>1. e \in 1..h
      BY <1>1, <2>3, <2>5
    <3>2. head[e] = "CR"
      BY <1>1, <2>2, <3>1
    <3>3. e < h /\ head[e + 1] = "LF"
      BY <3>1, <3>2 DEF Clean, h
    <3>4. e + 1 \in 1..h
      BY <1>1, <3>1, <3>3
    <3> QED
      BY <1>1, <2>2, <2>3, <3>3, <3>4
  <2> QED
    BY <2>4, <2>5
<1>12. ReadLines(section).reasons \subseteq {"line-without-colon"}
  BY <1>7, <1>8, ReadReasons
<1>13. ~ \E l \in ToSet(section) : "NUL" \in ToSet(l.text)
  BY <1>8, <1>10 DEF ToSet
<1>14. ~ \E l \in ToSet(ended) : l.ending = "CR"
  BY <1>8, <1>11 DEF ToSet
<1>15. /\ InspectWindow(w).separator = (blank # 0)
       /\ InspectWindow(w).reasons =
            ReadLines(section).reasons
              \cup {r \in {"utf8-bom"} : TextStart(w) = 2}
              \cup {r \in {"nul-in-header"} : \E l \in ToSet(section) : "NUL" \in ToSet(l.text)}
              \cup {r \in {"bare-cr"} : \E l \in ToSet(ended) : l.ending = "CR"}
  BY DEF InspectWindow, section, ended, blank, lines
<1>16. InspectWindow(w).reasons \cap Repairable
         = {r \in {"utf8-bom"} : TextStart(w) = 2}
  BY <1>12, <1>13, <1>14, <1>15 DEF Repairable
<1>17. TextStart(w) = 2 => head # <<>> /\ head[1] = "BOM"
  <2> SUFFICES ASSUME TextStart(w) = 2 PROVE head # <<>> /\ head[1] = "BOM"
    OBVIOUS
  <2>1. w[1] = "BOM"
    BY DEF TextStart
  <2>2. h # 0
    BY <1>1, <2>1
  <2>3. 1 \in 1..h
    BY <1>1, <2>2
  <2>4. head[1] = "BOM"
    BY <1>1, <2>1, <2>3
  <2> QED
    BY <2>2, <2>4 DEF h
<1>18. InspectWindow(w).separator
  BY <1>8, <1>15, Zenon
<1>19. InspectWindow(w).bytes <= h + 2
  <2>1. blank \in 1..blank
    BY <1>7
  <2> DEFINE p == start(blank)
  <2>2. p \in 1..Len(w) /\ LineEnd(w, p) <= z /\ lines[blank] = LineAt(w, p)
    BY <1>9, <2>1
  <2> HIDE DEF p
  <2>3. LineAt(w, p).next - 1 \in (LineEnd(w, p) - 1)..(LineEnd(w, p) + 1)
    BY <1>1, <2>2, NextIs
  <2>4. LineEnd(w, p) \in Nat
    BY <1>1, <2>2, LineEnds
  <2>5. InspectWindow(w).bytes = lines[blank].next - 1
    BY <1>8 DEF InspectWindow, blank, lines
  <2> QED
    BY <1>1, <2>2, <2>3, <2>4, <2>5
<1> QED
  BY <1>16, <1>17, <1>18, <1>19 DEF w, h

\* Where the normalizer has nothing to change, the inspector has nothing to report that
\* could be repaired.
LEMMA UnchangedIsRead ==
  ASSUME NEW text \in Seq(Char), ~Normalize(text).changed
  PROVE  /\ Inspect(text).separator
         /\ Inspect(text).reasons \cap Repairable = {}
<1> DEFINE w == Window(text)
           lines == Lines(w)
           n == Len(lines)
           stop == HeaderEnd(lines)
           kept == IF stop = 0 THEN lines ELSE SubSeq(lines, 1, stop - 1)
           walked == IF stop = 0 THEN lines ELSE SubSeq(lines, 1, stop)
           blank == BlankLine(lines)
           section == IF blank = 0 THEN lines ELSE SubSeq(lines, 1, blank - 1)
           ended == IF blank = 0 THEN lines ELSE SubSeq(lines, 1, blank)
<1>1. w \in Seq(Char)
  BY WindowIs
<1>2. n \in Nat
  BY <1>1, LinesAre
<1>3. /\ TextStart(w) # 2
      /\ stop # 0 /\ lines[stop].text = <<>>
      /\ ~ \E l \in ToSet(kept) : "NUL" \in ToSet(l.text)
      /\ ~ \E l \in ToSet(walked) : l.ending \in Breaks
  BY DEF Normalize
<1>4. \A l : l.text = <<>> => EndsHeader(l)
  <2> SUFFICES ASSUME NEW l, l.text = <<>> PROVE EndsHeader(l)
    OBVIOUS
  <2>1. ToSet(l.text) = {}
    BY DEF ToSet
  <2> QED
    BY <2>1 DEF EndsHeader, IsHeaderLikeLine
<1>5. stop \in 1..n /\ \A i \in 1..(stop - 1) : ~EndsHeader(lines[i])
  BY <1>2, <1>3, HeaderEndIs
<1>6. blank = stop
  <2>1. blank \in 1..n /\ lines[blank].text = <<>> /\ \A i \in 1..(blank - 1) : lines[i].text # <<>>
    BY <1>2, <1>3, <1>5, BlankIs
  <2> HIDE DEF blank, stop, lines, n
  <2>2. ~(blank \in 1..(stop - 1)) /\ ~(stop \in 1..(blank - 1))
    BY <1>3, <1>4, <1>5, <2>1
  <2> QED
    BY <1>2, <1>5, <2>1, <2>2
<1>7. section = kept /\ ended = walked
  BY <1>6
<1>8. Len(section) \in Nat
  <2> HIDE DEF lines, n, stop, blank
  <2>1. Len(SubSeq(lines, 1, stop - 1)) = stop - 1
    BY <1>2, <1>5
  <2> QED
    BY <1>2, <1>3, <1>5, <1>6, <2>1
<1>9. ReadLines(section).reasons \subseteq {"line-without-colon"}
  BY <1>8, ReadReasons
<1>10. /\ Inspect(text).separator = (blank # 0)
       /\ Inspect(text).reasons =
            ReadLines(section).reasons
              \cup {r \in {"utf8-bom"} : TextStart(w) = 2}
              \cup {r \in {"nul-in-header"} : \E l \in ToSet(section) : "NUL" \in ToSet(l.text)}
              \cup {r \in {"bare-cr"} : \E l \in ToSet(ended) : l.ending = "CR"}
  BY DEF Inspect, InspectWindow
<1> HIDE DEF w, lines, n, stop, kept, walked, blank, section, ended
<1>11. ~ \E l \in ToSet(ended) : l.ending = "CR"
  BY <1>3, <1>7 DEF Breaks
<1>12. Inspect(text).reasons \cap Repairable = {}
  BY <1>3, <1>7, <1>9, <1>10, <1>11 DEF Repairable
<1>13. Inspect(text).separator
  BY <1>3, <1>6, <1>10, Zenon
<1> QED
  BY <1>12, <1>13

\* The second attempt reads the copy that the normalizer made.
InputInv ==
  /\ file \in Files /\ attempt \in {1, 2}
  /\ attempt = 2 => input = NormalizedCopy(file.text)

LEMMA InputInvariance == Spec => []InputInv
<1>1. Init => InputInv
  BY DEF Init, InputInv
<1>2. InputInv /\ [Next]_vars => InputInv'
  <2> SUFFICES ASSUME InputInv, [Next]_vars PROVE InputInv'
    OBVIOUS
  <2>1. CASE FailAttempt
    BY <2>1 DEF FailAttempt, Retry, GiveUp, InputInv
  <2>2. CASE UNCHANGED <<file, attempt, input>>
    BY <2>2 DEF InputInv
  <2>3. CASE ReadHeader
    BY <2>2, <2>3 DEF ReadHeader
  <2>4. CASE CallFails \/ Reject
    BY <2>1, <2>4 DEF CallFails, Reject
  <2>5. CASE \E flags \in SUBSET {"UNSENT"},
               delivery, submit \in ConverterDates \cup {NoDate},
               keepsSubject \in BOOLEAN, parts \in 0..file.parts :
               Convert(flags, delivery, submit, keepsSubject, parts)
    BY <2>2, <2>5 DEF Convert
  <2>6. CASE ApplyMessageState \/ ApplyDatePolicy \/ Save \/ Accept
    BY <2>2, <2>6 DEF ApplyMessageState, ApplyDatePolicy, Save, Accept
  <2>7. CASE UNCHANGED vars
    BY <2>2, <2>7 DEF vars
  <2> QED
    BY <2>3, <2>4, <2>5, <2>6, <2>7 DEF Next
<1> QED
  BY <1>1, <1>2, PTL DEF Spec

\* Where the body begins for the normalizer.
LEMMA BodyBegins ==
  ASSUME NEW text \in Seq(Char)
  PROVE  Normalize(text).body \in 0..Len(Window(text))
<1> DEFINE w == Window(text)
           lines == Lines(w)
           stop == HeaderEnd(lines)
<1>1. w \in Seq(Char) /\ Len(w) \in 0..Len(text) /\ Len(text) \in Nat
  BY WindowIs
<1>2. Normalize(text).body = BodyStart(w, lines, stop)
  BY DEF Normalize
<1>3. CASE stop = 0
  <2>1. BodyStart(w, lines, stop) = Len(w)
    BY <1>3 DEF BodyStart
  <2> QED
    BY <1>1, <1>2, <2>1
<1>4. CASE stop # 0
  <2>1. stop \in 1..Len(lines) /\ Len(lines) \in Nat
    BY <1>1, <1>4, LinesAre, HeaderEndIs
  <2>2. lines[stop] = LineAt(w, Starts(w)[stop]) /\ Starts(w)[stop] \in 1..Len(w)
    BY <1>1, <2>1, LinesAre
  <2> DEFINE p == Starts(w)[stop]
  <2>3. /\ LineAt(w, p).first = p /\ LineAt(w, p).next - 1 \in p..Len(w)
    BY <1>1, <2>2, LineIs, NextIs
  <2> HIDE DEF p, lines, w, stop
  <2>4. Normalize(text).body \in {LineAt(w, p).next - 1, LineAt(w, p).first - 1}
    BY <1>2, <1>4, <2>2 DEF BodyStart, p
  <2>5. p \in 1..Len(w)
    BY <2>2 DEF p
  <2>6. LineAt(w, p).next - 1 \in 0..Len(w) /\ LineAt(w, p).first - 1 \in 0..Len(w)
    BY <1>1, <2>3, <2>5
  <2>7. Normalize(text).body \in 0..Len(w)
    BY <2>4, <2>6
  <2> QED
    BY <2>7 DEF w
<1> QED
  BY <1>3, <1>4, Zenon

\* A text is a text over every larger set of characters.
LEMMA Widened ==
  ASSUME NEW S, NEW T, NEW s \in Seq(S), S \subseteq T
  PROVE  s \in Seq(T)
<1>1. Len(s) \in Nat /\ s \in [1..Len(s) -> S]
  OBVIOUS
<1>2. s \in [1..Len(s) -> T]
  BY <1>1
<1> QED
  BY <1>1, <1>2

\* A text of the instance is a text.
LEMMA TextOf == ASSUME NEW f \in Files PROVE f.text \in Seq(Char)
<1>1. f.text \in Seq(STRING)
  BY FilesAssumption DEF FileShape
<1>2. STRING \subseteq Char
  BY DEF Char
<1> QED
  BY <1>1, <1>2, Widened

\* Whatever the mail, in the second attempt nothing is left of what the inspector
\* reports and the normalizer may repair, but a byte order mark that NULs hid; and a
\* mail that is preserved without a copy, because nothing is to be changed, had nothing
\* of it.
THEOREM RepairsEverything == Spec => []RepairsWhatIsReported
<1>1. InputInv => RepairsWhatIsReported
  <2> SUFFICES ASSUME InputInv PROVE RepairsWhatIsReported
    OBVIOUS
  <2> DEFINE text == file.text
             rest == SubSeq(text, Normalize(text).body + 1, Len(text))
  <2>1. text \in Seq(Char)
    BY TextOf DEF InputInv
  <2>2. ASSUME attempt = 2
        PROVE  /\ InspectWindow(input).separator
               /\ \/ InspectWindow(input).reasons \cap Repairable = {}
                  \/ /\ HiddenBom(text)
                     /\ InspectWindow(input).reasons \cap Repairable = {"utf8-bom"}
    <3>1. PICK head : /\ Clean(head) /\ Normalize(text).header = head \o CRLF
                      /\ head # <<>> /\ head[1] = "BOM" => HiddenBom(text)
      BY <2>1, HeaderClean
    <3>2. input = (head \o CRLF) \o rest
      BY <2>2, <3>1 DEF InputInv, NormalizedCopy
    <3>3. rest \in Seq(Char)
      <4>1. Normalize(text).body \in 0..Len(text)
        BY <2>1, BodyBegins, WindowIs
      <4> QED
        BY <2>1, <4>1
    <3> HIDE DEF rest
    <3>4. /\ InspectWindow(input).separator
          /\ \/ InspectWindow(input).reasons \cap Repairable = {}
             \/ /\ head # <<>> /\ head[1] = "BOM"
                /\ InspectWindow(input).reasons \cap Repairable = {"utf8-bom"}
      BY <3>1, <3>2, <3>3, CleanIsRead
    <3> QED
      BY <3>1, <3>4
  <2>3. ASSUME ~Normalize(text).changed
        PROVE  Inspect(text).separator /\ Inspect(text).reasons \cap Repairable = {}
    BY <2>1, <2>3, UnchangedIsRead
  <2> QED
    BY <2>2, <2>3 DEF RepairsWhatIsReported
<1> QED
  BY <1>1, InputInvariance, PTL

-----------------------------------------------------------------------------
(* What is left of a text without some characters *)

\* An ascending enumeration of a set of positions is InOrder.
LEMMA OneOrder ==
  ASSUME NEW n \in Nat, NEW S \in SUBSET (1..n), NEW m \in Nat, NEW f \in [1..m -> S],
         \A j, k \in 1..m : j < k => f[j] < f[k],
         \A p \in S : \E k \in 1..m : f[k] = p
  PROVE  m = Cardinality(S) /\ InOrder(S) = f
<1> DEFINE c == Cardinality(S)
           g == InOrder(S)
<1>1. /\ c \in Nat /\ g \in [1..c -> S]
      /\ \A j, k \in 1..c : j < k => g[j] < g[k]
      /\ \A p \in S : \E k \in 1..c : g[k] = p
  BY Enumerates
<1> HIDE DEF c, g
<1>2. /\ \A k \in 1..m : f[k] \in S /\ f[k] \in Nat
      /\ \A k \in 1..c : g[k] \in S /\ g[k] \in Nat
  <2>1. \A p \in S : p \in Nat
    OBVIOUS
  <2>2. \A k \in 1..m : f[k] \in S
    OBVIOUS
  <2>3. \A k \in 1..c : g[k] \in S
    BY <1>1
  <2> QED
    BY <2>1, <2>2, <2>3
<1> DEFINE D == {k \in 1..m : ~(k \in 1..c /\ g[k] = f[k])}
<1>3. D = {}
  <2> SUFFICES ASSUME D # {} PROVE FALSE
    OBVIOUS
  <2>1. D \in SUBSET Nat
    OBVIOUS
  <2>2. Min(D) \in D /\ \A k \in D : Min(D) <= k
    BY <2>1, Least
  <2> DEFINE d == Min(D)
  <2> HIDE DEF d
  <2>3. d \in 1..m /\ ~(d \in 1..c /\ g[d] = f[d]) /\ \A k \in D : d <= k
    BY <2>2 DEF d
  <2>4. \A k \in 1..(d - 1) : k \in 1..m /\ k \in 1..c /\ g[k] = f[k]
    <3> SUFFICES ASSUME NEW k \in 1..(d - 1) PROVE k \in 1..m /\ k \in 1..c /\ g[k] = f[k]
      OBVIOUS
    <3>1. k \in 1..m /\ k \notin D
      BY <2>3
    <3> QED
      BY <3>1
  <2> HIDE DEF D
  <2>5. PICK e \in 1..c : g[e] = f[d]
    BY <1>1, <1>2, <2>3
  <2>6. ~(e < d)
    <3> SUFFICES ASSUME e < d PROVE FALSE
      OBVIOUS
    <3>1. e \in 1..(d - 1)
      BY <1>1, <2>3
    <3>2. f[e] < f[d] /\ g[e] = f[e] /\ f[e] \in Nat
      BY <1>2, <2>3, <2>4, <3>1
    <3> QED
      BY <2>5, <3>2
  <2>7. d \in 1..c
    BY <1>1, <2>3, <2>6
  <2>8. PICK h \in 1..m : f[h] = g[d]
    BY <1>1, <1>2, <2>7
  <2>9. ~(h < d)
    <3> SUFFICES ASSUME h < d PROVE FALSE
      OBVIOUS
    <3>1. h \in 1..(d - 1)
      BY <2>3
    <3>2. g[h] < g[d] /\ g[h] = f[h] /\ g[h] \in Nat
      BY <1>1, <1>2, <2>4, <2>7, <3>1
    <3> QED
      BY <2>8, <3>2
  <2>10. e # d /\ h # d
    BY <2>3, <2>5, <2>7, <2>8
  <2>11. d < e /\ d < h
    BY <1>1, <2>3, <2>6, <2>9, <2>10
  <2>12. g[d] < g[e] /\ f[d] < f[h]
    BY <1>1, <2>3, <2>7, <2>11
  <2>13. g[d] \in Nat /\ f[d] \in Nat
    BY <1>2, <2>3, <2>7
  <2> QED
    BY <2>5, <2>8, <2>12, <2>13
<1>4. \A k \in 1..m : k \in 1..c /\ g[k] = f[k]
  BY <1>3
<1> HIDE DEF D
<1>5. m <= c
  BY <1>1, <1>4
<1>6. ~(m < c)
  <2> SUFFICES ASSUME m < c PROVE FALSE
    OBVIOUS
  <2>1. m + 1 \in 1..c
    BY <1>1
  <2>2. PICK e \in 1..m : f[e] = g[m + 1]
    BY <1>2, <2>1
  <2>3. e \in 1..c /\ g[e] = f[e] /\ e < m + 1
    BY <1>4
  <2>4. g[e] < g[m + 1] /\ g[e] \in Nat
    BY <1>1, <1>2, <2>1, <2>3
  <2> QED
    BY <2>2, <2>3, <2>4
<1>7. m = c
  BY <1>1, <1>5, <1>6
<1>8. g = f
  BY <1>1, <1>4, <1>7
<1> QED
  BY <1>7, <1>8 DEF c, g

\* The positions of a text that hold none of X.
Others(text, X) == {i \in DOMAIN text : text[i] \notin X}

LEMMA OthersAre ==
  ASSUME NEW text \in Seq(Char), NEW X
  PROVE  LET S == Others(text, X)
             o == InOrder(S)
             c == Cardinality(S)
         IN  /\ S \in SUBSET (1..Len(text)) /\ c \in Nat /\ o \in [1..c -> S]
             /\ \A j, k \in 1..c : j < k => o[j] < o[k]
             /\ \A p \in S : \E k \in 1..c : o[k] = p
             /\ Without(text, X) = [k \in 1..c |-> text[o[k]]]
             /\ Without(text, X) \in Seq(Char) /\ Len(Without(text, X)) = c
<1> DEFINE S == Others(text, X)
           o == InOrder(S)
           c == Cardinality(S)
<1>1. Len(text) \in Nat /\ S \in SUBSET (1..Len(text)) /\ \A i \in S : text[i] \in Char
  BY DEF Others
<1> HIDE DEF S
<1>2. /\ c \in Nat /\ o \in [1..c -> S]
      /\ \A j, k \in 1..c : j < k => o[j] < o[k]
      /\ \A p \in S : \E k \in 1..c : o[k] = p
  BY <1>1, Enumerates
<1> HIDE DEF c
<1>3. Without(text, X) = [k \in DOMAIN o |-> text[o[k]]]
  BY DEF Without, S, Others
<1> HIDE DEF o
<1>4. Without(text, X) = [k \in 1..c |-> text[o[k]]]
  BY <1>2, <1>3
<1>5. Without(text, X) \in Seq(Char) /\ Len(Without(text, X)) = c
  <2>1. \A k \in 1..c : text[o[k]] \in Char
    BY <1>1, <1>2
  <2> QED
    BY <1>2, <1>4, <2>1
<1> QED
  BY <1>1, <1>2, <1>4, <1>5 DEF S, o, c

\* f has them in their order.
InTurn(f, m, text, X) ==
  /\ m \in Nat /\ f \in [1..m -> Others(text, X)]
  /\ \A j, k \in 1..m : j < k => f[j] < f[k]
  /\ \A p \in Others(text, X) : \E k \in 1..m : f[k] = p

\* There is one such order.
LEMMA WithoutIs ==
  ASSUME NEW text \in Seq(Char), NEW X, NEW m, NEW f, InTurn(f, m, text, X)
  PROVE  /\ Without(text, X) \in Seq(Char) /\ Len(Without(text, X)) = m
         /\ \A k \in 1..m : Without(text, X)[k] = text[f[k]]
<1> DEFINE S == Others(text, X)
<1>1. /\ S \in SUBSET (1..Len(text)) /\ Len(text) \in Nat
      /\ Without(text, X) = [k \in 1..Cardinality(S) |-> text[InOrder(S)[k]]]
      /\ Without(text, X) \in Seq(Char) /\ Len(Without(text, X)) = Cardinality(S)
  BY OthersAre
<1>2. /\ m \in Nat /\ f \in [1..m -> S]
      /\ \A j, k \in 1..m : j < k => f[j] < f[k]
      /\ \A p \in S : \E k \in 1..m : f[k] = p
  BY DEF S, InTurn
<1> HIDE DEF S
<1> DEFINE n == Len(text)
<1> HIDE DEF n
<1>3. n \in Nat /\ S \in SUBSET (1..n)
  BY <1>1 DEF n
<1>4. m = Cardinality(S) /\ InOrder(S) = f
  BY <1>2, <1>3, OneOrder
<1> QED
  BY <1>1, <1>4

\* Of two texts, one after the other, it is what is left of each.
LEMMA WithoutJoined ==
  ASSUME NEW a \in Seq(Char), NEW b \in Seq(Char), NEW X
  PROVE  Without(a \o b, X) = Without(a, X) \o Without(b, X)
<1> DEFINE A == Others(a, X)
           B == Others(b, X)
           f == InOrder(A)
           g == InOrder(B)
           m == Cardinality(A)
           n == Cardinality(B)
           t == a \o b
           S == Others(t, X)
           la == Len(a)
           lb == Len(b)
<1>1. /\ A \in SUBSET (1..la) /\ m \in Nat /\ f \in [1..m -> A]
      /\ \A j, k \in 1..m : j < k => f[j] < f[k]
      /\ \A p \in A : \E k \in 1..m : f[k] = p
      /\ Without(a, X) = [k \in 1..m |-> a[f[k]]]
      /\ Without(a, X) \in Seq(Char) /\ Len(Without(a, X)) = m
  BY OthersAre
<1>2. /\ B \in SUBSET (1..lb) /\ n \in Nat /\ g \in [1..n -> B]
      /\ \A j, k \in 1..n : j < k => g[j] < g[k]
      /\ \A p \in B : \E k \in 1..n : g[k] = p
      /\ Without(b, X) = [k \in 1..n |-> b[g[k]]]
      /\ Without(b, X) \in Seq(Char) /\ Len(Without(b, X)) = n
  BY OthersAre
<1>3. /\ t \in Seq(Char) /\ la \in Nat /\ lb \in Nat /\ Len(t) = la + lb
      /\ \A i \in 1..la : t[i] = a[i]
      /\ \A i \in 1..lb : t[la + i] = b[i]
  BY Joined
<1>4. /\ \A i \in A : i \in 1..la /\ a[i] \notin X
      /\ \A i \in 1..la : a[i] \notin X => i \in A
      /\ \A i \in B : i \in 1..lb /\ b[i] \notin X
      /\ \A i \in 1..lb : b[i] \notin X => i \in B
      /\ \A i \in S : i \in 1..(la + lb) /\ t[i] \notin X
      /\ \A i \in 1..(la + lb) : t[i] \notin X => i \in S
  BY <1>3 DEF Others
<1> HIDE DEF A, B, f, g, m, n, t, S, la, lb
<1> DEFINE h == [k \in 1..(m + n) |-> IF k <= m THEN f[k] ELSE la + g[k - m]]
<1>5. \A k \in 1..m : f[k] \in 1..la /\ f[k] \in A /\ k \in 1..(m + n) /\ h[k] = f[k]
  <2> SUFFICES ASSUME NEW k \in 1..m
               PROVE  f[k] \in 1..la /\ f[k] \in A /\ k \in 1..(m + n) /\ h[k] = f[k]
    OBVIOUS
  <2>1. k \in 1..(m + n) /\ k <= m
    BY <1>1, <1>2
  <2>2. f[k] \in A
    BY <1>1
  <2> QED
    BY <1>4, <2>1, <2>2
<1>6. \A k \in 1..n : /\ g[k] \in 1..lb /\ g[k] \in B
                      /\ m + k \in 1..(m + n) /\ h[m + k] = la + g[k]
  <2> SUFFICES ASSUME NEW k \in 1..n
               PROVE  /\ g[k] \in 1..lb /\ g[k] \in B
                      /\ m + k \in 1..(m + n) /\ h[m + k] = la + g[k]
    OBVIOUS
  <2>1. m + k \in 1..(m + n) /\ ~(m + k <= m) /\ (m + k) - m = k
    BY <1>1, <1>2
  <2>2. g[k] \in B
    BY <1>2
  <2> QED
    BY <1>4, <2>1, <2>2
<1>7. \A k \in 1..(m + n) : k \in 1..m \/ \E j \in 1..n : k = m + j
  <2> SUFFICES ASSUME NEW k \in 1..(m + n), k \notin 1..m PROVE \E j \in 1..n : k = m + j
    OBVIOUS
  <2>1. k - m \in 1..n /\ k = m + (k - m)
    BY <1>1, <1>2
  <2> QED
    BY <2>1
<1>8. DOMAIN h = 1..(m + n)
  OBVIOUS
<1> DEFINE u == Without(t, X)
<1> HIDE DEF h
<1>9. h \in [1..(m + n) -> S]
  <2>1. ASSUME NEW k \in 1..(m + n) PROVE h[k] \in S
    <3>1. CASE k \in 1..m
      <4>1. h[k] \in 1..la /\ h[k] \in A
        BY <1>5, <3>1
      <4>2. h[k] \in 1..(la + lb) /\ t[h[k]] \notin X
        BY <1>3, <1>4, <4>1
      <4> QED
        BY <1>4, <4>2
    <3>2. CASE \E j \in 1..n : k = m + j
      <4>1. PICK j \in 1..n : k = m + j
        BY <3>2
      <4>2. h[k] = la + g[j] /\ g[j] \in 1..lb /\ g[j] \in B
        BY <1>6, <4>1
      <4>3. h[k] \in 1..(la + lb) /\ t[h[k]] = b[g[j]] /\ b[g[j]] \notin X
        BY <1>3, <1>4, <4>2
      <4> QED
        BY <1>4, <4>3
    <3> QED
      BY <1>7, <3>1, <3>2
  <2> QED
    BY <1>8, <2>1, Zenon DEF h
<1>10. \A j, k \in 1..(m + n) : j < k => h[j] < h[k]
  <2> SUFFICES ASSUME NEW j \in 1..(m + n), NEW k \in 1..(m + n), j < k PROVE h[j] < h[k]
    OBVIOUS
  <2>1. CASE j \in 1..m /\ k \in 1..m
    BY <1>1, <1>5, <2>1
  <2>2. CASE j \in 1..m /\ \E i \in 1..n : k = m + i
    <3>1. PICK i \in 1..n : k = m + i
      BY <2>2
    <3>2. h[j] = f[j] /\ f[j] \in 1..la /\ h[k] = la + g[i] /\ g[i] \in 1..lb
      BY <1>5, <1>6, <2>2, <3>1
    <3> QED
      BY <1>3, <3>2
  <2>3. CASE (\E i \in 1..n : j = m + i) /\ (\E i \in 1..n : k = m + i)
    <3>1. PICK i \in 1..n : j = m + i
      BY <2>3
    <3>2. PICK l \in 1..n : k = m + l
      BY <2>3
    <3>3. i < l
      BY <1>1, <3>1, <3>2
    <3>4. g[i] < g[l] /\ g[i] \in 1..lb /\ g[l] \in 1..lb
      BY <1>2, <1>6, <3>3
    <3>5. h[j] = la + g[i] /\ h[k] = la + g[l]
      BY <1>6, <3>1, <3>2
    <3> QED
      BY <1>3, <3>4, <3>5
  <2>4. ~((\E i \in 1..n : j = m + i) /\ k \in 1..m)
    BY <1>1, <1>2
  <2> QED
    BY <1>7, <2>1, <2>2, <2>3, <2>4
<1>11. \A p \in S : \E k \in 1..(m + n) : h[k] = p
  <2> SUFFICES ASSUME NEW p \in S PROVE \E k \in 1..(m + n) : h[k] = p
    OBVIOUS
  <2>1. p \in 1..(la + lb) /\ t[p] \notin X
    BY <1>4
  <2>2. CASE p <= la
    <3>1. p \in 1..la
      BY <1>3, <2>1, <2>2
    <3>2. p \in A
      BY <1>3, <1>4, <2>1, <3>1
    <3>3. PICK k \in 1..m : f[k] = p
      BY <1>1, <3>2
    <3> QED
      BY <1>5, <3>3
  <2>3. CASE ~(p <= la)
    <3>1. p - la \in 1..lb /\ la + (p - la) = p
      BY <1>3, <2>1, <2>3
    <3>2. b[p - la] \notin X
      BY <1>3, <2>1, <3>1
    <3>3. PICK k \in 1..n : g[k] = p - la
      BY <1>2, <1>4, <3>1, <3>2
    <3>4. h[m + k] = p /\ m + k \in 1..(m + n)
      BY <1>6, <3>1, <3>3
    <3> QED
      BY <3>4
  <2> QED
    BY <2>2, <2>3
<1>12. m + n \in Nat
  BY <1>1, <1>2
<1>13. /\ u \in Seq(Char) /\ Len(u) = m + n
       /\ \A k \in 1..(m + n) : u[k] = t[h[k]]
  <2>1. InTurn(h, m + n, t, X)
    BY <1>9, <1>10, <1>11, <1>12 DEF S, InTurn
  <2> HIDE DEF h
  <2>2. t \in Seq(Char)
    BY <1>3
  <2> QED
    BY <2>1, <2>2, WithoutIs DEF u
<1> HIDE DEF u
<1> DEFINE v == Without(a, X) \o Without(b, X)
<1>14. /\ v \in Seq(Char) /\ Len(v) = m + n
       /\ \A k \in 1..m : v[k] = Without(a, X)[k]
       /\ \A k \in 1..n : v[m + k] = Without(b, X)[k]
  BY <1>1, <1>2, Joined
<1> HIDE DEF v
<1>15. \A k \in 1..(m + n) : u[k] = v[k]
  <2> SUFFICES ASSUME NEW k \in 1..(m + n) PROVE t[h[k]] = v[k]
    BY <1>13
  <2>1. CASE k \in 1..m
    <3>1. h[k] = f[k] /\ f[k] \in 1..la /\ v[k] = a[f[k]]
      BY <1>1, <1>5, <1>14, <2>1
    <3> QED
      BY <1>3, <3>1
  <2>2. CASE \E j \in 1..n : k = m + j
    <3>1. PICK j \in 1..n : k = m + j
      BY <2>2
    <3>2. h[k] = la + g[j] /\ g[j] \in 1..lb /\ v[k] = b[g[j]]
      BY <1>2, <1>6, <1>14, <3>1
    <3> QED
      BY <1>3, <3>2
  <2> QED
    BY <1>7, <2>1, <2>2
<1>16. u = v
  BY <1>12, <1>13, <1>14, <1>15
<1> QED
  BY <1>16 DEF t, u, v

\* Nothing is left of a text that is made of X.
LEMMA WithoutAll ==
  ASSUME NEW text \in Seq(Char), NEW X, \A i \in 1..Len(text) : text[i] \in X
  PROVE  Without(text, X) = <<>>
<1>1. Others(text, X) = {}
  BY DEF Others
<1>2. Cardinality(Others(text, X)) = 0
  BY <1>1, FS_EmptySet
<1>3. Without(text, X) \in Seq(Char) /\ Len(Without(text, X)) = 0
  BY <1>2, OthersAre
<1> QED
  BY <1>3

\* What is left out once need not be left out again.
LEMMA WithoutTwice ==
  ASSUME NEW text \in Seq(Char), NEW X, NEW Y, Y \subseteq X
  PROVE  Without(Without(text, Y), X) = Without(text, X)
<1> DEFINE A == Others(text, Y)
           f == InOrder(A)
           m == Cardinality(A)
           u == Without(text, Y)
           B == Others(u, X)
           g == InOrder(B)
           n == Cardinality(B)
           l == Len(text)
           v == Without(u, X)
<1>1. /\ A \in SUBSET (1..l) /\ m \in Nat /\ f \in [1..m -> A]
      /\ \A j, k \in 1..m : j < k => f[j] < f[k]
      /\ \A p \in A : \E k \in 1..m : f[k] = p
      /\ u = [k \in 1..m |-> text[f[k]]]
      /\ u \in Seq(Char) /\ Len(u) = m
  BY OthersAre
<1> HIDE DEF u
<1>2. /\ B \in SUBSET (1..Len(u)) /\ n \in Nat /\ g \in [1..n -> B]
      /\ \A j, k \in 1..n : j < k => g[j] < g[k]
      /\ \A p \in B : \E k \in 1..n : g[k] = p
      /\ v = [k \in 1..n |-> u[g[k]]]
      /\ v \in Seq(Char) /\ Len(v) = n
  BY <1>1, OthersAre
<1>3. /\ \A i \in A : i \in 1..l /\ text[i] \notin Y
      /\ \A i \in 1..l : text[i] \notin Y => i \in A
      /\ \A i \in B : i \in 1..m /\ u[i] \notin X
      /\ \A i \in 1..m : u[i] \notin X => i \in B
      /\ \A i \in Others(text, X) : i \in 1..l /\ text[i] \notin X
      /\ \A i \in 1..l : text[i] \notin X => i \in Others(text, X)
  BY <1>1 DEF Others
<1>4. l \in Nat
  OBVIOUS
<1> HIDE DEF A, f, m, B, g, n, l, v
<1> DEFINE h == [k \in 1..n |-> f[g[k]]]
<1>5. \A k \in 1..n : g[k] \in 1..m /\ u[g[k]] \notin X
  BY <1>2, <1>3
<1>6. \A k \in 1..m : f[k] \in 1..l /\ u[k] = text[f[k]]
  BY <1>1, <1>3
<1>7. h \in [1..n -> Others(text, X)]
  <2> SUFFICES ASSUME NEW k \in 1..n PROVE f[g[k]] \in Others(text, X)
    OBVIOUS
  <2> QED
    BY <1>3, <1>5, <1>6
<1>8. \A j, k \in 1..n : j < k => h[j] < h[k]
  BY <1>1, <1>2, <1>5
<1>9. \A p \in Others(text, X) : \E k \in 1..n : h[k] = p
  <2> SUFFICES ASSUME NEW p \in Others(text, X) PROVE \E k \in 1..n : h[k] = p
    OBVIOUS
  <2>1. p \in A /\ text[p] \notin X
    BY <1>3
  <2>2. PICK j \in 1..m : f[j] = p
    BY <1>1, <2>1
  <2>3. j \in B
    BY <1>3, <1>6, <2>1, <2>2
  <2>4. PICK k \in 1..n : g[k] = j
    BY <1>2, <2>3
  <2> QED
    BY <2>2, <2>4
<1>10. InTurn(h, n, text, X)
  BY <1>2, <1>7, <1>8, <1>9 DEF InTurn
<1>11. /\ Without(text, X) \in Seq(Char) /\ Len(Without(text, X)) = n
       /\ \A k \in 1..n : Without(text, X)[k] = text[h[k]]
  BY <1>10, WithoutIs
<1>12. \A k \in 1..n : v[k] = text[h[k]]
  BY <1>2, <1>5, <1>6
<1>13. Without(text, X) = v
  BY <1>2, <1>11, <1>12
<1> QED
  BY <1>13 DEF v, u

NoWords == {"CR", "LF", "NUL", "BOM"}

\* The words of two texts, of what is no word, and of a line that is written anew.
LEMMA WordsJoined ==
  ASSUME NEW a \in Seq(Char), NEW b \in Seq(Char)
  PROVE  Words(a \o b) = Words(a) \o Words(b)
  BY WithoutJoined DEF Words

LEMMA WordsAre ==
  ASSUME NEW a \in Seq(Char)
  PROVE  /\ Words(a) \in Seq(Char)
         /\ (\A i \in 1..Len(a) : a[i] \in NoWords) => Words(a) = <<>>
         /\ Words(StripNul(a)) = Words(a)
<1>1. Words(a) \in Seq(Char)
  BY OthersAre DEF Words
<1>2. ASSUME \A i \in 1..Len(a) : a[i] \in NoWords PROVE Words(a) = <<>>
  BY <1>2, WithoutAll DEF Words, NoWords
<1>3. {"NUL"} \subseteq NoWords
  BY DEF NoWords
<1>4. Words(StripNul(a)) = Words(a)
  BY <1>3, WithoutTwice DEF Words, NoWords, StripNul
<1> QED
  BY <1>1, <1>2, <1>4

LEMMA RewrittenWords ==
  ASSUME NEW l, l.text \in Seq(Char)
  PROVE  Words(Rewritten(l)) = Words(l.text)
<1>1. StripNul(l.text) \in Seq(Char) /\ CRLF \in Seq(Char)
  BY Stripped, LineBreak
<1>2. Words(Rewritten(l)) = Words(StripNul(l.text)) \o Words(CRLF)
  BY <1>1, WordsJoined DEF Rewritten
<1>3. \A i \in 1..Len(CRLF) : CRLF[i] \in NoWords
  BY LineBreak DEF NoWords
<1>4. Words(CRLF) = <<>>
  BY <1>1, <1>3, WordsAre
<1>5. Words(StripNul(l.text)) = Words(l.text) /\ Words(l.text) \in Seq(Char)
  BY WordsAre
<1> QED
  BY <1>2, <1>4, <1>5

\* A text and its two parts.
LEMMA Cut ==
  ASSUME NEW t \in Seq(Char), NEW i \in 0..Len(t), NEW k \in i..Len(t)
  PROVE  /\ SubSeq(t, 1, i) \in Seq(Char) /\ SubSeq(t, i + 1, k) \in Seq(Char)
         /\ SubSeq(t, 1, k) = SubSeq(t, 1, i) \o SubSeq(t, i + 1, k)
         /\ Words(SubSeq(t, 1, k)) = Words(SubSeq(t, 1, i)) \o Words(SubSeq(t, i + 1, k))
<1>1. Len(t) \in Nat /\ i \in Nat /\ k \in Nat
  OBVIOUS
<1> DEFINE a == SubSeq(t, 1, i)
           b == SubSeq(t, i + 1, k)
           c == SubSeq(t, 1, k)
<1>2. /\ a \in Seq(Char) /\ Len(a) = i /\ \A j \in 1..i : a[j] = t[j]
      /\ b \in Seq(Char) /\ Len(b) = k - i /\ \A j \in 1..(k - i) : b[j] = t[i + j]
      /\ c \in Seq(Char) /\ Len(c) = k /\ \A j \in 1..k : c[j] = t[j]
  <2>1. a \in Seq(Char) /\ Len(a) = i /\ \A j \in 1..i : a[j] = t[j]
    BY <1>1
  <2>2. c \in Seq(Char) /\ Len(c) = k /\ \A j \in 1..k : c[j] = t[j]
    BY <1>1
  <2>3. b \in Seq(Char) /\ Len(b) = k - i
    BY <1>1
  <2>4. \A j \in 1..(k - i) : b[j] = t[i + j]
    <3> SUFFICES ASSUME NEW j \in 1..(k - i) PROVE b[j] = t[i + j]
      OBVIOUS
    <3>1. b[j] = t[(i + 1) + j - 1] /\ (i + 1) + j - 1 = i + j
      BY <1>1
    <3> QED
      BY <3>1
  <2> QED
    BY <2>1, <2>2, <2>3, <2>4
<1> HIDE DEF a, b, c
<1>3. /\ a \o b \in Seq(Char) /\ Len(a \o b) = Len(a) + Len(b)
      /\ \A j \in 1..Len(a) : (a \o b)[j] = a[j]
      /\ \A j \in 1..Len(b) : (a \o b)[Len(a) + j] = b[j]
  BY <1>2, Joined
<1> DEFINE d == a \o b
<1> HIDE DEF d
<1>4. /\ d \in Seq(Char) /\ Len(d) = k
      /\ \A j \in 1..i : d[j] = t[j]
      /\ \A j \in 1..(k - i) : d[i + j] = t[i + j]
  <2>1. /\ d \in Seq(Char) /\ Len(d) = Len(a) + Len(b)
        /\ \A j \in 1..Len(a) : d[j] = a[j]
        /\ \A j \in 1..Len(b) : d[Len(a) + j] = b[j]
    BY <1>3 DEF d
  <2>2. Len(d) = k
    BY <1>1, <1>2, <2>1
  <2>3. \A j \in 1..i : d[j] = t[j]
    BY <1>2, <2>1
  <2>4. ASSUME NEW j \in 1..(k - i) PROVE d[i + j] = t[i + j]
    <3>1. j \in 1..Len(b)
      BY <1>2
    <3>2. d[Len(a) + j] = b[j] /\ Len(a) = i
      BY <1>2, <2>1, <3>1
    <3> QED
      BY <1>2, <3>2
  <2> QED
    BY <2>1, <2>2, <2>3, <2>4
<1>5. \A j \in 1..k : d[j] = c[j]
  <2> SUFFICES ASSUME NEW j \in 1..k PROVE d[j] = c[j]
    OBVIOUS
  <2>1. CASE j <= i
    BY <1>1, <1>2, <1>4, <2>1
  <2>2. CASE ~(j <= i)
    <3>1. j - i \in 1..(k - i) /\ i + (j - i) = j
      BY <1>1, <2>2
    <3> QED
      BY <1>2, <1>4, <3>1
  <2> QED
    BY <2>1, <2>2
<1>6. d = c
  BY <1>2, <1>4, <1>5
<1>7. c = a \o b /\ Words(c) = Words(a) \o Words(b)
  BY <1>2, <1>6, WordsJoined DEF d
<1> QED
  BY <1>2, <1>7 DEF a, b, c

-----------------------------------------------------------------------------
(* The lines of a text, one after the other *)

\* The next line begins where this one ends, and not before.
LEMMA NextStart ==
  ASSUME NEW w \in Seq(Char), NEW p \in LineStarts(w)
  PROVE  LET q == LineAt(w, p).next
         IN  /\ q \in (p + 1)..(Len(w) + 1)
             /\ q <= Len(w) => q \in LineStarts(w)
             /\ \A r \in LineStarts(w) : ~(p < r /\ r < q)
             /\ Words(SubSeq(w, p, q - 1)) = Words(LineAt(w, p).text)
<1> DEFINE e == LineEnd(w, p)
           l == LineAt(w, p)
           q == l.next
<1>0. Len(w) \in Nat /\ TextStart(w) \in {1, 2} /\ LineStarts(w) \in SUBSET (1..Len(w)) /\ p \in 1..Len(w)
  BY LinesAre DEF TextStart
<1>1. /\ e \in p..(Len(w) + 1)
      /\ \A i \in p..(e - 1) : w[i] \notin Breaks
      /\ e <= Len(w) => w[e] \in Breaks
  BY <1>0, LineEnds
<1>2. l.ending = IF e > Len(w) THEN "none"
                ELSE IF e < Len(w) /\ w[e] = "CR" /\ w[e + 1] = "LF" THEN "CRLF"
                ELSE w[e]
  BY DEF LineAt
<1>3. q = e + (CASE l.ending = "none" -> 0 [] l.ending = "CRLF" -> 2 [] OTHER -> 1)
  BY DEF LineAt
<1>4. l.text = SubSeq(w, p, e - 1)
  BY DEF LineAt
<1>start. p >= TextStart(w)
  BY <1>0 DEF LineStarts
<1> HIDE DEF e, l, q
<1>5. \/ e > Len(w) /\ q = e
      \/ e < Len(w) /\ w[e] = "CR" /\ w[e + 1] = "LF" /\ q = e + 2
      \/ e <= Len(w) /\ ~(e < Len(w) /\ w[e] = "CR" /\ w[e + 1] = "LF") /\ q = e + 1
  <2>1. CASE e > Len(w)
    BY <1>0, <1>1, <1>2, <1>3, <2>1
  <2>2. CASE e < Len(w) /\ w[e] = "CR" /\ w[e + 1] = "LF"
    BY <1>0, <1>1, <1>2, <1>3, <2>2
  <2>3. CASE e <= Len(w) /\ ~(e < Len(w) /\ w[e] = "CR" /\ w[e + 1] = "LF")
    <3>1. l.ending = "CR" \/ l.ending = "LF"
      BY <1>0, <1>1, <1>2, <2>3 DEF Breaks
    <3> QED
      BY <1>3, <2>3, <3>1
  <2> QED
    BY <1>0, <1>1, <2>1, <2>2, <2>3
<1>6. q \in (p + 1)..(Len(w) + 1) /\ q - 1 \in (e - 1)..(e + 1)
  BY <1>0, <1>1, <1>5
<1>7. q <= Len(w) => q \in LineStarts(w)
  <2> SUFFICES ASSUME q <= Len(w) PROVE q \in LineStarts(w)
    OBVIOUS
  <2>1. q \in TextStart(w)..Len(w)
    BY <1>0, <1>6, <1>start
  <2>2. CASE e < Len(w) /\ w[e] = "CR" /\ w[e + 1] = "LF" /\ q = e + 2
    <3>1. w[q - 1] = "LF"
      BY <1>1, <2>2
    <3> QED
      BY <2>1, <3>1 DEF LineStarts
  <2>3. CASE /\ e <= Len(w) /\ q = e + 1
             /\ ~(e < Len(w) /\ w[e] = "CR" /\ w[e + 1] = "LF")
    <3>1. q - 1 = e /\ e < Len(w)
      BY <1>0, <1>1, <2>3
    <3>2. w[q - 1] = "LF" \/ (w[q - 1] = "CR" /\ w[q] # "LF")
      BY <1>1, <2>3, <3>1 DEF Breaks
    <3> QED
      BY <2>1, <3>2 DEF LineStarts
  <2> QED
    BY <1>0, <1>1, <1>5, <2>2, <2>3
<1>8. ASSUME NEW r \in LineStarts(w), p < r, r < q PROVE FALSE
  <2>1. r \in 1..Len(w) /\ r # TextStart(w)
    BY <1>0, <1>8, <1>start
  <2>2. w[r - 1] = "LF" \/ (w[r - 1] = "CR" /\ w[r] # "LF")
    BY <2>1 DEF LineStarts
  <2>3. w[r - 1] \in Breaks
    BY <2>2 DEF Breaks
  <2>4. ~(r - 1 \in p..(e - 1))
    BY <1>1, <2>3
  <2>5. r - 1 >= e
    BY <1>0, <1>1, <1>8, <2>1, <2>4
  <2>6. r - 1 = e /\ q = e + 2 /\ w[e] = "CR" /\ w[e + 1] = "LF"
    BY <1>0, <1>1, <1>5, <1>8, <2>1, <2>5
  <2>7. r = e + 1
    BY <1>1, <2>1, <2>6
  <2> QED
    BY <2>2, <2>6, <2>7
<1>9. Words(SubSeq(w, p, q - 1)) = Words(l.text)
  <2> DEFINE s == SubSeq(w, p, q - 1)
  <2>1. /\ s \in Seq(Char) /\ Len(s) = q - p
        /\ \A i \in 1..(q - p) : s[i] = w[p + i - 1]
    BY <1>0, <1>6
  <2> HIDE DEF s
  <2>2. e - p \in 0..Len(s) /\ Len(s) \in (e - p)..Len(s)
    BY <1>0, <1>1, <1>6, <2>1
  <2>3. /\ SubSeq(s, 1, e - p) \in Seq(Char) /\ SubSeq(s, e - p + 1, Len(s)) \in Seq(Char)
        /\ Words(SubSeq(s, 1, Len(s))) = Words(SubSeq(s, 1, e - p)) \o Words(SubSeq(s, e - p + 1, Len(s)))
    BY <2>1, <2>2, Cut
  <2>4. SubSeq(s, 1, Len(s)) = s
    BY <2>1
  <2>5. SubSeq(s, 1, e - p) = l.text
    <3>1. /\ Len(SubSeq(s, 1, e - p)) = e - p /\ SubSeq(s, 1, e - p) \in Seq(Char)
          /\ \A i \in 1..(e - p) : SubSeq(s, 1, e - p)[i] = s[i]
      BY <2>1, <2>2
    <3>2. /\ l.text \in Seq(Char) /\ Len(l.text) = e - p
          /\ \A i \in 1..(e - p) : l.text[i] = w[p + i - 1]
      BY <1>0, LineIs DEF l, e
    <3>3. \A i \in 1..(e - p) : s[i] = w[p + i - 1]
      BY <1>0, <1>1, <1>6, <2>1
    <3> HIDE DEF s
    <3> QED
      BY <3>1, <3>2, <3>3
  <2>6. Words(SubSeq(s, e - p + 1, Len(s))) = <<>>
    <3> DEFINE u == SubSeq(s, e - p + 1, Len(s))
    <3>1. /\ u \in Seq(Char) /\ Len(u) = q - e
          /\ \A i \in 1..(q - e) : u[i] = s[e - p + i]
      <4>1. u \in Seq(Char) /\ Len(u) = q - e
        BY <1>0, <1>1, <1>6, <2>1
      <4>2. ASSUME NEW i \in 1..(q - e) PROVE u[i] = s[e - p + i]
        <5>1. u[i] = s[(e - p + 1) + i - 1] /\ (e - p + 1) + i - 1 = e - p + i
          BY <1>0, <1>1, <1>6, <2>1
        <5> QED
          BY <5>1
      <4> QED
        BY <4>1, <4>2
    <3>2. \A i \in 1..(q - e) : s[e - p + i] = w[e + i - 1]
      <4> SUFFICES ASSUME NEW i \in 1..(q - e) PROVE s[e - p + i] = w[e + i - 1]
        OBVIOUS
      <4>1. e - p + i \in 1..(q - p) /\ p + (e - p + i) - 1 = e + i - 1
        BY <1>0, <1>1, <1>6
      <4> QED
        BY <2>1, <4>1
    <3> HIDE DEF u
    <3>3. \A i \in 1..(q - e) : w[e + i - 1] \in NoWords
      <4> SUFFICES ASSUME NEW i \in 1..(q - e) PROVE w[e + i - 1] \in NoWords
        OBVIOUS
      <4>1. e <= Len(w)
        BY <1>0, <1>1, <1>5
      <4>2. \/ e + i - 1 = e
            \/ e + i - 1 = e + 1 /\ w[e + 1] = "LF"
        BY <1>0, <1>1, <1>5
      <4> QED
        BY <1>1, <4>1, <4>2 DEF NoWords, Breaks
    <3>4. \A i \in 1..Len(u) : u[i] \in NoWords
      BY <3>1, <3>2, <3>3
    <3>5. Words(u) = <<>>
      BY <3>1, <3>4, WordsAre
    <3> QED
      BY <3>5 DEF u
  <2>7. Words(l.text) \in Seq(Char)
    BY <2>3, <2>5, WordsAre
  <2>8. Words(s) = Words(l.text) \o <<>>
    BY <2>3, <2>4, <2>5, <2>6
  <2>9. Words(l.text) \o <<>> = Words(l.text)
    BY <2>7
  <2> QED
    BY <2>8, <2>9 DEF s
<1> QED
  BY <1>6, <1>7, <1>8, <1>9 DEF q, l

\* The lines of a text cover it, from where it starts.
LEMMA LinesFollow ==
  ASSUME NEW w \in Seq(Char), NEW i \in 1..Len(Lines(w))
  PROVE  /\ i < Len(Lines(w)) => Starts(w)[i + 1] = Lines(w)[i].next
         /\ i = Len(Lines(w)) => Lines(w)[i].next = Len(w) + 1
<1> DEFINE n == Len(Lines(w))
           p == Starts(w)[i]
           q == LineAt(w, p).next
<1>1. /\ n \in Nat /\ Starts(w) \in [1..n -> LineStarts(w)]
      /\ Lines(w)[i] = LineAt(w, p)
      /\ \A j, k \in 1..n : j < k => Starts(w)[j] < Starts(w)[k]
      /\ \A r \in LineStarts(w) : \E k \in 1..n : Starts(w)[k] = r
      /\ LineStarts(w) \in SUBSET (1..Len(w)) /\ Len(w) \in Nat
  <2>1. n \in Nat /\ Starts(w) \in [1..n -> LineStarts(w)]
    BY LinesAre
  <2>2. \A k \in 1..n : Lines(w)[k] = LineAt(w, Starts(w)[k])
    BY LinesAre
  <2>3. /\ \A j, k \in 1..n : j < k => Starts(w)[j] < Starts(w)[k]
        /\ \A r \in LineStarts(w) : \E k \in 1..n : Starts(w)[k] = r
    BY LinesAre
  <2>4. LineStarts(w) \in SUBSET (1..Len(w)) /\ Len(w) \in Nat
    BY LinesAre
  <2> QED
    BY <2>1, <2>2, <2>3, <2>4
<1>2. p \in LineStarts(w)
  BY <1>1
<1> HIDE DEF p, n
<1>3. /\ q \in (p + 1)..(Len(w) + 1)
      /\ q <= Len(w) => q \in LineStarts(w)
      /\ \A r \in LineStarts(w) : ~(p < r /\ r < q)
  BY <1>2, NextStart
<1> HIDE DEF q
<1>4. \A r \in LineStarts(w) : r \in Nat
  BY <1>1
<1>5. i \in 1..n
  BY DEF n
<1>6. ASSUME i < n PROVE Starts(w)[i + 1] = q
  <2>1. i + 1 \in 1..n
    BY <1>1, <1>5, <1>6
  <2> DEFINE r == Starts(w)[i + 1]
  <2>2. p < r /\ r \in LineStarts(w)
    BY <1>1, <1>5, <2>1 DEF p
  <2>3. ~(r < q)
    BY <1>3, <2>2
  <2> HIDE DEF r
  <2>4. q <= Len(w)
    BY <1>1, <1>2, <1>3, <1>4, <2>2, <2>3
  <2>5. PICK k \in 1..n : Starts(w)[k] = q
    BY <1>1, <1>3, <2>4
  <2>6. ~(k < i) /\ k # i
    <3>1. k < i => Starts(w)[k] < p
      BY <1>1, <1>5 DEF p
    <3>2. k = i => Starts(w)[k] = p
      BY DEF p
    <3> QED
      BY <1>2, <1>3, <1>4, <2>5, <3>1, <3>2
  <2>7. k = i + 1 \/ i + 1 < k
    BY <1>1, <1>5, <2>6
  <2>8. i + 1 < k => r < q
    BY <1>1, <2>1, <2>5 DEF r
  <2> QED
    BY <2>3, <2>5, <2>7, <2>8 DEF r
<1>7. ASSUME i = n PROVE q = Len(w) + 1
  <2> SUFFICES ASSUME q <= Len(w) PROVE FALSE
    BY <1>1, <1>2, <1>3, <1>4
  <2>1. PICK k \in 1..n : Starts(w)[k] = q
    BY <1>1, <1>3
  <2>2. k = i \/ k < i
    BY <1>1, <1>5, <1>7
  <2>3. k < i => Starts(w)[k] < p
    BY <1>1, <1>5 DEF p
  <2>4. k = i => Starts(w)[k] = p
    BY DEF p
  <2> QED
    BY <1>2, <1>3, <1>4, <2>1, <2>2, <2>3, <2>4
<1> QED
  BY <1>1, <1>6, <1>7 DEF n, q

\* How far the first i lines reach.
Reach(w, i) == IF i = 0 THEN TextStart(w) - 1 ELSE Lines(w)[i].next - 1

LEMMA ReachIs ==
  ASSUME NEW w \in Seq(Char)
  PROVE  /\ Reach(w, 0) \in 0..Len(w) /\ Words(SubSeq(w, 1, Reach(w, 0))) = <<>>
         /\ \A i \in 1..Len(Lines(w)) :
              LET p == Starts(w)[i]
              IN  /\ Reach(w, i - 1) = p - 1 /\ p \in LineStarts(w) /\ p \in 1..Len(w)
                  /\ Reach(w, i) = LineAt(w, p).next - 1 /\ Reach(w, i) \in p..Len(w)
         /\ Reach(w, Len(Lines(w))) = Len(w)
<1> DEFINE n == Len(Lines(w))
<1>1. /\ n \in Nat /\ Starts(w) \in [1..n -> LineStarts(w)]
      /\ \A i \in 1..n : Lines(w)[i] = LineAt(w, Starts(w)[i])
      /\ \A r \in LineStarts(w) : \E k \in 1..n : Starts(w)[k] = r
      /\ LineStarts(w) \in SUBSET (1..Len(w)) /\ Len(w) \in Nat
  BY LinesAre
<1>2. TextStart(w) \in 1..2 /\ (TextStart(w) = 2 => w # <<>> /\ w[1] = "BOM")
  BY DEF TextStart
<1>3. Reach(w, 0) = TextStart(w) - 1
  BY DEF Reach
<1>4. Reach(w, 0) \in 0..Len(w)
  BY <1>1, <1>2, <1>3
<1>5. Words(SubSeq(w, 1, Reach(w, 0))) = <<>>
  <2> DEFINE s == SubSeq(w, 1, Reach(w, 0))
  <2>1. s \in Seq(Char) /\ Len(s) = Reach(w, 0) /\ \A i \in 1..Len(s) : s[i] = w[i]
    BY <1>1, <1>4
  <2> HIDE DEF s
  <2>2. \A i \in 1..Len(s) : s[i] \in NoWords
    BY <1>2, <1>3, <2>1 DEF NoWords
  <2>3. Words(s) = <<>>
    BY <2>1, <2>2, WordsAre
  <2> QED
    BY <2>3 DEF s
<1>6. ASSUME NEW i \in 1..n
      PROVE  LET p == Starts(w)[i]
             IN  /\ Reach(w, i - 1) = p - 1 /\ p \in LineStarts(w) /\ p \in 1..Len(w)
                 /\ Reach(w, i) = LineAt(w, p).next - 1 /\ Reach(w, i) \in p..Len(w)
  <2> DEFINE p == Starts(w)[i]
  <2>1. p \in LineStarts(w) /\ p \in 1..Len(w)
    BY <1>1
  <2>2. Reach(w, i) = LineAt(w, p).next - 1
    BY <1>1 DEF Reach
  <2> HIDE DEF p
  <2>3. LineAt(w, p).next \in (p + 1)..(Len(w) + 1)
    BY <2>1, NextStart
  <2>4. Reach(w, i - 1) = p - 1
    <3>1. CASE i = 1
      BY <1>1, <1>3, <3>1, FirstLine DEF p
    <3>2. CASE i # 1
      <4>1. i - 1 \in 1..n /\ i - 1 < n /\ (i - 1) + 1 = i /\ i - 1 # 0
        BY <1>1, <3>2
      <4>2. Starts(w)[i] = Lines(w)[i - 1].next
        BY <4>1, LinesFollow
      <4> QED
        BY <4>1, <4>2 DEF Reach, p
    <3> QED
      BY <3>1, <3>2
  <2>5. Reach(w, i) \in p..Len(w)
    BY <1>1, <2>1, <2>2, <2>3
  <2> QED
    BY <2>1, <2>2, <2>4, <2>5 DEF p
<1>7. Reach(w, n) = Len(w)
  <2>1. CASE n = 0
    <3>1. TextStart(w) \notin LineStarts(w)
      BY <1>1, <2>1
    <3>2. ~(TextStart(w) <= Len(w))
      BY <1>1, <1>2, <3>1 DEF LineStarts
    <3>3. w # <<>> => Len(w) >= 1
      BY <1>1
    <3> QED
      BY <1>1, <1>2, <1>3, <2>1, <3>2, <3>3
  <2>2. CASE n # 0
    <3>1. n \in 1..n
      BY <1>1, <2>2
    <3>2. Lines(w)[n].next = Len(w) + 1
      BY <3>1, LinesFollow
    <3> QED
      BY <1>1, <2>2, <3>2 DEF Reach
  <2> QED
    BY <2>1, <2>2
<1> QED
  BY <1>4, <1>5, <1>6, <1>7

\* The lines that are kept reach to the body, but for an empty line.
LEMMA KeptReach ==
  ASSUME NEW text \in Seq(Char)
  PROVE  LET w == Window(text)
             n == Len(KeptLines(text))
         IN  /\ n \in 0..Len(Lines(w))
             /\ \/ Normalize(text).body = Reach(w, n)
                \/ /\ n + 1 \in 1..Len(Lines(w)) /\ Normalize(text).body = Reach(w, n + 1)
                   /\ Lines(w)[n + 1].text = <<>>
<1> DEFINE w == Window(text)
           n == Len(KeptLines(text))
           lines == Lines(w)
           stop == HeaderEnd(lines)
<1>1. w \in Seq(Char)
  BY WindowIs
<1>2. /\ Len(lines) \in Nat
      /\ \A i \in 1..Len(lines) : lines[i] = LineAt(w, Starts(w)[i])
      /\ Starts(w) \in [1..Len(lines) -> LineStarts(w)]
      /\ LineStarts(w) \in SUBSET (1..Len(w)) /\ DOMAIN lines = 1..Len(lines)
  BY <1>1, LinesAre
<1>3. stop = 0 \/ stop \in 1..Len(lines)
  BY <1>2, HeaderEndIs
<1>4. KeptLines(text) = IF stop = 0 THEN lines ELSE SubSeq(lines, 1, stop - 1)
  BY DEF KeptLines
<1>5. Normalize(text).body = BodyStart(w, lines, stop)
  BY DEF Normalize
<1> HIDE DEF w, stop
<1>6. CASE stop = 0
  <2>1. n = Len(lines)
    BY <1>4, <1>6
  <2>2. Normalize(text).body = Len(w)
    BY <1>5, <1>6 DEF BodyStart
  <2>3. Reach(w, n) = Len(w)
    BY <1>1, <2>1, ReachIs
  <2> QED
    BY <1>2, <2>1, <2>2, <2>3 DEF w
<1>7. CASE stop # 0
  <2>1. n = stop - 1
    <3> HIDE DEF lines
    <3>1. Len(SubSeq(lines, 1, stop - 1)) = stop - 1
      BY <1>2, <1>3, <1>7
    <3> QED
      BY <1>4, <1>7, <3>1
  <2>2. n \in 0..Len(lines) /\ n + 1 \in 1..Len(lines) /\ n + 1 = stop
    BY <1>2, <1>3, <1>7, <2>1
  <2>3. CASE lines[stop].text = <<>>
    <3>1. Normalize(text).body = lines[stop].next - 1
      BY <1>5, <1>7, <2>3 DEF BodyStart
    <3>2. Reach(w, n + 1) = lines[stop].next - 1
      BY <1>7, <2>2 DEF Reach
    <3> QED
      BY <2>2, <2>3, <3>1, <3>2 DEF w
  <2>4. CASE lines[stop].text # <<>>
    <3>1. Normalize(text).body = lines[stop].first - 1
      BY <1>5, <1>7, <2>4 DEF BodyStart
    <3>2. Starts(w)[stop] \in 1..Len(w) /\ lines[stop] = LineAt(w, Starts(w)[stop])
      BY <1>2, <1>3, <1>7
    <3>3. lines[stop].first = Starts(w)[stop]
      BY <1>1, <3>2, LineIs
    <3>4. Reach(w, stop - 1) = Starts(w)[stop] - 1
      BY <1>1, <1>3, <1>7, ReachIs
    <3> QED
      BY <2>1, <2>2, <3>1, <3>3, <3>4 DEF w
  <2> QED
    BY <2>3, <2>4
<1> QED
  BY <1>6, <1>7

\* The words up to a line and of that line are the words up to the next.
LEMMA WordsUpTo ==
  ASSUME NEW w \in Seq(Char), NEW i \in 1..Len(Lines(w))
  PROVE  /\ LineAt(w, Starts(w)[i]).text \in Seq(Char)
         /\ Words(SubSeq(w, 1, Reach(w, i))) =
              Words(SubSeq(w, 1, Reach(w, i - 1))) \o Words(LineAt(w, Starts(w)[i]).text)
<1> DEFINE p == Starts(w)[i]
<1>1. /\ Reach(w, i - 1) = p - 1 /\ p \in LineStarts(w) /\ p \in 1..Len(w)
      /\ Reach(w, i) = LineAt(w, p).next - 1 /\ Reach(w, i) \in p..Len(w) /\ Len(w) \in Nat
  BY ReachIs
<1> HIDE DEF p
<1>2. Words(SubSeq(w, p, Reach(w, i))) = Words(LineAt(w, p).text)
  BY <1>1, NextStart
<1>3. Reach(w, i - 1) \in 0..Len(w) /\ Reach(w, i) \in Reach(w, i - 1)..Len(w)
      /\ Reach(w, i - 1) + 1 = p
  BY <1>1
<1>4. Words(SubSeq(w, 1, Reach(w, i))) =
        Words(SubSeq(w, 1, Reach(w, i - 1))) \o Words(SubSeq(w, Reach(w, i - 1) + 1, Reach(w, i)))
  BY <1>3, Cut
<1>5. LineAt(w, p).text \in Seq(Char)
  BY <1>1, LineIs
<1> QED
  BY <1>2, <1>3, <1>4, <1>5 DEF p

\* The new header has the words of the old one.
LEMMA HeaderWords ==
  ASSUME NEW text \in Seq(Char)
  PROVE  Words(Normalize(text).header) = Words(SubSeq(Window(text), 1, Normalize(text).body))
<1> DEFINE w == Window(text)
           kept == KeptLines(text)
           n == Len(kept)
           new == [i \in DOMAIN kept |-> Rewritten(kept[i])]
           head == FlattenSeq(new)
           upTo(i) == Words(SubSeq(w, 1, Reach(w, i)))
<1>1. Normalize(text).header = head \o CRLF
  BY DEF Normalize, KeptLines
<1>2. w \in Seq(Char)
  BY WindowIs
<1>3. /\ n \in Nat /\ n <= Len(Lines(w)) /\ DOMAIN kept = 1..n
      /\ \A i \in 1..n : kept[i] = LineAt(w, Starts(w)[i])
  BY KeptAre
<1>4. Len(Lines(w)) \in Nat
  BY <1>2, LinesAre
<1>5. /\ Len(new) = n /\ \A i \in 1..n : new[i] = Rewritten(kept[i])
      /\ new = <<>> \/ n # 0
  BY <1>3
<1>6. ASSUME NEW i \in 1..n
      PROVE  /\ new[i] \in Seq(Char)
             /\ upTo(i) = upTo(i - 1) \o Words(new[i])
  <2>1. i \in 1..Len(Lines(w))
    BY <1>3, <1>4
  <2>2. /\ LineAt(w, Starts(w)[i]).text \in Seq(Char)
        /\ upTo(i) = upTo(i - 1) \o Words(LineAt(w, Starts(w)[i]).text)
    BY <1>2, <2>1, WordsUpTo
  <2> HIDE DEF upTo, kept, new, n
  <2>3. kept[i].text \in Seq(Char) /\ upTo(i) = upTo(i - 1) \o Words(kept[i].text)
    BY <1>3, <2>2
  <2>4. Words(Rewritten(kept[i])) = Words(kept[i].text)
    BY <2>3, RewrittenWords
  <2>5. StripNul(kept[i].text) \in Seq(Char) /\ CRLF \in Seq(Char)
    BY <2>3, Stripped, LineBreak
  <2>6. Rewritten(kept[i]) \in Seq(Char)
    BY <2>5 DEF Rewritten
  <2> QED
    BY <1>5, <2>3, <2>4, <2>6
<1>7. upTo(0) = <<>>
  BY <1>2, ReachIs
<1> HIDE DEF upTo, new
<1>8. head \in Seq(Char) /\ Words(head) = upTo(n)
  <2>1. CASE n = 0
    <3>1. head = <<>>
      BY <1>5, <2>1 DEF FlattenSeq
    <3>2. head \in Seq(Char) /\ \A i \in 1..Len(head) : head[i] \in NoWords
      BY <3>1
    <3>3. Words(head) = <<>>
      BY <3>2, WordsAre
    <3> QED
      BY <1>7, <2>1, <3>2, <3>3
  <2>2. CASE n # 0
    <3>1. PICK g : Joining(new, n, g) /\ head = g[n]
      <4>1. Len(new) \in Nat /\ Len(new) # 0
        BY <1>3, <1>5, <2>2
      <4>2. \E g : Joining(new, Len(new), g) /\ FlattenSeq(new) = g[Len(new)]
        BY <4>1, FlatIs
      <4> QED
        BY <1>5, <4>2
    <3> DEFINE Good(i) == g[i] \in Seq(Char) /\ Words(g[i]) = upTo(i)
               S == {i \in 1..n : ~Good(i)}
    <3>2. S = {}
      <4> SUFFICES ASSUME S # {} PROVE FALSE
        OBVIOUS
      <4>1. S \in SUBSET Nat
        OBVIOUS
      <4>2. Min(S) \in S /\ \A k \in S : Min(S) <= k
        BY <4>1, Least
      <4> DEFINE i == Min(S)
      <4> HIDE DEF i, n
      <4>3. i \in 1..n /\ ~Good(i) /\ \A k \in S : i <= k
        BY <4>2 DEF i
      <4>4. g[i] = IF i = 1 THEN new[i] ELSE g[i - 1] \o new[i]
        BY <3>1, <4>3 DEF Joining
      <4>5. new[i] \in Seq(Char) /\ Words(new[i]) \in Seq(Char)
            /\ upTo(i) = upTo(i - 1) \o Words(new[i])
        BY <1>6, <4>3, WordsAre
      <4>6. CASE i = 1
        <5>1. upTo(i) = <<>> \o Words(new[i]) /\ g[i] = new[i]
          BY <1>7, <4>4, <4>5, <4>6
        <5>2. <<>> \o Words(new[i]) = Words(new[i])
          BY <4>5
        <5> QED
          BY <4>3, <4>5, <5>1, <5>2
      <4>7. CASE i # 1
        <5>1. i - 1 \in 1..n /\ i - 1 \notin S
          BY <1>3, <4>3, <4>7
        <5>2. Good(i - 1)
          BY <5>1
        <5>3. g[i] = g[i - 1] \o new[i] /\ g[i - 1] \in Seq(Char)
          BY <4>4, <4>7, <5>2
        <5>4. Words(g[i]) = Words(g[i - 1]) \o Words(new[i]) /\ g[i] \in Seq(Char)
          <6>1. g[i] \in Seq(Char)
            BY <4>5, <5>3, Joined
          <6>2. Words(g[i - 1] \o new[i]) = Words(g[i - 1]) \o Words(new[i])
            BY <4>5, <5>3, WordsJoined
          <6> QED
            BY <5>3, <6>1, <6>2
        <5> QED
          BY <4>3, <4>5, <5>2, <5>4
      <4> QED
        BY <4>6, <4>7
    <3>3. n \in 1..n
      BY <1>3, <2>2
    <3>4. Good(n)
      BY <3>2, <3>3
    <3> QED
      BY <3>1, <3>4
  <2> QED
    BY <2>1, <2>2
<1> HIDE DEF head
<1>9. Words(head \o CRLF) = upTo(n)
  <2>1. CRLF \in Seq(Char) /\ \A i \in 1..Len(CRLF) : CRLF[i] \in NoWords
    BY LineBreak DEF NoWords
  <2>2. Words(CRLF) = <<>> /\ Words(head) \in Seq(Char)
    BY <1>8, <2>1, WordsAre
  <2>3. Words(head \o CRLF) = Words(head) \o Words(CRLF)
    BY <1>8, <2>1, WordsJoined
  <2> QED
    BY <1>8, <2>2, <2>3
<1>10. Words(SubSeq(w, 1, Normalize(text).body)) = upTo(n)
  <2>1. \/ Normalize(text).body = Reach(w, n)
        \/ /\ n + 1 \in 1..Len(Lines(w)) /\ Normalize(text).body = Reach(w, n + 1)
           /\ Lines(w)[n + 1].text = <<>>
    BY KeptReach
  <2>2. CASE Normalize(text).body = Reach(w, n)
    BY <2>2 DEF upTo
  <2>3. CASE /\ n + 1 \in 1..Len(Lines(w)) /\ Normalize(text).body = Reach(w, n + 1)
             /\ Lines(w)[n + 1].text = <<>>
    <3> DEFINE l == LineAt(w, Starts(w)[n + 1])
    <3>1. l.text = <<>>
      BY <1>2, <2>3, LinesAre
    <3>2. Words(SubSeq(w, 1, Reach(w, n + 1))) = upTo((n + 1) - 1) \o Words(l.text)
      BY <1>2, <2>3, WordsUpTo DEF upTo
    <3>3. (n + 1) - 1 = n
      BY <1>3
    <3> HIDE DEF l, n
    <3>4. Words(l.text) = <<>>
      <4>1. l.text \in Seq(Char) /\ \A i \in 1..Len(l.text) : l.text[i] \in NoWords
        BY <3>1
      <4> QED
        BY <3>1, <4>1, WordsAre
    <3>5. upTo(n) \in Seq(Char)
      BY <1>8, WordsAre
    <3> QED
      BY <2>3, <3>2, <3>3, <3>4, <3>5
  <2> QED
    BY <2>1, <2>2, <2>3
<1> QED
  BY <1>1, <1>9, <1>10 DEF w

\* The copy has the words of the mail.
LEMMA WordsKept ==
  ASSUME NEW text \in Seq(Char)
  PROVE  Words(NormalizedCopy(text)) = Words(text)
<1> DEFINE w == Window(text)
           b == Normalize(text).body
           top == SubSeq(text, 1, b)
           rest == SubSeq(text, b + 1, Len(text))
           header == Normalize(text).header
<1>1. /\ w \in Seq(Char) /\ Len(w) \in 0..Len(text) /\ b \in 0..Len(w) /\ Len(text) \in Nat
      /\ \A i \in 1..Len(w) : w[i] = text[i]
  BY WindowIs, BodyBegins
<1>2. header \in Seq(Char)
  <2>1. PICK head : Clean(head) /\ header = head \o CRLF
    BY HeaderClean
  <2>2. head \in Seq(Char) /\ CRLF \in Seq(Char)
    BY <2>1, LineBreak DEF Clean
  <2> QED
    BY <2>1, <2>2
<1>3. Words(header) = Words(SubSeq(w, 1, b))
  BY HeaderWords
<1> HIDE DEF header, b
<1>4. SubSeq(w, 1, b) = top
  <2> HIDE DEF w
  <2>1. /\ SubSeq(w, 1, b) \in Seq(Char) /\ Len(SubSeq(w, 1, b)) = b
        /\ \A i \in 1..b : SubSeq(w, 1, b)[i] = text[i]
    BY <1>1
  <2>2. top \in Seq(Char) /\ Len(top) = b /\ \A i \in 1..b : top[i] = text[i]
    BY <1>1
  <2> HIDE DEF top
  <2> QED
    BY <2>1, <2>2
<1>5. b \in 0..Len(text) /\ Len(text) \in b..Len(text)
  BY <1>1
<1>6. /\ rest \in Seq(Char)
      /\ Words(SubSeq(text, 1, Len(text))) = Words(top) \o Words(rest)
  BY <1>5, Cut
<1>7. SubSeq(text, 1, Len(text)) = text
  OBVIOUS
<1>8. NormalizedCopy(text) = header \o rest
  BY DEF NormalizedCopy, header, b
<1>9. Words(header \o rest) = Words(header) \o Words(rest)
  BY <1>2, <1>6, WordsJoined
<1> QED
  BY <1>3, <1>4, <1>6, <1>7, <1>8, <1>9

-----------------------------------------------------------------------------
(* Nothing is lost with the copy *)

\* A text that lies at the end of another.
LEMMA AtTheEnd ==
  ASSUME NEW s \in Seq(Char), NEW t \in Seq(Char), NEW d \in Nat, Len(t) = d + Len(s),
         \A i \in 1..Len(s) : t[d + i] = s[i]
  PROVE  IsSuffix(s, t)
<1> DEFINE m == Len(s)
           n == Len(t)
           r == Reverse(s)
           u == Reverse(t)
<1>1. m \in Nat /\ n \in Nat /\ n = d + m
  OBVIOUS
<1>2. /\ r \in Seq(Char) /\ Len(r) = m /\ \A i \in 1..m : r[i] = s[(m - i) + 1]
  BY DEF Reverse
<1>3. /\ u \in Seq(Char) /\ Len(u) = n /\ \A i \in 1..n : u[i] = t[(n - i) + 1]
  BY DEF Reverse
<1>4. \A i \in 1..m : t[d + i] = s[i]
  OBVIOUS
<1> HIDE DEF r, u, m, n
<1>5. /\ SubSeq(r, 1, m) \in Seq(Char) /\ Len(SubSeq(r, 1, m)) = m
      /\ \A i \in 1..m : SubSeq(r, 1, m)[i] = r[i]
  BY <1>1, <1>2
<1>6. /\ SubSeq(u, 1, m) \in Seq(Char) /\ Len(SubSeq(u, 1, m)) = m
      /\ \A i \in 1..m : SubSeq(u, 1, m)[i] = u[i]
  BY <1>1, <1>3
<1>7. \A i \in 1..m : r[i] = u[i]
  <2> SUFFICES ASSUME NEW i \in 1..m PROVE r[i] = u[i]
    OBVIOUS
  <2> DEFINE k == (m - i) + 1
  <2>1. k \in 1..m /\ (n - i) + 1 = d + k /\ i \in 1..n
    BY <1>1
  <2>2. r[i] = s[k]
    BY <1>2
  <2>3. u[i] = t[d + k]
    BY <1>3, <2>1
  <2> HIDE DEF k
  <2> QED
    BY <1>4, <2>1, <2>2, <2>3
<1>8. SubSeq(r, 1, m) = SubSeq(u, 1, m)
  BY <1>5, <1>6, <1>7
<1>9. m <= n
  BY <1>1
<1>10. IsPrefix(r, u)
  BY <1>2, <1>3, <1>8, <1>9 DEF IsPrefix
<1> QED
  BY <1>10 DEF IsSuffix, r, u

\* The inspector reads the header of a text no further than the text goes.
LEMMA BytesAre ==
  ASSUME NEW w \in Seq(Char)
  PROVE  /\ InspectWindow(w).bytes \in 0..Len(w)
         /\ InspectWindow(w).bytes = Len(w)
              \/ \E p \in LineStarts(w) :
                   /\ w[p] \in Breaks /\ p \in 1..Len(w)
                   /\ \A r \in LineStarts(w) : r < p => w[r] \notin Breaks
                   /\ InspectWindow(w).bytes = LineAt(w, p).next - 1
                   /\ LineAt(w, p).next - 1 \in p..Len(w)
<1> DEFINE lines == Lines(w)
           n == Len(lines)
           blank == BlankLine(lines)
<1>1. /\ n \in Nat /\ Starts(w) \in [1..n -> LineStarts(w)]
      /\ \A i \in 1..n : lines[i] = LineAt(w, Starts(w)[i])
      /\ \A j, k \in 1..n : j < k => Starts(w)[j] < Starts(w)[k]
      /\ \A r \in LineStarts(w) : \E k \in 1..n : Starts(w)[k] = r
      /\ LineStarts(w) \in SUBSET (1..Len(w)) /\ Len(w) \in Nat
  BY LinesAre
<1>2. InspectWindow(w).bytes = IF blank = 0 THEN Len(w) ELSE lines[blank].next - 1
  BY DEF InspectWindow
<1>3. \/ blank = 0
      \/ /\ blank \in 1..n /\ lines[blank].text = <<>>
         /\ \A i \in 1..(blank - 1) : lines[i].text # <<>>
  BY <1>1, BlankIs
<1>4. CASE blank = 0
  BY <1>1, <1>2, <1>4
<1>5. CASE blank # 0
  <2> DEFINE p == Starts(w)[blank]
  <2>1. blank \in 1..n /\ p \in LineStarts(w) /\ p \in 1..Len(w) /\ lines[blank] = LineAt(w, p)
    BY <1>1, <1>3, <1>5
  <2>2. w[p] \in Breaks
    BY <1>3, <1>5, <2>1, LineIs
  <2>3. LineAt(w, p).next - 1 \in p..Len(w)
    BY <2>1, NextIs
  <2>4. ASSUME NEW r \in LineStarts(w), r < p PROVE w[r] \notin Breaks
    <3>1. PICK k \in 1..n : Starts(w)[k] = r
      BY <1>1
    <3>2. k < blank
      <4>1. ~(k = blank)
        BY <1>1, <2>1, <2>4, <3>1
      <4>2. ~(blank < k)
        <5> SUFFICES ASSUME blank < k PROVE FALSE
          OBVIOUS
        <5>1. p < r
          BY <1>1, <2>1, <3>1
        <5> QED
          BY <1>1, <2>1, <2>4, <5>1
      <4> QED
        BY <1>1, <2>1, <4>1, <4>2
    <3>3. lines[k].text # <<>> /\ lines[k] = LineAt(w, r) /\ r \in 1..Len(w)
      BY <1>1, <1>3, <1>5, <3>1, <3>2
    <3> QED
      BY <3>3, LineIs
  <2> HIDE DEF p, lines
  <2>5. InspectWindow(w).bytes = LineAt(w, p).next - 1
    BY <1>2, <1>5, <2>1
  <2> QED
    BY <1>1, <2>1, <2>2, <2>3, <2>4, <2>5
<1> QED
  BY <1>4, <1>5

\* An empty line of the window is one of the text, and does not reach further there.
LEMMA EmptyLine ==
  ASSUME NEW text \in Seq(Char), NEW p \in 1..Len(Window(text)), text[p] \in Breaks
  PROVE  LET w == Window(text)
         IN  /\ w[p] \in Breaks /\ p \in 1..Len(text)
             /\ p \in LineStarts(w) <=> p \in LineStarts(text)
             /\ LineAt(w, p).next <= LineAt(text, p).next
<1> DEFINE w == Window(text)
<1>1. /\ w \in Seq(Char) /\ Len(w) \in 0..Len(text) /\ Len(text) \in Nat
      /\ \A i \in 1..Len(w) : w[i] = text[i]
      /\ TextStart(w) = TextStart(text)
  BY WindowIs
<1>2. TextStart(text) \in {1, 2}
  BY DEF TextStart
<1> HIDE DEF w
<1>3. p \in 1..Len(w) /\ p \in 1..Len(text) /\ w[p] \in Breaks
  BY <1>1 DEF w
<1>4. p \in LineStarts(w) <=> p \in LineStarts(text)
  <2>1. p # TextStart(w) /\ p \in TextStart(w)..Len(w) => p - 1 \in 1..Len(w)
    BY <1>1, <1>2, <1>3
  <2>2. p \in TextStart(w)..Len(w) <=> p \in TextStart(text)..Len(text)
    BY <1>1, <1>2, <1>3
  <2>3. p # TextStart(w) /\ p \in TextStart(w)..Len(w) => w[p - 1] = text[p - 1]
    BY <1>1, <2>1
  <2>4. w[p] = text[p]
    BY <1>1, <1>3
  <2> QED
    BY <1>1, <2>2, <2>3, <2>4 DEF LineStarts
<1>5. ASSUME NEW t \in Seq(Char), p \in 1..Len(t), t[p] \in Breaks
      PROVE  LineAt(t, p).next = IF p < Len(t) /\ t[p] = "CR" /\ t[p + 1] = "LF"
                                   THEN p + 2 ELSE p + 1
  <2>1. LineEnd(t, p) = p
    <3>1. LineEnd(t, p) \in p..(Len(t) + 1) /\ p \in p..Len(t)
      BY <1>5, LineEnds
    <3>2. LineEnd(t, p) <= p
      BY <1>5, <3>1, LineEnds
    <3> QED
      BY <3>1, <3>2
  <2> DEFINE l == LineAt(t, p)
  <2>2. /\ l.ending = IF p > Len(t) THEN "none"
                      ELSE IF p < Len(t) /\ t[p] = "CR" /\ t[p + 1] = "LF" THEN "CRLF"
                      ELSE t[p]
        /\ l.next = p + (CASE l.ending = "none" -> 0 [] l.ending = "CRLF" -> 2 [] OTHER -> 1)
    BY <2>1 DEF LineAt
  <2> HIDE DEF l
  <2>3. CASE p < Len(t) /\ t[p] = "CR" /\ t[p + 1] = "LF"
    <3>1. l.ending = "CRLF"
      BY <1>5, <2>2, <2>3
    <3> QED
      BY <2>2, <2>3, <3>1 DEF l
  <2>4. CASE ~(p < Len(t) /\ t[p] = "CR" /\ t[p + 1] = "LF")
    <3>1. l.ending = "CR" \/ l.ending = "LF"
      BY <1>5, <2>2, <2>4 DEF Breaks
    <3> QED
      BY <2>2, <2>4, <3>1 DEF l
  <2> QED
    BY <2>3, <2>4
<1>6. LineAt(w, p).next <= LineAt(text, p).next
  <2>1. w[p] = text[p] /\ (p < Len(w) => w[p + 1] = text[p + 1] /\ p < Len(text))
    BY <1>1, <1>3
  <2>2. LineAt(w, p).next = IF p < Len(w) /\ w[p] = "CR" /\ w[p + 1] = "LF"
                              THEN p + 2 ELSE p + 1
    BY <1>1, <1>3, <1>5
  <2>3. LineAt(text, p).next = IF p < Len(text) /\ text[p] = "CR" /\ text[p + 1] = "LF"
                                 THEN p + 2 ELSE p + 1
    BY <1>3, <1>5
  <2> QED
    BY <1>3, <2>1, <2>2, <2>3
<1> QED
  BY <1>3, <1>4, <1>6 DEF w

\* What the inspector takes for the body is body for the normalizer, too.
LEMMA BodyIsLater ==
  ASSUME NEW text \in Seq(Char)
  PROVE  Normalize(text).body <= InspectWindow(text).bytes
<1> DEFINE w == Window(text)
           lines == Lines(w)
           n == Len(lines)
           stop == HeaderEnd(lines)
           b == Normalize(text).body
           bytes == InspectWindow(text).bytes
<1>1. /\ w \in Seq(Char) /\ Len(w) \in 0..Len(text) /\ Len(text) \in Nat
      /\ \A i \in 1..Len(w) : w[i] = text[i]
  BY WindowIs
<1>2. b \in 0..Len(w) /\ b = BodyStart(w, lines, stop)
  BY BodyBegins DEF Normalize
<1>3. /\ n \in Nat /\ Starts(w) \in [1..n -> LineStarts(w)]
      /\ \A i \in 1..n : lines[i] = LineAt(w, Starts(w)[i])
      /\ \A j, k \in 1..n : j < k => Starts(w)[j] < Starts(w)[k]
      /\ \A r \in LineStarts(w) : \E k \in 1..n : Starts(w)[k] = r
      /\ LineStarts(w) \in SUBSET (1..Len(w)) /\ Len(w) \in Nat
  BY <1>1, LinesAre
<1> HIDE DEF b
<1>4. CASE bytes = Len(text)
  BY <1>1, <1>2, <1>4 DEF b
<1>5. CASE bytes # Len(text)
  <2>1. PICK p \in LineStarts(text) :
              /\ text[p] \in Breaks /\ p \in 1..Len(text)
              /\ \A r \in LineStarts(text) : r < p => text[r] \notin Breaks
              /\ bytes = LineAt(text, p).next - 1
              /\ LineAt(text, p).next - 1 \in p..Len(text)
    BY <1>5, BytesAre
  <2> HIDE DEF bytes
  <2>2. CASE p > Len(w)
    <3>1. b <= bytes
      BY <1>1, <1>2, <2>1, <2>2
    <3> QED
      BY <3>1 DEF b, bytes
  <2>3. CASE p <= Len(w)
    <3>1. p \in 1..Len(w)
      BY <1>1, <2>1, <2>3
    <3>2. w[p] \in Breaks /\ p \in LineStarts(w) /\ LineAt(w, p).next <= LineAt(text, p).next
      BY <2>1, <3>1, EmptyLine
    <3>3. PICK k \in 1..n : Starts(w)[k] = p
      BY <1>3, <3>2
    <3>4. lines[k].text = <<>>
      BY <1>1, <1>3, <3>1, <3>2, <3>3, LineIs
    <3>5. EndsHeader(lines[k])
      <4>1. ToSet(lines[k].text) = {}
        BY <3>4 DEF ToSet
      <4> QED
        BY <3>4, <4>1 DEF EndsHeader, IsHeaderLikeLine
    <3>6. \/ stop = 0 /\ \A i \in 1..n : ~EndsHeader(lines[i])
          \/ stop \in 1..n /\ \A i \in 1..(stop - 1) : ~EndsHeader(lines[i])
      BY <1>3, HeaderEndIs
    <3> HIDE DEF stop, n, lines, w
    <3>7. stop \in 1..n /\ stop <= k /\ stop # 0
      <4>1. stop \in 1..n /\ \A i \in 1..(stop - 1) : ~EndsHeader(lines[i])
        BY <3>5, <3>6
      <4>2. ~(k \in 1..(stop - 1))
        BY <3>5, <4>1
      <4> QED
        BY <1>3, <4>1, <4>2
    <3> DEFINE q == Starts(w)[stop]
    <3>8. /\ q \in LineStarts(w) /\ q \in 1..Len(w) /\ lines[stop] = LineAt(w, q)
          /\ stop = k \/ stop < k
      BY <1>3, <3>7
    <3>9. q <= p
      <4>1. stop < k => q < p
        BY <1>3, <3>3, <3>7
      <4>2. stop = k => q = p
        BY <3>3
      <4> QED
        BY <1>1, <2>1, <3>8, <4>1, <4>2
    <3> HIDE DEF q
    <3>10. CASE lines[stop].text = <<>>
      <4>1. b = LineAt(w, q).next - 1
        BY <1>2, <3>7, <3>8, <3>10 DEF BodyStart
      <4>2. text[q] \in Breaks
        BY <1>1, <3>8, <3>10, LineIs
      <4>3. q \in LineStarts(text)
        BY <3>8, <4>2, EmptyLine DEF w
      <4>4. ~(q < p)
        BY <2>1, <4>2, <4>3
      <4>5. q = p
        BY <1>1, <2>1, <3>8, <3>9, <4>4
      <4>6. LineAt(w, q).next - 1 \in q..Len(w)
        BY <1>1, <3>8, NextIs
      <4>7. b <= bytes
        <5>1. LineAt(w, p).next \in Nat /\ LineAt(text, p).next \in Nat
          BY <1>1, <2>1, <3>1, NextIs
        <5>2. b = LineAt(w, p).next - 1
          BY <4>1, <4>5
        <5> QED
          BY <2>1, <3>2, <5>1, <5>2
      <4> QED
        BY <4>7 DEF b, bytes
    <3>11. CASE lines[stop].text # <<>>
      <4>1. b = LineAt(w, q).first - 1
        BY <1>2, <3>7, <3>8, <3>11 DEF BodyStart
      <4>2. LineAt(w, q).first = q
        BY <1>1, <3>8, LineIs
      <4>3. b <= bytes
        BY <1>1, <1>2, <2>1, <3>8, <3>9, <4>1, <4>2
      <4> QED
        BY <4>3 DEF b, bytes
    <3> QED
      BY <3>10, <3>11
  <2> QED
    BY <1>1, <2>1, <2>2, <2>3
<1> QED
  BY <1>4, <1>5

\* The copy's body ends with that of the mail.
LEMMA BodyKept ==
  ASSUME NEW text \in Seq(Char)
  PROVE  IsSuffix(Body(text), Body(NormalizedCopy(text)))
<1> DEFINE b == Normalize(text).body
           copy == NormalizedCopy(text)
           rest == SubSeq(text, b + 1, Len(text))
           c == InspectWindow(text).bytes
           d == InspectWindow(copy).bytes
           n == Len(text)
<1>1. b \in 0..n /\ c \in 0..n /\ b <= c /\ n \in Nat
  BY WindowIs, BodyBegins, BytesAre, BodyIsLater
<1>2. PICK head : Clean(head) /\ Normalize(text).header = head \o CRLF
  BY HeaderClean
<1> DEFINE header == head \o CRLF
           h == Len(header)
<1>3. header \in Seq(Char) /\ h = Len(head) + 2 /\ h \in Nat
  <2>1. head \in Seq(Char) /\ CRLF \in Seq(Char) /\ Len(CRLF) = 2
    BY <1>2, LineBreak DEF Clean
  <2>2. header \in Seq(Char) /\ Len(header) = Len(head) + Len(CRLF) /\ Len(head) \in Nat
    BY <2>1, Joined
  <2> QED
    BY <2>1, <2>2
<1>4. copy = header \o rest
  BY <1>2 DEF NormalizedCopy
<1> HIDE DEF b
<1>5. rest \in Seq(Char) /\ Len(rest) = n - b /\ \A i \in 1..(n - b) : rest[i] = text[b + i]
  <2>1. rest \in Seq(Char) /\ Len(rest) = n - b
    BY <1>1
  <2>2. ASSUME NEW i \in 1..(n - b) PROVE rest[i] = text[b + i]
    <3>1. rest[i] = text[(b + 1) + i - 1] /\ (b + 1) + i - 1 = b + i
      BY <1>1
    <3> QED
      BY <3>1
  <2> QED
    BY <2>1, <2>2
<1> HIDE DEF rest
<1>6. d <= h
  <2>1. InspectWindow(header \o rest).bytes <= Len(head) + 2
    BY <1>2, <1>5, CleanIsRead
  <2> QED
    BY <1>3, <1>4, <2>1
<1> HIDE DEF copy, header, h
<1>7. /\ copy \in Seq(Char) /\ Len(copy) = h + Len(rest)
      /\ \A i \in 1..Len(rest) : copy[h + i] = rest[i]
  BY <1>3, <1>4, <1>5, Joined DEF h
<1>8. d \in 0..Len(copy)
  BY <1>7, BytesAre
<1> DEFINE m == Len(copy)
           s == SubSeq(text, c + 1, n)
           t == SubSeq(copy, d + 1, m)
<1>9. s = Body(text) /\ t = Body(copy)
  BY DEF Body
<1> HIDE DEF c, d, n, m
<1>10. m = h + (n - b) /\ m \in Nat /\ d \in 0..m
  BY <1>1, <1>3, <1>5, <1>7, <1>8 DEF m
<1>11. s \in Seq(Char) /\ Len(s) = n - c /\ \A i \in 1..(n - c) : s[i] = text[c + i]
  <2>1. s \in Seq(Char) /\ Len(s) = n - c
    BY <1>1 DEF n
  <2>2. ASSUME NEW i \in 1..(n - c) PROVE s[i] = text[c + i]
    <3>1. s[i] = text[(c + 1) + i - 1] /\ (c + 1) + i - 1 = c + i
      BY <1>1 DEF n
    <3> QED
      BY <3>1
  <2> QED
    BY <2>1, <2>2
<1>12. t \in Seq(Char) /\ Len(t) = m - d /\ \A i \in 1..(m - d) : t[i] = copy[d + i]
  <2>1. t \in Seq(Char) /\ Len(t) = m - d
    BY <1>7, <1>10 DEF m
  <2>2. ASSUME NEW i \in 1..(m - d) PROVE t[i] = copy[d + i]
    <3>1. t[i] = copy[(d + 1) + i - 1] /\ (d + 1) + i - 1 = d + i
      BY <1>7, <1>10 DEF m
    <3> QED
      BY <3>1
  <2> QED
    BY <2>1, <2>2
<1> HIDE DEF s, t
<1> DEFINE e == h + (c - b) - d
<1>13. e \in Nat /\ Len(t) = e + Len(s)
  BY <1>1, <1>3, <1>6, <1>10, <1>11, <1>12
<1>14. ASSUME NEW i \in 1..Len(s) PROVE t[e + i] = s[i]
  <2>1. /\ e + i \in 1..(m - d) /\ d + (e + i) = h + (c - b + i) /\ c - b + i \in 1..(n - b)
        /\ b + (c - b + i) = c + i /\ i \in 1..(n - c)
    BY <1>1, <1>3, <1>6, <1>10, <1>11, <1>12
  <2> HIDE DEF e
  <2>2. t[e + i] = copy[h + (c - b + i)]
    BY <1>12, <2>1
  <2>3. copy[h + (c - b + i)] = rest[c - b + i]
    BY <1>5, <1>7, <2>1
  <2>4. rest[c - b + i] = text[c + i]
    BY <1>5, <2>1
  <2> QED
    BY <1>11, <2>1, <2>2, <2>3, <2>4
<1> HIDE DEF e
<1>15. IsSuffix(s, t)
  BY <1>11, <1>12, <1>13, <1>14, AtTheEnd
<1> QED
  BY <1>9, <1>15 DEF copy

\* The second attempt never costs a word of the mail, and not a byte of its body,
\* whatever the mail and however long its header.
THEOREM NothingIsLost == Spec => []TextKept
<1>1. InputInv => TextKept
  <2> SUFFICES ASSUME InputInv, attempt = 2 PROVE TextKept
    BY DEF TextKept
  <2>1. file.text \in Seq(Char) /\ input = NormalizedCopy(file.text)
    BY TextOf DEF InputInv
  <2>2. IsSuffix(Body(file.text), Body(input)) /\ Words(input) = Words(file.text)
    BY <2>1, BodyKept, WordsKept
  <2> QED
    BY <2>2 DEF TextKept
<1> QED
  BY <1>1, InputInvariance, PTL

-----------------------------------------------------------------------------
(* The fields of a header *)

\* Greatest positions exist.
LEMMA Greatest ==
  ASSUME NEW n \in Nat, NEW S \in SUBSET (1..n), S # {}
  PROVE  Max(S) \in S /\ \A m \in S : m <= Max(S)
<1> DEFINE T == {n - x : x \in S}
<1>1. T \in SUBSET Nat /\ T # {}
  <2>1. \A x \in S : n - x \in Nat
    OBVIOUS
  <2> QED
    BY <2>1
<1>2. Min(T) \in T /\ \A m \in T : Min(T) <= m
  BY <1>1, Least
<1> DEFINE t == Min(T)
<1> HIDE DEF t
<1>3. t \in T /\ \A m \in T : t <= m
  BY <1>2 DEF t
<1>4. PICK x \in S : t = n - x
  BY <1>3
<1>5. \A m \in S : m <= x
  <2> SUFFICES ASSUME NEW m \in S PROVE m <= x
    OBVIOUS
  <2>1. t <= n - m
    BY <1>3
  <2>2. m \in Nat /\ x \in Nat
    OBVIOUS
  <2> QED
    BY <1>4, <2>1, <2>2
<1>6. \E y \in S : \A m \in S : y >= m
  BY <1>5
<1>7. \A y, m \in S : y >= m <=> m <= y
  OBVIOUS
<1> QED
  BY <1>6, <1>7 DEF Max

\* What is left of a text without the blanks around it is text.
LEMMA Trimmed == ASSUME NEW text \in Seq(Char) PROVE Trim(text) \in Seq(Char)
<1> DEFINE S == {i \in DOMAIN text : text[i] # " "}
           n == Len(text)
<1>1. n \in Nat /\ S \in SUBSET (1..n) /\ S \in SUBSET Nat
  <2>1. n \in Nat /\ DOMAIN text = 1..n
    OBVIOUS
  <2>2. S \in SUBSET (1..n)
    BY <2>1
  <2>3. \A i \in 1..n : i \in Nat
    OBVIOUS
  <2> QED
    BY <2>1, <2>2, <2>3
<1>2. Trim(text) = IF S = {} THEN <<>> ELSE SubSeq(text, Min(S), Max(S))
  BY DEF Trim
<1> HIDE DEF S
<1>3. CASE S = {}
  BY <1>2, <1>3
<1>4. CASE S # {}
  <2>1. Min(S) \in S /\ Max(S) \in S
    BY <1>1, <1>4, Least, Greatest
  <2> DEFINE i == Min(S)
             j == Max(S)
  <2>2. i \in 1..n /\ j \in 1..n
    BY <1>1, <2>1
  <2> HIDE DEF i, j
  <2>3. SubSeq(text, i, j) \in Seq(Char)
    BY <2>2
  <2> QED
    BY <1>2, <1>4, <2>3 DEF i, j
<1> QED
  BY <1>3, <1>4

\* What a field and a reading of some lines are.
FieldSet == [name : Seq(Char), value : Seq(Char)]

Readings == [fields : Seq(FieldSet), open : BOOLEAN, reasons : SUBSET {"line-without-colon"}]

LEMMA FieldIs ==
  ASSUME NEW text \in Seq(Char), ":" \in ToSet(text)
  PROVE  Field(text) \in FieldSet
<1> DEFINE S == {i \in 1..Len(text) : text[i] = ":"}
           colon == SelectInSeq(text, LAMBDA c : c = ":")
<1>1. colon = IF S # {} THEN Min(S) ELSE 0
  BY DEF SelectInSeq
<1>2. S \in SUBSET Nat /\ S # {}
  BY DEF ToSet
<1>3. Min(S) \in S
  BY <1>2, Least
<1>4. colon \in 1..Len(text)
  BY <1>1, <1>2, <1>3
<1>5. Field(text) = [name  |-> Trim(SubSeq(text, 1, colon - 1)),
                     value |-> Trim(SubSeq(text, colon + 1, Len(text)))]
  BY DEF Field
<1> HIDE DEF colon
<1>6. SubSeq(text, 1, colon - 1) \in Seq(Char) /\ SubSeq(text, colon + 1, Len(text)) \in Seq(Char)
  BY <1>4
<1>7. /\ Trim(SubSeq(text, 1, colon - 1)) \in Seq(Char)
      /\ Trim(SubSeq(text, colon + 1, Len(text))) \in Seq(Char)
  BY <1>6, Trimmed
<1> QED
  BY <1>5, <1>7 DEF FieldSet

\* A single element is a sequence.
LEMMA OneLong == ASSUME NEW S, NEW a \in S PROVE <<a>> \in Seq(S)
<1>1. <<>> \in Seq(S)
  OBVIOUS
<1>2. Append(<<>>, a) \in Seq(S)
  BY <1>1
<1>3. Append(<<>>, a) = <<a>>
  OBVIOUS
<1> QED
  BY <1>2, <1>3

LEMMA UnfoldIs ==
  ASSUME NEW value \in Seq(Char), NEW more \in Seq(Char)
  PROVE  Unfold(value, more) \in Seq(Char)
<1> DEFINE gap == IF value # <<>> /\ more # <<>> THEN <<" ">> ELSE <<>>
<1>1. gap \in Seq(Char)
  <2>1. " " \in Char
    BY DEF Char
  <2>2. <<>> \in Seq(Char)
    OBVIOUS
  <2>3. <<" ">> \in Seq(Char)
    BY <2>1, OneLong
  <2> QED
    BY <2>2, <2>3
<1>2. Unfold(value, more) = value \o gap \o more
  BY DEF Unfold
<1> HIDE DEF gap
<1> QED
  BY <1>1, <1>2

\* A line continues the last field.
Continues(line) == StripNul(line.text) # <<>> /\ StripNul(line.text)[1] = " "

\* What one line does to the fields: a continuation changes at most the last one, and
\* another line none; behind it only what it adds can be changed.
LEMMA FieldsStep ==
  ASSUME NEW read \in Readings, read.open => Len(read.fields) # 0,
         NEW line, line.text \in Seq(Char)
  PROVE  LET r == ReadLine(read, line)
             n == Len(read.fields)
         IN  /\ r \in Readings /\ (r.open => Len(r.fields) # 0) /\ n <= Len(r.fields)
             /\ \A j \in 1..(n - 1) : r.fields[j] = read.fields[j]
             /\ Continues(line) => /\ (r.open => read.open)
                                   /\ (~read.open => r.fields = read.fields)
             /\ ~Continues(line) => /\ \A j \in 1..n : r.fields[j] = read.fields[j]
                                    /\ (r.open => Len(r.fields) > n)
<1> DEFINE r == ReadLine(read, line)
           n == Len(read.fields)
           text == StripNul(line.text)
<1>1. text \in Seq(Char)
  BY Stripped
<1>2. /\ read.fields \in Seq(FieldSet) /\ read.open \in BOOLEAN /\ n \in Nat
      /\ read.reasons \in SUBSET {"line-without-colon"}
  BY DEF Readings
<1>3. CASE Continues(line) /\ read.open
  <2>1. r = [read EXCEPT !.fields[n].value = Unfold(@, Trim(text))]
    BY <1>3 DEF ReadLine, Continues
  <2>2. n \in 1..n /\ read.fields[n] \in FieldSet
    BY <1>2, <1>3
  <2> DEFINE v == Unfold(read.fields[n].value, Trim(text))
             f == [read.fields[n] EXCEPT !.value = v]
             s == [read.fields EXCEPT ![n] = f]
  <2>3. read.fields[n].value \in Seq(Char) /\ read.fields[n].name \in Seq(Char)
    BY <2>2 DEF FieldSet
  <2>4. Trim(text) \in Seq(Char)
    BY <1>1, Trimmed
  <2>5. v \in Seq(Char)
    BY <2>3, <2>4, UnfoldIs
  <2> HIDE DEF v, text
  <2>6. f \in FieldSet
    BY <2>2, <2>5 DEF FieldSet
  <2>7. r = [read EXCEPT !.fields = s]
    BY <2>1 DEF v
  <2> HIDE DEF f
  <2>8. s \in Seq(FieldSet) /\ Len(s) = n /\ \A j \in 1..(n - 1) : s[j] = read.fields[j]
    BY <1>2, <2>2, <2>6
  <2> HIDE DEF s, r
  <2>9. r \in Readings /\ r.fields = s /\ r.open = read.open
    BY <2>7, <2>8 DEF Readings
  <2> HIDE DEF n
  <2> QED
    BY <1>2, <1>3, <2>2, <2>8, <2>9 DEF r, n
<1>4. CASE Continues(line) /\ ~read.open
  <2>1. r = read
    BY <1>4 DEF ReadLine, Continues
  <2> QED
    BY <1>2, <1>4, <2>1
<1>5. CASE ~Continues(line) /\ ":" \notin ToSet(text)
  <2>1. r = [read EXCEPT !.open = FALSE, !.reasons = @ \cup {"line-without-colon"}]
    BY <1>5 DEF ReadLine, Continues
  <2> HIDE DEF r
  <2>2. r \in Readings /\ r.fields = read.fields /\ r.open = FALSE
    BY <1>2, <2>1 DEF Readings
  <2> QED
    BY <1>2, <1>5, <2>2 DEF r
<1>6. CASE ~Continues(line) /\ ":" \in ToSet(text)
  <2>1. r = [read EXCEPT !.open = TRUE, !.fields = Append(@, Field(text))]
    BY <1>6 DEF ReadLine, Continues
  <2>2. Field(text) \in FieldSet
    BY <1>1, <1>6, FieldIs
  <2> DEFINE s == Append(read.fields, Field(text))
  <2>3. s \in Seq(FieldSet) /\ Len(s) = n + 1 /\ \A j \in 1..n : s[j] = read.fields[j]
    BY <1>2, <2>2
  <2> HIDE DEF s, r
  <2>4. r = [read EXCEPT !.open = TRUE, !.fields = s]
    BY <2>1 DEF s
  <2>5. r \in Readings /\ r.fields = s /\ r.open = TRUE
    BY <2>3, <2>4 DEF Readings
  <2>6. Len(r.fields) = n + 1 /\ \A j \in 1..n : r.fields[j] = read.fields[j]
    BY <2>3, <2>5
  <2> QED
    BY <1>2, <1>6, <2>5, <2>6 DEF r
<1> QED
  BY <1>2, <1>3, <1>4, <1>5, <1>6

-----------------------------------------------------------------------------
(* The copy, line by line *)

\* Where each of some texts stands when they are joined: off[i] is where the ith ends.
PartsAt(seqs, flat, off) ==
  /\ off \in [0..Len(seqs) -> Nat] /\ off[0] = 0 /\ off[Len(seqs)] = Len(flat)
  /\ \A i \in 1..Len(seqs) :
       /\ off[i] = off[i - 1] + Len(seqs[i])
       /\ \A k \in 1..Len(seqs[i]) : flat[off[i - 1] + k] = seqs[i][k]

LEMMA PartsAre ==
  ASSUME NEW seqs, Len(seqs) \in Nat, seqs = <<>> \/ Len(seqs) # 0,
         \A i \in 1..Len(seqs) : seqs[i] \in Seq(Char)
  PROVE  FlattenSeq(seqs) \in Seq(Char) /\ \E off : PartsAt(seqs, FlattenSeq(seqs), off)
<1> DEFINE n == Len(seqs)
           flat == FlattenSeq(seqs)
<1>1. CASE n = 0
  <2>1. flat = <<>>
    BY <1>1 DEF FlattenSeq
  <2> HIDE DEF flat
  <2> DEFINE none == [i \in 0..0 |-> 0]
  <2>2. none \in [0..0 -> Nat] /\ none[0] = 0
    OBVIOUS
  <2>3. PartsAt(seqs, flat, none)
    BY <1>1, <2>1, <2>2 DEF PartsAt
  <2>4. flat \in Seq(Char)
    BY <2>1
  <2> QED
    BY <2>3, <2>4 DEF flat
<1>2. CASE n # 0
  <2>1. PICK g : Joining(seqs, n, g) /\ flat = g[n]
    BY <1>2, FlatIs
  <2> HIDE DEF n, flat
  <2> DEFINE off == [i \in 0..n |-> IF i = 0 THEN 0 ELSE Len(g[i])]
  <2>2. n \in Nat /\ n \in 1..n /\ \A i \in 1..n : seqs[i] \in Seq(Char) /\ Len(seqs[i]) \in Nat
    BY <1>2 DEF n
  <2>3. off[0] = 0 /\ \A i \in 1..n : off[i] = Len(g[i])
    BY <2>2
  <2> HIDE DEF off
  <2> DEFINE Upto(i) ==
               /\ g[i] \in Seq(Char)
               /\ \A l \in 1..i :
                    /\ off[l] = off[l - 1] + Len(seqs[l]) /\ off[l] \in 0..Len(g[i])
                    /\ off[l - 1] \in Nat
                    /\ \A k \in 1..Len(seqs[l]) : g[i][off[l - 1] + k] = seqs[l][k]
             S == {i \in 1..n : ~Upto(i)}
  <2> HIDE DEF Upto
  <2>4. S = {}
    <3> SUFFICES ASSUME S # {} PROVE FALSE
      OBVIOUS
    <3>1. S \in SUBSET Nat
      OBVIOUS
    <3>2. Min(S) \in S /\ \A k \in S : Min(S) <= k
      BY <3>1, Least
    <3> DEFINE i == Min(S)
    <3> HIDE DEF i
    <3>3. i \in 1..n /\ ~Upto(i) /\ \A k \in S : i <= k
      BY <3>2 DEF i
    <3>4. g[i] = IF i = 1 THEN seqs[i] ELSE g[i - 1] \o seqs[i]
      BY <2>1, <3>3 DEF Joining
    <3>5. CASE i = 1
      <4>1. g[1] = seqs[1] /\ seqs[1] \in Seq(Char) /\ Len(seqs[1]) \in Nat
        BY <2>2, <3>3, <3>4, <3>5
      <4>2. off[1] = Len(seqs[1]) /\ off[0] = 0
        BY <2>3, <3>3, <3>5, <4>1
      <4>3. \A l \in 1..1 : l = 1
        OBVIOUS
      <4>4. Upto(1)
        BY <4>1, <4>2, <4>3 DEF Upto
      <4> QED
        BY <3>3, <3>5, <4>4
    <3>6. CASE i # 1
      <4>1. i - 1 \in 1..n /\ i - 1 \notin S
        BY <2>2, <3>3, <3>6
      <4>2. Upto(i - 1)
        BY <4>1
      <4> DEFINE a == g[i - 1]
                 b == seqs[i]
      <4>3. g[i] = a \o b /\ a \in Seq(Char) /\ b \in Seq(Char)
        BY <2>2, <3>3, <3>4, <3>6, <4>2 DEF Upto
      <4> HIDE DEF a, b
      <4>4. /\ g[i] \in Seq(Char) /\ Len(a) \in Nat /\ Len(b) \in Nat
            /\ Len(g[i]) = Len(a) + Len(b)
            /\ \A k \in 1..Len(a) : g[i][k] = a[k]
            /\ \A k \in 1..Len(b) : g[i][Len(a) + k] = b[k]
        BY <4>3, Joined
      <4>5. off[i - 1] = Len(a) /\ off[i] = Len(g[i])
        BY <2>3, <3>3, <4>1 DEF a
      <4>6. ASSUME NEW l \in 1..i
            PROVE  /\ off[l] = off[l - 1] + Len(seqs[l]) /\ off[l] \in 0..Len(g[i])
                   /\ off[l - 1] \in Nat
                   /\ \A k \in 1..Len(seqs[l]) : g[i][off[l - 1] + k] = seqs[l][k]
        <5>1. CASE l = i
          <6>1. /\ off[i] = off[i - 1] + Len(seqs[i]) /\ off[i] \in 0..Len(g[i])
                /\ off[i - 1] \in Nat
            BY <4>4, <4>5 DEF b
          <6>2. \A k \in 1..Len(seqs[i]) : g[i][off[i - 1] + k] = seqs[i][k]
            BY <4>4, <4>5 DEF b
          <6> QED
            BY <5>1, <6>1, <6>2
        <5>2. CASE l # i
          <6>1. l \in 1..(i - 1) /\ l \in 1..n
            BY <2>2, <3>3, <5>2
          <6>2. /\ off[l] = off[l - 1] + Len(seqs[l]) /\ off[l] \in 0..Len(a)
                /\ off[l - 1] \in Nat
                /\ \A k \in 1..Len(seqs[l]) : a[off[l - 1] + k] = seqs[l][k]
            BY <4>2, <6>1 DEF a, Upto
          <6>3. Len(seqs[l]) \in Nat
            BY <2>2, <6>1
          <6>4. \A k \in 1..Len(seqs[l]) : off[l - 1] + k \in 1..Len(a)
            <7> DEFINE o == off[l - 1]
                       c == Len(seqs[l])
                       z == Len(a)
            <7>1. o \in Nat /\ c \in Nat /\ z \in Nat /\ o + c <= z
              BY <4>4, <6>2, <6>3
            <7> HIDE DEF o, c, z
            <7>2. \A k \in 1..c : o + k \in 1..z
              BY <7>1
            <7> QED
              BY <7>2 DEF o, c, z
          <6>5. off[l] \in 0..Len(g[i])
            BY <4>4, <6>2
          <6>6. \A k \in 1..Len(seqs[l]) : g[i][off[l - 1] + k] = seqs[l][k]
            BY <4>4, <6>2, <6>4
          <6> QED
            BY <6>2, <6>5, <6>6
        <5> QED
          BY <5>1, <5>2
      <4>7. Upto(i)
        BY <4>4, <4>6 DEF Upto
      <4> QED
        BY <3>3, <4>7
    <3> QED
      BY <3>5, <3>6
  <2>5. Upto(n)
    BY <2>2, <2>4
  <2>6. \A i \in 1..n : off[i] \in Nat
    <3> SUFFICES ASSUME NEW i \in 1..n PROVE off[i] \in Nat
      OBVIOUS
    <3>1. off[i] \in 0..Len(g[n])
      BY <2>5 DEF Upto
    <3> QED
      BY <3>1
  <2>7. off \in [0..n -> Nat]
    <3>1. DOMAIN off = 0..n /\ off = [i \in 0..n |-> off[i]]
      BY DEF off
    <3>2. \A i \in 0..n : i = 0 \/ i \in 1..n
      BY <2>2
    <3>3. \A i \in 0..n : off[i] \in Nat
      BY <2>3, <2>6, <3>2
    <3> QED
      BY <3>1, <3>3
  <2>8. off[n] = Len(flat)
    BY <2>1, <2>2, <2>3
  <2>9. PartsAt(seqs, flat, off)
    BY <2>1, <2>3, <2>5, <2>7, <2>8 DEF PartsAt, n, Upto
  <2>10. flat \in Seq(Char)
    BY <2>1, <2>5 DEF Upto
  <2> QED
    BY <2>9, <2>10 DEF flat
<1> QED
  BY <1>1, <1>2

\* A line that is given and ended by CRLF is read as it is.
RowAt(x, p, r) ==
  /\ p \in 1..Len(x) /\ r \in Seq(Char) /\ p + Len(r) + 1 <= Len(x)
  /\ \A k \in 1..Len(r) : x[p + k - 1] = r[k] /\ r[k] \notin Breaks
  /\ x[p + Len(r)] = "CR" /\ x[p + Len(r) + 1] = "LF"

LEMMA RowIs ==
  ASSUME NEW x \in Seq(Char), NEW p, NEW r, RowAt(x, p, r)
  PROVE  LineAt(x, p).text = r /\ LineAt(x, p).next = p + Len(r) + 2
<1> DEFINE e == LineEnd(x, p)
           n == Len(r)
<1>0. /\ p \in 1..Len(x) /\ r \in Seq(Char) /\ p + n + 1 <= Len(x)
      /\ \A k \in 1..n : x[p + k - 1] = r[k] /\ r[k] \notin Breaks
      /\ x[p + n] = "CR" /\ x[p + n + 1] = "LF"
  BY DEF RowAt
<1>1. n \in Nat /\ Len(x) \in Nat
  BY <1>0
<1>2. /\ e \in p..(Len(x) + 1)
      /\ \A i \in p..(e - 1) : x[i] \notin Breaks
      /\ e <= Len(x) => x[e] \in Breaks
      /\ \A i \in p..Len(x) : x[i] \in Breaks => e <= i
  BY <1>0, LineEnds
<1> HIDE DEF e
<1>3. e <= p + n
  <2>1. p + n \in p..Len(x) /\ x[p + n] \in Breaks
    BY <1>0, <1>1 DEF Breaks
  <2> QED
    BY <1>0, <1>2, <2>1
<1>4. ~(e < p + n)
  <2> SUFFICES ASSUME e < p + n PROVE FALSE
    OBVIOUS
  <2>1. e - p + 1 \in 1..n /\ p + (e - p + 1) - 1 = e /\ e <= Len(x)
    BY <1>0, <1>1, <1>2
  <2>2. x[e] = r[e - p + 1] /\ r[e - p + 1] \notin Breaks
    BY <1>0, <2>1
  <2> QED
    BY <1>2, <2>1, <2>2
<1>5. e = p + n
  BY <1>0, <1>1, <1>2, <1>3, <1>4
<1>6. LineAt(x, p).text = SubSeq(x, p, e - 1)
  BY DEF LineAt, e
<1>7. SubSeq(x, p, e - 1) = r
  <2> DEFINE s == SubSeq(x, p, e - 1)
  <2>1. s \in Seq(Char) /\ Len(s) = n /\ \A k \in 1..n : s[k] = x[p + k - 1]
    BY <1>0, <1>1, <1>5
  <2> HIDE DEF s
  <2>2. \A k \in 1..n : s[k] = r[k]
    BY <1>0, <2>1
  <2>3. s = r
    BY <1>0, <1>1, <2>1, <2>2
  <2> QED
    BY <2>3 DEF s
<1>8. LineAt(x, p).next = e + 2
  <2>1. e < Len(x) /\ x[e] = "CR" /\ x[e + 1] = "LF" /\ ~(e > Len(x))
    BY <1>0, <1>1, <1>5
  <2> QED
    BY <2>1 DEF LineAt, e
<1> QED
  BY <1>0, <1>1, <1>5, <1>6, <1>7, <1>8

\* The positions of some rows that are each ended by CRLF, the last of them empty.
Rows(x, n, row, off) ==
  /\ off \in [0..n -> Nat] /\ off[0] = 0 /\ off[n] + 2 <= Len(x)
  /\ x[off[n] + 1] = "CR" /\ x[off[n] + 2] = "LF"
  /\ \A i \in 1..n :
       /\ row[i] \in Seq(Char) /\ off[i] = off[i - 1] + Len(row[i]) + 2
       /\ \A k \in 1..Len(row[i]) : x[off[i - 1] + k] = row[i][k] /\ row[i][k] \notin Breaks
       /\ x[off[i] - 1] = "CR" /\ x[off[i]] = "LF" /\ off[i] + 2 <= Len(x)

\* Such rows are the lines that are read.
LEMMA RowsAre ==
  ASSUME NEW x \in Seq(Char), TextStart(x) = 1,
         NEW n \in Nat, NEW row, NEW off, Rows(x, n, row, off)
  PROVE  /\ n + 1 \in 1..Len(Lines(x))
         /\ \A i \in 1..n : Lines(x)[i].text = row[i]
         /\ Lines(x)[n + 1].text = <<>>
<1> DEFINE m == Len(Lines(x))
<1>1. /\ m \in Nat /\ Starts(x) \in [1..m -> LineStarts(x)]
      /\ \A i \in 1..m : Lines(x)[i] = LineAt(x, Starts(x)[i])
      /\ \A p \in LineStarts(x) : \E i \in 1..m : Starts(x)[i] = p
      /\ LineStarts(x) \in SUBSET (1..Len(x)) /\ Len(x) \in Nat
  BY LinesAre
<1>2. /\ off \in [0..n -> Nat] /\ off[0] = 0 /\ off[n] + 2 <= Len(x)
      /\ x[off[n] + 1] = "CR" /\ x[off[n] + 2] = "LF"
  BY DEF Rows
<1>3. \A i \in 1..n :
       /\ row[i] \in Seq(Char) /\ off[i] = off[i - 1] + Len(row[i]) + 2
       /\ \A k \in 1..Len(row[i]) : x[off[i - 1] + k] = row[i][k] /\ row[i][k] \notin Breaks
       /\ x[off[i] - 1] = "CR" /\ x[off[i]] = "LF" /\ off[i] + 2 <= Len(x)
  BY DEF Rows
<1>4. ASSUME NEW i \in 1..n
      PROVE  LET p == off[i - 1] + 1
             IN  /\ p \in 1..Len(x) /\ LineAt(x, p).text = row[i]
                 /\ LineAt(x, p).next = off[i] + 1
  <2> DEFINE o == off[i - 1]
             r == row[i]
             c == Len(r)
  <2>1. o \in Nat /\ off[i] \in Nat
    BY <1>2
  <2>2. r \in Seq(Char) /\ c \in Nat /\ off[i] = o + c + 2 /\ off[i] + 2 <= Len(x)
    BY <1>3
  <2>3. /\ x[off[i] - 1] = "CR" /\ x[off[i]] = "LF"
        /\ \A k \in 1..c : x[o + k] = r[k] /\ r[k] \notin Breaks
    BY <1>3
  <2> HIDE DEF o, r
  <2>4. o + 1 \in 1..Len(x) /\ (o + 1) + c + 1 <= Len(x)
    BY <1>1, <2>1, <2>2
  <2>5. off[i] - 1 = (o + 1) + c /\ off[i] = (o + 1) + c + 1
    BY <2>1, <2>2
  <2>6. x[(o + 1) + c] = "CR" /\ x[(o + 1) + c + 1] = "LF"
    BY <2>3, <2>5
  <2>7. \A k \in 1..c : x[(o + 1) + k - 1] = r[k] /\ r[k] \notin Breaks
    <3> SUFFICES ASSUME NEW k \in 1..c PROVE x[(o + 1) + k - 1] = r[k] /\ r[k] \notin Breaks
      OBVIOUS
    <3>1. (o + 1) + k - 1 = o + k
      BY <2>1
    <3> QED
      BY <2>3, <3>1
  <2>8. LineAt(x, o + 1).text = r /\ LineAt(x, o + 1).next = (o + 1) + c + 2
    <3>1. RowAt(x, o + 1, r)
      BY <2>2, <2>4, <2>6, <2>7 DEF RowAt
    <3> QED
      BY <3>1, RowIs
  <2>9. LineAt(x, o + 1).next = off[i] + 1
    BY <2>1, <2>2, <2>8
  <2> QED
    BY <2>4, <2>8, <2>9 DEF o, r
<1> DEFINE Good(i) == i + 1 \in 1..m /\ Starts(x)[i + 1] = off[i] + 1
           S == {i \in 0..n : ~Good(i)}
<1>5. Good(0)
  <2>1. 1 \in LineStarts(x)
    BY <1>1, <1>2 DEF LineStarts
  <2>2. m # 0
    BY <1>1, <2>1
  <2>3. Starts(x)[1] = 1
    BY <2>2, FirstLine
  <2> QED
    BY <1>1, <1>2, <2>2, <2>3
<1> HIDE DEF m
<1>6. S = {}
  <2> SUFFICES ASSUME S # {} PROVE FALSE
    OBVIOUS
  <2>1. S \in SUBSET Nat
    OBVIOUS
  <2>2. Min(S) \in S /\ \A k \in S : Min(S) <= k
    BY <2>1, Least
  <2> DEFINE i == Min(S)
  <2> HIDE DEF i
  <2>3. i \in 0..n /\ ~Good(i) /\ \A k \in S : i <= k
    BY <2>2 DEF i
  <2>4. i # 0
    BY <1>5, <2>3
  <2>5. i - 1 \in 0..n /\ i - 1 \notin S /\ i \in 1..n
    BY <2>3, <2>4
  <2>6. Good(i - 1)
    BY <2>5
  <2>7. i \in 1..m /\ Starts(x)[i] = off[i - 1] + 1
    BY <2>5, <2>6
  <2>8. Lines(x)[i].next = off[i] + 1
    BY <1>1, <1>4, <2>5, <2>7
  <2>9. i # m
    <3>1. off[i] + 2 <= Len(x) /\ off[i] \in Nat
      BY <1>2, <1>3, <2>5
    <3>2. i = m => Lines(x)[i].next = Len(x) + 1
      BY <2>7, LinesFollow DEF m
    <3> QED
      BY <1>1, <2>8, <3>1, <3>2
  <2>10. i < m
    BY <1>1, <2>7, <2>9
  <2>11. Starts(x)[i + 1] = Lines(x)[i].next
    BY <2>7, <2>10, LinesFollow DEF m
  <2> QED
    BY <1>1, <2>3, <2>7, <2>8, <2>10, <2>11
<1>7. ASSUME NEW i \in 1..n PROVE i \in 1..m /\ Lines(x)[i].text = row[i]
  <2>1. i - 1 \in 0..n /\ (i - 1) + 1 = i
    OBVIOUS
  <2>2. Good(i - 1)
    BY <1>6, <2>1
  <2>3. i \in 1..m /\ Starts(x)[i] = off[i - 1] + 1
    BY <2>1, <2>2
  <2> QED
    BY <1>1, <1>4, <2>3
<1>8. Good(n)
  <2>1. n \in 0..n
    OBVIOUS
  <2> QED
    BY <1>6, <2>1
<1>9. Lines(x)[n + 1].text = <<>>
  <2> DEFINE p == off[n] + 1
  <2>1. Lines(x)[n + 1] = LineAt(x, p)
    BY <1>1, <1>8
  <2>2. p \in 1..Len(x) /\ x[p] \in Breaks
    BY <1>1, <1>2 DEF Breaks
  <2> HIDE DEF p
  <2> QED
    BY <2>1, <2>2, LineIs
<1> QED
  BY <1>7, <1>8, <1>9 DEF m

-----------------------------------------------------------------------------
(* The readings of the mail and of the copy *)

\* The first k lines of two headers say the same, but for NULs.
Alike(a, b, k) == \A i \in 1..k : StripNul(a[i].text) = StripNul(b[i].text)

\* They are read alike.
LEMMA SameReading ==
  ASSUME NEW k \in Nat, NEW a, NEW b, NEW n \in Nat, NEW m \in Nat, NEW g, NEW h,
         k <= n, k <= m, Reading(a, n, g), Reading(b, m, h),
         Alike(a, b, k)
  PROVE  g[k] = h[k]
<1> DEFINE S == {i \in 0..k : g[i] # h[i]}
<1>1. S = {}
  <2> SUFFICES ASSUME S # {} PROVE FALSE
    OBVIOUS
  <2>1. S \in SUBSET Nat
    OBVIOUS
  <2>2. Min(S) \in S /\ \A j \in S : Min(S) <= j
    BY <2>1, Least
  <2> DEFINE i == Min(S)
  <2> HIDE DEF i
  <2>3. i \in 0..k /\ g[i] # h[i] /\ \A j \in S : i <= j
    BY <2>2 DEF i
  <2>4. /\ g[i] = IF i = 0 THEN NothingRead ELSE ReadLine(g[i - 1], a[i])
        /\ h[i] = IF i = 0 THEN NothingRead ELSE ReadLine(h[i - 1], b[i])
    <3>1. i \in 0..n /\ i \in 0..m
      BY <2>3
    <3> QED
      BY <3>1 DEF Reading
  <2>5. i # 0
    BY <2>3, <2>4
  <2>6. i - 1 \in 0..k /\ i - 1 \notin S /\ i \in 1..k
    BY <2>3, <2>5
  <2>7. g[i - 1] = h[i - 1] /\ StripNul(a[i].text) = StripNul(b[i].text)
    BY <2>6 DEF Alike
  <2>8. ReadLine(h[i - 1], a[i]) = ReadLine(h[i - 1], b[i])
    BY <2>7 DEF ReadLine
  <2> QED
    BY <2>3, <2>4, <2>5, <2>7, <2>8
<1>2. k \in 0..k
  OBVIOUS
<1> QED
  BY <1>1, <1>2

\* What a reading is after every line.
LEMMA ReadingIs ==
  ASSUME NEW lines, NEW n \in Nat, NEW g, Reading(lines, n, g),
         \A i \in 1..n : lines[i].text \in Seq(Char)
  PROVE  \A i \in 0..n : g[i] \in Readings /\ (g[i].open => Len(g[i].fields) # 0)
<1> DEFINE Fine(i) == g[i] \in Readings /\ (g[i].open => Len(g[i].fields) # 0)
           S == {i \in 0..n : ~Fine(i)}
<1> HIDE DEF Fine
<1>1. S = {}
  <2> SUFFICES ASSUME S # {} PROVE FALSE
    OBVIOUS
  <2>1. S \in SUBSET Nat
    OBVIOUS
  <2>2. Min(S) \in S /\ \A j \in S : Min(S) <= j
    BY <2>1, Least
  <2> DEFINE i == Min(S)
  <2> HIDE DEF i
  <2>3. i \in 0..n /\ ~Fine(i) /\ \A j \in S : i <= j
    BY <2>2 DEF i
  <2>4. g[i] = IF i = 0 THEN NothingRead ELSE ReadLine(g[i - 1], lines[i])
    BY <2>3 DEF Reading
  <2>5. CASE i = 0
    <3>1. NothingRead \in Readings
      BY DEF NothingRead, Readings
    <3>2. ~NothingRead.open
      BY DEF NothingRead
    <3> QED
      BY <2>3, <2>4, <2>5, <3>1, <3>2 DEF Fine
  <2>6. CASE i # 0
    <3>1. i - 1 \in 0..n /\ i - 1 \notin S /\ i \in 1..n
      BY <2>3, <2>6
    <3>2. g[i - 1] \in Readings /\ (g[i - 1].open => Len(g[i - 1].fields) # 0)
      BY <3>1 DEF Fine
    <3>3. lines[i].text \in Seq(Char)
      BY <3>1
    <3> DEFINE r == ReadLine(g[i - 1], lines[i])
    <3>4. r \in Readings /\ (r.open => Len(r.fields) # 0)
      BY <3>2, <3>3, FieldsStep
    <3>5. g[i] = r
      BY <2>4, <2>6
    <3> QED
      BY <2>3, <3>4, <3>5 DEF Fine
  <2> QED
    BY <2>5, <2>6
<1> QED
  BY <1>1 DEF Fine

\* Behind a line that is no continuation the fields before it stay as they are.
LEMMA FieldsFixed ==
  ASSUME NEW lines, NEW n \in Nat, NEW g, Reading(lines, n, g),
         \A i \in 1..n : lines[i].text \in Seq(Char),
         NEW m \in 0..n, m < n => ~Continues(lines[m + 1])
  PROVE  IsPrefix(g[m].fields, g[n].fields)
<1> DEFINE L == Len(g[m].fields)
           Fixed(i) == /\ L <= Len(g[i].fields)
                       /\ \A j \in 1..L : g[i].fields[j] = g[m].fields[j]
                       /\ i > m /\ g[i].open => Len(g[i].fields) > L
           S == {i \in m..n : ~Fixed(i)}
<1>1. \A i \in 0..n : /\ g[i] \in Readings /\ (g[i].open => Len(g[i].fields) # 0)
                      /\ g[i].fields \in Seq(FieldSet) /\ Len(g[i].fields) \in Nat
  <2>1. \A i \in 0..n : g[i] \in Readings /\ (g[i].open => Len(g[i].fields) # 0)
    BY ReadingIs
  <2>2. \A r \in Readings : r.fields \in Seq(FieldSet) /\ Len(r.fields) \in Nat
    BY DEF Readings
  <2> QED
    BY <2>1, <2>2
<1>2. L \in Nat
  BY <1>1
<1> HIDE DEF Fixed, L
<1>3. S = {}
  <2> SUFFICES ASSUME S # {} PROVE FALSE
    OBVIOUS
  <2>1. S \in SUBSET Nat
    OBVIOUS
  <2>2. Min(S) \in S /\ \A j \in S : Min(S) <= j
    BY <2>1, Least
  <2> DEFINE i == Min(S)
  <2> HIDE DEF i
  <2>3. i \in m..n /\ ~Fixed(i) /\ \A j \in S : i <= j
    BY <2>2 DEF i
  <2>4. i # m
    <3>1. Fixed(m)
      BY <1>2 DEF Fixed, L
    <3> QED
      BY <2>3, <3>1
  <2>5. i - 1 \in m..n /\ i - 1 \notin S /\ i \in 1..n /\ i > m
    BY <2>3, <2>4
  <2> DEFINE k == i - 1
             read == g[k]
             r == ReadLine(read, lines[i])
             c == Len(read.fields)
  <2>6. k \in m..n /\ k \in 0..n /\ Fixed(k) /\ k + 1 = i
    BY <2>5
  <2>7. g[i] = r
    BY <2>5 DEF Reading
  <2>8. /\ read \in Readings /\ (read.open => c # 0) /\ c \in Nat
        /\ lines[i].text \in Seq(Char)
    BY <1>1, <2>5, <2>6
  <2> HIDE DEF k
  <2> DEFINE line == lines[i]
  <2> HIDE DEF line
  <2>9. /\ r \in Readings /\ c <= Len(r.fields)
        /\ \A j \in 1..(c - 1) : r.fields[j] = read.fields[j]
        /\ Continues(line) => (r.open => read.open) /\ (~read.open => r.fields = read.fields)
        /\ ~Continues(line) => /\ \A j \in 1..c : r.fields[j] = read.fields[j]
                               /\ (r.open => Len(r.fields) > c)
    BY <2>8, FieldsStep DEF line
  <2>10. /\ L <= c
         /\ \A j \in 1..L : read.fields[j] = g[m].fields[j]
         /\ k > m /\ read.open => c > L
    BY <2>6 DEF Fixed
  <2>11. Len(r.fields) \in Nat
    BY <1>1, <2>5, <2>7
  <2> HIDE DEF r, read, c
  <2>12. CASE Continues(line)
    <3>1. k # m
      BY <2>5, <2>6, <2>12 DEF line
    <3>2. k > m
      BY <2>6, <3>1
    <3>3. \A j \in 1..L : r.fields[j] = read.fields[j]
      <4>1. CASE read.open
        <5>1. \A j \in 1..L : j \in 1..(c - 1)
          BY <1>2, <2>8, <2>10, <3>2, <4>1 DEF c
        <5> QED
          BY <2>9, <5>1
      <4>2. CASE ~read.open
        BY <2>9, <2>12, <4>2
      <4> QED
        BY <4>1, <4>2
    <3>4. r.open => Len(r.fields) > L
      BY <1>2, <2>8, <2>9, <2>10, <2>11, <2>12, <3>2 DEF c
    <3>5. L <= Len(r.fields)
      BY <1>2, <2>8, <2>9, <2>10, <2>11 DEF c
    <3>6. Fixed(i)
      BY <2>7, <2>10, <3>3, <3>4, <3>5 DEF Fixed
    <3> QED
      BY <2>3, <3>6
  <2>13. CASE ~Continues(line)
    <3>1. \A j \in 1..L : j \in 1..c
      BY <1>2, <2>8, <2>10
    <3>2. \A j \in 1..L : r.fields[j] = read.fields[j]
      BY <2>9, <2>13, <3>1
    <3>3. L <= Len(r.fields) /\ (r.open => Len(r.fields) > L)
      BY <1>2, <2>8, <2>9, <2>10, <2>11, <2>13
    <3>4. Fixed(i)
      BY <2>7, <2>10, <3>2, <3>3 DEF Fixed
    <3> QED
      BY <2>3, <3>4
  <2> QED
    BY <2>12, <2>13
<1>4. Fixed(n)
  BY <1>3
<1> DEFINE a == g[m].fields
           b == g[n].fields
<1>5. a \in Seq(FieldSet) /\ b \in Seq(FieldSet) /\ Len(a) = L
  BY <1>1 DEF L
<1>6. L <= Len(b) /\ \A j \in 1..L : b[j] = a[j]
  BY <1>4 DEF Fixed
<1> HIDE DEF a, b
<1>7. SubSeq(a, 1, L) = SubSeq(b, 1, L)
  BY <1>2, <1>5, <1>6
<1>8. IsPrefix(a, b)
  BY <1>2, <1>5, <1>6, <1>7 DEF IsPrefix
<1> QED
  BY <1>8 DEF a, b

-----------------------------------------------------------------------------
(* The fields of the mail and of the copy *)

\* How many lines the inspector reads fields from.
HeaderLength(w) == IF BlankLine(Lines(w)) = 0 THEN Len(Lines(w)) ELSE BlankLine(Lines(w)) - 1

LEMMA FieldsRead ==
  ASSUME NEW w \in Seq(Char)
  PROVE  /\ HeaderLength(w) \in 0..Len(Lines(w))
         /\ \A i \in 1..Len(Lines(w)) : Lines(w)[i].text \in Seq(Char)
         /\ \A i \in 1..HeaderLength(w) : Lines(w)[i].text # <<>>
         /\ \A g : Reading(Lines(w), HeaderLength(w), g) =>
                     InspectWindow(w).fields = g[HeaderLength(w)].fields
<1> DEFINE lines == Lines(w)
           n == HeaderLength(w)
           blank == BlankLine(lines)
           section == IF blank = 0 THEN lines ELSE SubSeq(lines, 1, blank - 1)
<1>1. /\ Len(lines) \in Nat /\ DOMAIN lines = 1..Len(lines)
      /\ \A i \in 1..Len(lines) : lines[i] = LineAt(w, Starts(w)[i]) /\ Starts(w)[i] \in 1..Len(w)
  BY LinesAre
<1>2. \/ /\ blank = 0
         /\ \A i \in 1..Len(lines) : lines[i].text # <<>>
      \/ /\ blank \in 1..Len(lines)
         /\ lines[blank].text = <<>>
         /\ \A i \in 1..(blank - 1) : lines[i].text # <<>>
  BY <1>1, BlankIs
<1>3. n = IF blank = 0 THEN Len(lines) ELSE blank - 1
  BY DEF HeaderLength
<1>4. InspectWindow(w).fields = ReadLines(section).fields
  BY DEF InspectWindow
<1>5. \A i \in 1..Len(lines) : lines[i].text \in Seq(Char)
  BY <1>1, LineIs
<1> HIDE DEF lines, blank, n
<1>6. n \in 0..Len(lines) /\ \A i \in 1..n : lines[i].text # <<>>
  BY <1>1, <1>2, <1>3
<1>7. Len(section) = n /\ \A i \in 1..n : section[i] = lines[i]
  <2>1. CASE blank = 0
    BY <1>3, <2>1
  <2>2. CASE blank # 0
    <3>1. blank - 1 \in 0..Len(lines) /\ n = blank - 1
      BY <1>1, <1>2, <1>3, <2>2
    <3>2. Len(SubSeq(lines, 1, blank - 1)) = blank - 1
      BY <1>1, <3>1
    <3>3. \A i \in 1..(blank - 1) : SubSeq(lines, 1, blank - 1)[i] = lines[i]
      BY <1>1, <3>1
    <3> QED
      BY <2>2, <3>1, <3>2, <3>3
  <2> QED
    BY <2>1, <2>2
<1> HIDE DEF section
<1>8. n \in Nat
  BY <1>1, <1>6
<1>9. PICK h : Reading(section, n, h) /\ ReadLines(section) = h[n]
  BY <1>7, <1>8, ReadingExists DEF Reading, ReadLines
<1>10. ASSUME NEW g, Reading(lines, n, g) PROVE InspectWindow(w).fields = g[n].fields
  <2>1. Alike(section, lines, n)
    BY <1>7 DEF Alike
  <2>2. Reading(lines, n, g) /\ Reading(section, n, h) /\ n <= n
    BY <1>8, <1>9, <1>10
  <2>3. h[n] = g[n]
    BY <1>8, <2>1, <2>2, SameReading
  <2> QED
    BY <1>4, <1>9, <2>3
<1> QED
  BY <1>5, <1>6, <1>10 DEF n, lines

\* Where there is no NUL, none is taken out.
LEMMA NothingStripped ==
  ASSUME NEW text \in Seq(Char), "NUL" \notin ToSet(text)
  PROVE  StripNul(text) = text
<1> DEFINE n == Len(text)
           X == {"NUL"}
           f == [i \in 1..n |-> i]
<1>1. \A i \in 1..n : text[i] \notin X
  BY DEF ToSet
<1>2. Others(text, X) = 1..n /\ n \in Nat
  BY <1>1 DEF Others
<1>3. \A j \in 1..n : f[j] = j
  OBVIOUS
<1>4. f \in [1..n -> 1..n]
  OBVIOUS
<1> HIDE DEF f
<1>5. /\ \A j, k \in 1..n : j < k => f[j] < f[k]
      /\ \A p \in 1..n : \E k \in 1..n : f[k] = p
  BY <1>3
<1>6. InTurn(f, n, text, X)
  BY <1>2, <1>4, <1>5 DEF InTurn
<1>7. /\ Without(text, X) \in Seq(Char) /\ Len(Without(text, X)) = n
      /\ \A k \in 1..n : Without(text, X)[k] = text[f[k]]
  BY <1>6, WithoutIs
<1> DEFINE u == Without(text, X)
<1> HIDE DEF u
<1>8. u \in Seq(Char) /\ Len(u) = n /\ \A k \in 1..n : u[k] = text[k]
  BY <1>3, <1>7 DEF u
<1>9. u = text
  BY <1>8
<1> QED
  BY <1>9 DEF u, StripNul

\* The lines that are kept, one by one.
LEMMA KeptIs ==
  ASSUME NEW text \in Seq(Char)
  PROVE  LET lines == Lines(Window(text))
             kept == KeptLines(text)
             n == Len(kept)
         IN  /\ n \in 0..Len(lines) /\ Len(lines) \in Nat /\ DOMAIN kept = 1..n
             /\ \A i \in 1..n : /\ kept[i] = lines[i] /\ kept[i].text \in Seq(Char)
                                /\ \A k \in 1..Len(kept[i].text) : kept[i].text[k] \notin Breaks
                                /\ ~EndsHeader(kept[i])
             /\ n < Len(lines) => EndsHeader(lines[n + 1])
<1> DEFINE w == Window(text)
           lines == Lines(w)
           kept == KeptLines(text)
           n == Len(kept)
           stop == HeaderEnd(lines)
<1>1. w \in Seq(Char)
  BY WindowIs
<1>2. /\ Len(lines) \in Nat /\ DOMAIN lines = 1..Len(lines)
      /\ \A i \in 1..Len(lines) : lines[i] = LineAt(w, Starts(w)[i]) /\ Starts(w)[i] \in 1..Len(w)
  BY <1>1, LinesAre
<1>3. \/ /\ stop = 0
         /\ \A i \in 1..Len(lines) : ~EndsHeader(lines[i])
      \/ /\ stop \in 1..Len(lines)
         /\ EndsHeader(lines[stop])
         /\ \A i \in 1..(stop - 1) : ~EndsHeader(lines[i])
  BY <1>2, HeaderEndIs
<1>4. kept = IF stop = 0 THEN lines ELSE SubSeq(lines, 1, stop - 1)
  BY DEF KeptLines
<1>5. DOMAIN kept = 1..n /\ n \in Nat
  BY KeptAre
<1> HIDE DEF kept, stop, lines, n
<1>6. n \in 0..Len(lines) /\ \A i \in 1..n : kept[i] = lines[i] /\ ~EndsHeader(kept[i])
  <2>1. CASE stop = 0
    BY <1>2, <1>3, <1>4, <2>1 DEF n
  <2>2. CASE stop # 0
    <3>1. stop \in 1..Len(lines) /\ kept = SubSeq(lines, 1, stop - 1)
      BY <1>3, <1>4, <2>2
    <3>2. n = stop - 1
      BY <1>2, <3>1 DEF n
    <3>3. \A i \in 1..(stop - 1) : kept[i] = lines[i]
      BY <1>2, <3>1
    <3> QED
      BY <1>2, <1>3, <2>2, <3>1, <3>2, <3>3
  <2> QED
    BY <2>1, <2>2
<1>7. n < Len(lines) => EndsHeader(lines[n + 1])
  <2>1. CASE stop = 0
    BY <1>2, <1>4, <2>1 DEF n
  <2>2. CASE stop # 0
    <3>1. stop \in 1..Len(lines) /\ kept = SubSeq(lines, 1, stop - 1)
      BY <1>3, <1>4, <2>2
    <3>2. n + 1 = stop
      BY <1>2, <3>1 DEF n
    <3> QED
      BY <1>3, <2>2, <3>2
  <2> QED
    BY <2>1, <2>2
<1>8. ASSUME NEW i \in 1..n
      PROVE  /\ kept[i].text \in Seq(Char)
             /\ \A k \in 1..Len(kept[i].text) : kept[i].text[k] \notin Breaks
  <2> DEFINE p == Starts(w)[i]
  <2>1. p \in 1..Len(w) /\ kept[i] = LineAt(w, p)
    BY <1>2, <1>6
  <2> HIDE DEF p
  <2>2. /\ LineAt(w, p).text \in Seq(Char)
        /\ Len(LineAt(w, p).text) = LineEnd(w, p) - p
        /\ \A k \in 1..(LineEnd(w, p) - p) : LineAt(w, p).text[k] = w[p + k - 1]
    BY <1>1, <2>1, LineIs
  <2>3. /\ LineEnd(w, p) \in p..(Len(w) + 1)
        /\ \A k \in p..(LineEnd(w, p) - 1) : w[k] \notin Breaks
    BY <1>1, <2>1, LineEnds
  <2>4. \A k \in 1..(LineEnd(w, p) - p) : p + k - 1 \in p..(LineEnd(w, p) - 1)
    BY <1>1, <2>1, <2>3
  <2> QED
    BY <2>1, <2>2, <2>3, <2>4
<1> QED
  BY <1>2, <1>5, <1>6, <1>7, <1>8 DEF n, kept, lines

\* The copy begins with the kept lines without their NULs, and an empty line.
StrippedLines(text) == [i \in DOMAIN KeptLines(text) |-> StripNul(KeptLines(text)[i].text)]

LEMMA CopyRows ==
  ASSUME NEW text \in Seq(Char), ~HiddenBom(text)
  PROVE  /\ NormalizedCopy(text) \in Seq(Char) /\ TextStart(NormalizedCopy(text)) = 1
         /\ \E off : Rows(NormalizedCopy(text), Len(KeptLines(text)), StrippedLines(text), off)
<1> DEFINE kept == KeptLines(text)
           n == Len(kept)
           row == StrippedLines(text)
           new == [i \in DOMAIN kept |-> Rewritten(kept[i])]
           head == FlattenSeq(new)
           b == Normalize(text).body
           rest == SubSeq(text, b + 1, Len(text))
           x == (head \o CRLF) \o rest
<1>1. Normalize(text).header = head \o CRLF
  BY DEF Normalize, KeptLines
<1>2. NormalizedCopy(text) = x
  BY <1>1 DEF NormalizedCopy
<1>3. rest \in Seq(Char)
  <2>1. b \in 0..Len(Window(text)) /\ Len(Window(text)) \in 0..Len(text) /\ Len(text) \in Nat
    BY BodyBegins, WindowIs
  <2> HIDE DEF b
  <2> QED
    BY <2>1
<1> HIDE DEF rest
<1>4. /\ n \in Nat /\ DOMAIN kept = 1..n
      /\ \A i \in 1..n : /\ kept[i].text \in Seq(Char)
                         /\ \A k \in 1..Len(kept[i].text) : kept[i].text[k] \notin Breaks
  <2>1. \A i \in 1..n : /\ kept[i].text \in Seq(Char)
                        /\ \A k \in 1..Len(kept[i].text) : kept[i].text[k] \notin Breaks
    BY KeptIs
  <2>2. DOMAIN kept = 1..n /\ n \in Nat
    BY KeptAre
  <2> QED
    BY <2>1, <2>2
<1>5. row = [i \in 1..n |-> StripNul(kept[i].text)] /\ new = [i \in 1..n |-> Rewritten(kept[i])]
  BY <1>4 DEF StrippedLines
<1> HIDE DEF kept, n, row
<1>6. ASSUME NEW i \in 1..n
      PROVE  /\ row[i] \in Seq(Char) /\ \A k \in 1..Len(row[i]) : row[i][k] \notin Breaks
             /\ new[i] \in Seq(Char) /\ Len(new[i]) = Len(row[i]) + 2
             /\ \A k \in 1..Len(row[i]) : new[i][k] = row[i][k]
             /\ new[i][Len(row[i]) + 1] = "CR" /\ new[i][Len(row[i]) + 2] = "LF"
  <2> DEFINE t == kept[i].text
             s == StripNul(t)
  <2>1. t \in Seq(Char) /\ \A k \in 1..Len(t) : t[k] \notin Breaks
    BY <1>4
  <2>2. row[i] = s /\ new[i] = s \o CRLF
    BY <1>5 DEF Rewritten
  <2> HIDE DEF t
  <2>3. s \in Seq(Char) /\ \A k \in 1..Len(s) : \E j \in 1..Len(t) : t[j] = s[k]
    BY <2>1, Stripped
  <2> HIDE DEF s, new
  <2>4. \A k \in 1..Len(s) : s[k] \notin Breaks
    BY <2>1, <2>3
  <2>5. CRLF \in Seq(Char) /\ Len(CRLF) = 2 /\ CRLF[1] = "CR" /\ CRLF[2] = "LF"
    BY LineBreak
  <2> DEFINE y == s \o CRLF
  <2>6. /\ y \in Seq(Char) /\ Len(y) = Len(s) + Len(CRLF)
        /\ \A k \in 1..Len(s) : y[k] = s[k]
        /\ \A k \in 1..Len(CRLF) : y[Len(s) + k] = CRLF[k]
    BY <2>3, <2>5, Joined
  <2>7. y[Len(s) + 1] = "CR" /\ y[Len(s) + 2] = "LF"
    BY <2>5, <2>6
  <2> HIDE DEF y
  <2>8. new[i] = y
    BY <2>2 DEF y
  <2> QED
    BY <2>2, <2>3, <2>4, <2>5, <2>6, <2>7, <2>8
<1>7. Len(new) = n /\ (new = <<>> \/ Len(new) # 0)
  BY <1>4, <1>5
<1> HIDE DEF new
<1>8. \A i \in 1..Len(new) : new[i] \in Seq(Char)
  BY <1>6, <1>7
<1>9. head \in Seq(Char) /\ \E off : PartsAt(new, head, off)
  BY <1>4, <1>7, <1>8, PartsAre
<1>10. PICK off : PartsAt(new, head, off)
  BY <1>9
<1> DEFINE h == Len(head)
<1> HIDE DEF head
<1>11. /\ off \in [0..n -> Nat] /\ off[0] = 0 /\ off[n] = h
       /\ \A i \in 1..n : /\ off[i] = off[i - 1] + Len(new[i])
                          /\ \A k \in 1..Len(new[i]) : head[off[i - 1] + k] = new[i][k]
  BY <1>7, <1>10 DEF PartsAt
<1>12. /\ x \in Seq(Char) /\ h \in Nat /\ h + 2 <= Len(x) /\ Len(x) \in Nat
       /\ \A k \in 1..h : x[k] = head[k]
       /\ x[h + 1] = "CR" /\ x[h + 2] = "LF"
  <2>1. CRLF \in Seq(Char) /\ Len(CRLF) = 2 /\ CRLF[1] = "CR" /\ CRLF[2] = "LF"
    BY LineBreak
  <2> DEFINE y == head \o CRLF
  <2>2. /\ y \in Seq(Char) /\ h \in Nat /\ Len(y) = h + Len(CRLF)
        /\ \A k \in 1..h : y[k] = head[k]
        /\ \A k \in 1..Len(CRLF) : y[h + k] = CRLF[k]
    BY <1>9, <2>1, Joined
  <2>3. Len(y) = h + 2 /\ y[h + 1] = "CR" /\ y[h + 2] = "LF"
    BY <2>1, <2>2
  <2> HIDE DEF y, h
  <2> DEFINE z == y \o rest
  <2>4. /\ z \in Seq(Char) /\ Len(rest) \in Nat /\ Len(z) = Len(y) + Len(rest)
        /\ \A k \in 1..Len(y) : z[k] = y[k]
    BY <1>3, <2>2, Joined
  <2> HIDE DEF z
  <2>5. z[h + 1] = "CR" /\ z[h + 2] = "LF" /\ h + 2 <= Len(z) /\ Len(z) \in Nat
    BY <2>2, <2>3, <2>4
  <2>6. \A k \in 1..h : z[k] = head[k]
    BY <2>2, <2>3, <2>4
  <2> QED
    BY <2>2, <2>4, <2>5, <2>6 DEF y, z
<1> HIDE DEF x, h
<1>13. TextStart(x) = 1
  <2>1. PICK top : /\ Clean(top) /\ Normalize(text).header = top \o CRLF
                   /\ top # <<>> /\ top[1] = "BOM" => HiddenBom(text)
    BY HeaderClean
  <2>2. (top \o CRLF)[1] # "BOM" /\ Len(top \o CRLF) >= 1 /\ top \o CRLF \in Seq(Char)
    <3>1. CRLF \in Seq(Char) /\ Len(CRLF) = 2 /\ CRLF[1] = "CR"
      BY LineBreak
    <3>2. top \in Seq(Char)
      BY <2>1 DEF Clean
    <3>3. CASE top = <<>>
      <4>1. top \o CRLF = CRLF
        BY <3>1, <3>3
      <4> QED
        BY <3>1, <4>1
    <3>4. CASE top # <<>>
      <4>1. top \o CRLF # <<>> /\ (top \o CRLF)[1] = top[1]
        BY <3>1, <3>2, <3>4, JoinedFirst
      <4>2. top \o CRLF \in Seq(Char)
        BY <3>1, <3>2, Joined
      <4>3. Len(top \o CRLF) >= 1
        BY <4>1, <4>2
      <4> QED
        BY <2>1, <3>4, <4>1, <4>2, <4>3
    <3> QED
      BY <3>3, <3>4
  <2>3. x = (top \o CRLF) \o rest
    BY <1>1, <2>1 DEF x
  <2> DEFINE y == top \o CRLF
  <2> HIDE DEF y
  <2>4. y \in Seq(Char) /\ y # <<>> /\ y[1] # "BOM" /\ x = y \o rest
    BY <2>2, <2>3 DEF y
  <2>5. x[1] = y[1]
    BY <1>3, <2>4, JoinedFirst
  <2> QED
    BY <2>4, <2>5 DEF TextStart
<1>14. Rows(x, n, row, off)
  <2>1. off[n] + 2 <= Len(x) /\ x[off[n] + 1] = "CR" /\ x[off[n] + 2] = "LF"
    BY <1>11, <1>12
  <2> DEFINE Upto(i) == off[i] <= h
             S == {i \in 0..n : ~Upto(n - i)}
  <2> HIDE DEF Upto
  <2>2. \A i \in 1..n : off[i] \in Nat /\ off[i - 1] \in Nat /\ Len(row[i]) \in Nat
    <3> SUFFICES ASSUME NEW i \in 1..n
                 PROVE  off[i] \in Nat /\ off[i - 1] \in Nat /\ Len(row[i]) \in Nat
      OBVIOUS
    <3>1. i \in 0..n /\ i - 1 \in 0..n
      BY <1>4
    <3>2. row[i] \in Seq(Char)
      BY <1>6
    <3> QED
      BY <1>11, <3>1, <3>2
  <2>3. \A i \in 1..n : off[i] = off[i - 1] + Len(row[i]) + 2
    <3> SUFFICES ASSUME NEW i \in 1..n PROVE off[i] = off[i - 1] + Len(row[i]) + 2
      OBVIOUS
    <3>1. off[i] = off[i - 1] + Len(new[i]) /\ Len(new[i]) = Len(row[i]) + 2
      BY <1>6, <1>11
    <3> QED
      BY <2>2, <3>1
  <2>4. S = {}
    <3> SUFFICES ASSUME S # {} PROVE FALSE
      OBVIOUS
    <3>1. S \in SUBSET Nat
      OBVIOUS
    <3>2. Min(S) \in S /\ \A k \in S : Min(S) <= k
      BY <3>1, Least
    <3> DEFINE i == Min(S)
    <3> HIDE DEF i
    <3>3. i \in 0..n /\ ~Upto(n - i) /\ \A k \in S : i <= k
      BY <3>2 DEF i
    <3>4. i # 0
      <4>1. n - 0 = n
        BY <1>4
      <4>2. h <= h
        BY <1>12
      <4> QED
        BY <1>11, <3>3, <4>1, <4>2 DEF Upto
    <3>5. /\ i - 1 \in 0..n /\ ~(i <= i - 1) /\ n - (i - 1) \in 1..n
          /\ (n - (i - 1)) - 1 = n - i
      BY <1>4, <3>3, <3>4
    <3>6. off[n - (i - 1)] <= h
      <4>1. i - 1 \notin S
        BY <3>3, <3>5
      <4> QED
        BY <3>5, <4>1 DEF Upto
    <3>7. off[n - (i - 1)] = off[n - i] + Len(row[n - (i - 1)]) + 2
      BY <2>3, <3>5
    <3>8. off[n - i] \in Nat /\ Len(row[n - (i - 1)]) \in Nat
      BY <2>2, <3>5
    <3> QED
      BY <1>12, <3>3, <3>6, <3>7, <3>8 DEF Upto
  <2>5. \A i \in 0..n : off[i] <= h
    <3> SUFFICES ASSUME NEW i \in 0..n PROVE off[i] <= h
      OBVIOUS
    <3>1. n - i \in 0..n /\ n - (n - i) = i
      BY <1>4
    <3> QED
      BY <2>4, <3>1 DEF Upto
  <2>6. ASSUME NEW i \in 1..n
        PROVE  /\ row[i] \in Seq(Char) /\ off[i] = off[i - 1] + Len(row[i]) + 2
               /\ \A k \in 1..Len(row[i]) : x[off[i - 1] + k] = row[i][k] /\ row[i][k] \notin Breaks
               /\ x[off[i] - 1] = "CR" /\ x[off[i]] = "LF" /\ off[i] + 2 <= Len(x)
    <3> DEFINE o == off[i - 1]
               c == Len(row[i])
    <3>1. o \in Nat /\ c \in Nat /\ off[i] = o + c + 2 /\ off[i] <= h /\ off[i] \in Nat
      BY <2>2, <2>3, <2>5
    <3>2. \A k \in 1..(c + 2) : head[o + k] = new[i][k]
      BY <1>6, <1>11
    <3>3. /\ \A k \in 1..c : new[i][k] = row[i][k] /\ row[i][k] \notin Breaks
          /\ new[i][c + 1] = "CR" /\ new[i][c + 2] = "LF" /\ row[i] \in Seq(Char)
      BY <1>6
    <3> HIDE DEF o, c
    <3>4. \A k \in 1..(c + 2) : x[o + k] = new[i][k]
      <4> SUFFICES ASSUME NEW k \in 1..(c + 2) PROVE x[o + k] = new[i][k]
        OBVIOUS
      <4>1. o + k \in 1..h
        BY <1>12, <3>1
      <4> QED
        BY <1>12, <3>2, <4>1
    <3>5. \A k \in 1..c : x[o + k] = row[i][k] /\ row[i][k] \notin Breaks
      BY <3>1, <3>3, <3>4
    <3>6. x[o + (c + 1)] = "CR" /\ x[o + (c + 2)] = "LF"
      BY <3>1, <3>3, <3>4
    <3>7. off[i] - 1 = o + (c + 1) /\ off[i] = o + (c + 2) /\ off[i] + 2 <= Len(x)
      BY <1>12, <3>1
    <3> QED
      BY <3>1, <3>3, <3>5, <3>6, <3>7 DEF o, c
  <2> QED
    BY <1>11, <2>1, <2>6 DEF Rows
<1> QED
  BY <1>2, <1>12, <1>13, <1>14 DEF n, kept, row

\* The inspector reads the copy's fields from the kept lines, up to the first that only
\* NULs made up; the mail's from these and those behind, the next no continuation.
LEMMA CopyIsRead ==
  ASSUME NEW text \in Seq(Char), ~HiddenBom(text)
  PROVE  LET w == Window(text)
             x == NormalizedCopy(text)
             m == HeaderLength(x)
             n == HeaderLength(w)
         IN  /\ m \in 0..n
             /\ Alike(Lines(w), Lines(x), m)
             /\ m < n =>
                  /\ ~Continues(Lines(w)[m + 1])
                  /\ ~IsHeaderLikeLine(StripNul(Lines(w)[m + 1].text))
<1> DEFINE w == Window(text)
           lines == Lines(w)
           x == NormalizedCopy(text)
           copied == Lines(x)
           m == HeaderLength(x)
           n == HeaderLength(w)
           k == Len(KeptLines(text))
           row == StrippedLines(text)
<1>1. /\ k \in 0..Len(lines) /\ Len(lines) \in Nat
      /\ \A i \in 1..k : KeptLines(text)[i] = lines[i]
      /\ \A i \in 1..k : KeptLines(text)[i].text \in Seq(Char)
      /\ \A i \in 1..k : ~EndsHeader(KeptLines(text)[i])
      /\ DOMAIN KeptLines(text) = 1..k
      /\ k < Len(lines) => EndsHeader(lines[k + 1])
  BY KeptIs
<1>2. row = [i \in 1..k |-> StripNul(KeptLines(text)[i].text)]
  BY <1>1 DEF StrippedLines
<1>3. w \in Seq(Char) /\ x \in Seq(Char) /\ TextStart(x) = 1
  BY WindowIs, CopyRows
<1>4. PICK off : Rows(x, k, row, off)
  BY CopyRows
<1>5. /\ n \in 0..Len(lines)
      /\ \A i \in 1..Len(lines) : lines[i].text \in Seq(Char)
      /\ \A i \in 1..n : lines[i].text # <<>>
  BY <1>3, FieldsRead
<1>6. \/ BlankLine(lines) = 0 /\ n = Len(lines)
      \/ /\ BlankLine(lines) \in 1..Len(lines) /\ n = BlankLine(lines) - 1
         /\ lines[BlankLine(lines)].text = <<>>
  BY <1>1, BlankIs DEF HeaderLength
<1> HIDE DEF lines, k, row, n
<1>7. k \in Nat
  BY <1>1
<1>8. /\ k + 1 \in 1..Len(copied) /\ copied[k + 1].text = <<>>
      /\ \A i \in 1..k : copied[i].text = row[i]
  BY <1>3, <1>4, <1>7, RowsAre
<1>9. Len(copied) \in Nat
  BY <1>3, LinesAre
<1>10. \/ BlankLine(copied) = 0 /\ \A i \in 1..Len(copied) : copied[i].text # <<>>
       \/ /\ BlankLine(copied) \in 1..Len(copied) /\ m = BlankLine(copied) - 1
          /\ copied[BlankLine(copied)].text = <<>>
          /\ \A i \in 1..(BlankLine(copied) - 1) : copied[i].text # <<>>
  BY <1>9, BlankIs DEF HeaderLength
<1> HIDE DEF m, copied
<1>11. /\ BlankLine(copied) \in 1..Len(copied) /\ m = BlankLine(copied) - 1
       /\ copied[m + 1].text = <<>> /\ m \in Nat
       /\ \A i \in 1..m : copied[i].text # <<>>
  BY <1>8, <1>9, <1>10
<1>12. m \in 0..k
  <2>1. ~(k + 1 \in 1..m)
    BY <1>8, <1>11
  <2> QED
    BY <1>7, <1>11, <2>1
<1>13. k <= n
  <2> SUFFICES ASSUME ~(k <= n) PROVE FALSE
    OBVIOUS
  <2> DEFINE e == BlankLine(lines)
  <2> HIDE DEF e
  <2>1. e \in 1..Len(lines) /\ n = e - 1 /\ lines[e].text = <<>>
    BY <1>1, <1>5, <1>6 DEF e
  <2>2. e \in 1..k
    BY <1>1, <1>5, <2>1
  <2>3. ~EndsHeader(lines[e])
    BY <1>1, <2>2
  <2>4. "NUL" \notin ToSet(<<>>)
    BY DEF ToSet
  <2>5. EndsHeader(lines[e])
    BY <2>1, <2>4 DEF EndsHeader, IsHeaderLikeLine
  <2> QED
    BY <2>3, <2>5
<1>14. m \in 0..n
  BY <1>5, <1>7, <1>12, <1>13
<1>15. Alike(lines, copied, m)
  <2> SUFFICES ASSUME NEW i \in 1..m PROVE StripNul(lines[i].text) = StripNul(copied[i].text)
    BY DEF Alike
  <2>1. i \in 1..k
    BY <1>7, <1>12
  <2> DEFINE t == lines[i].text
  <2>2. t \in Seq(Char) /\ copied[i].text = StripNul(t)
    BY <1>1, <1>2, <1>8, <2>1
  <2> HIDE DEF t
  <2>3. Without(Without(t, {"NUL"}), {"NUL"}) = Without(t, {"NUL"})
    BY <2>2, WithoutTwice
  <2>4. StripNul(StripNul(t)) = StripNul(t)
    BY <2>3 DEF StripNul
  <2> QED
    BY <2>2, <2>4 DEF t
<1>16. ASSUME m < n
       PROVE  /\ ~Continues(lines[m + 1]) /\ ~IsHeaderLikeLine(StripNul(lines[m + 1].text))
  <2> DEFINE l == lines[m + 1]
             t == l.text
  <2>1. CASE m < k
    <3>1. m + 1 \in 1..k
      BY <1>7, <1>12, <2>1
    <3>2. StripNul(t) = <<>>
      BY <1>1, <1>2, <1>8, <1>11, <3>1
    <3> HIDE DEF t
    <3> QED
      BY <3>2 DEF Continues, IsHeaderLikeLine, t
  <2>2. CASE ~(m < k)
    <3>1. m = k /\ k < Len(lines) /\ m + 1 \in 1..n
      BY <1>1, <1>5, <1>7, <1>12, <1>16, <2>2
    <3>2. EndsHeader(l)
      BY <1>1, <3>1
    <3>3. t \in Seq(Char) /\ t # <<>>
      BY <1>1, <1>5, <3>1
    <3> HIDE DEF l
    <3>4. ~IsHeaderLikeLine(t) /\ "NUL" \notin ToSet(t)
      BY <3>2 DEF EndsHeader
    <3>5. t[1] # " "
      BY <3>3, <3>4 DEF IsHeaderLikeLine
    <3> HIDE DEF t
    <3>6. StripNul(t) = t
      BY <3>3, <3>4, NothingStripped
    <3>7. ~Continues(l)
      BY <3>5, <3>6 DEF Continues, t
    <3> QED
      BY <3>4, <3>6, <3>7 DEF l, t
  <2> QED
    BY <2>1, <2>2
<1> QED
  BY <1>14, <1>15, <1>16 DEF lines, copied, m, n

\* The same fields in the same order, all of them unless some line is no field.
LEMMA FieldsSurvive ==
  ASSUME NEW text \in Seq(Char), ~HiddenBom(text)
  PROVE  LET before == Inspect(text).fields
             after  == InspectWindow(NormalizedCopy(text)).fields
         IN  /\ IsPrefix(after, before)
             /\ (\A l \in ToSet(HeaderLines(text)) : IsHeaderLikeLine(StripNul(l.text)))
                  => after = before
<1> DEFINE w == Window(text)
           lines == Lines(w)
           x == NormalizedCopy(text)
           copied == Lines(x)
           m == HeaderLength(x)
           n == HeaderLength(w)
<1>1. w \in Seq(Char) /\ x \in Seq(Char)
  BY WindowIs, CopyRows
<1>2. /\ n \in 0..Len(lines)
      /\ \A i \in 1..Len(lines) : lines[i].text \in Seq(Char)
      /\ \A g : Reading(lines, n, g) => InspectWindow(w).fields = g[n].fields
  BY <1>1, FieldsRead
<1>3. \A h : Reading(copied, m, h) => InspectWindow(x).fields = h[m].fields
  BY <1>1, FieldsRead
<1>4. /\ m \in 0..n /\ Alike(lines, copied, m)
      /\ m < n => ~Continues(lines[m + 1])
      /\ m < n => ~IsHeaderLikeLine(StripNul(lines[m + 1].text))
  BY CopyIsRead
<1>5. Len(lines) \in Nat /\ DOMAIN lines = 1..Len(lines)
  BY <1>1, LinesAre
<1>6. HeaderLines(text) =
        IF BlankLine(lines) = 0 THEN lines ELSE SubSeq(lines, 1, BlankLine(lines) - 1)
  BY DEF HeaderLines
<1>7. n = IF BlankLine(lines) = 0 THEN Len(lines) ELSE BlankLine(lines) - 1
  BY DEF HeaderLength
<1>8. BlankLine(lines) = 0 \/ BlankLine(lines) \in 1..Len(lines)
  BY <1>5, BlankIs
<1> HIDE DEF lines, copied, m, n
<1>9. n \in Nat /\ m \in Nat /\ m <= n /\ m <= m
  BY <1>2, <1>4, <1>5
<1>10. PICK g : Reading(lines, n, g)
  BY <1>9, ReadingExists
<1>11. PICK h : Reading(copied, m, h)
  BY <1>9, ReadingExists
<1>12. g[m] = h[m]
  BY <1>4, <1>9, <1>10, <1>11, SameReading
<1>13. \A i \in 1..n : lines[i].text \in Seq(Char)
  BY <1>2, <1>5
<1>14. IsPrefix(g[m].fields, g[n].fields)
  BY <1>4, <1>9, <1>10, <1>13, FieldsFixed
<1>15. Inspect(text).fields = g[n].fields /\ InspectWindow(x).fields = g[m].fields
  BY <1>2, <1>3, <1>10, <1>11, <1>12 DEF Inspect
<1>16. ASSUME \A l \in ToSet(HeaderLines(text)) : IsHeaderLikeLine(StripNul(l.text))
       PROVE  m = n
  <2> SUFFICES ASSUME m < n PROVE FALSE
    BY <1>9
  <2> DEFINE s == HeaderLines(text)
             i == m + 1
  <2>1. i \in 1..n /\ i \in 1..Len(lines)
    BY <1>2, <1>5, <1>9
  <2>2. i \in DOMAIN s /\ s[i] = lines[i]
    <3>1. CASE BlankLine(lines) = 0
      BY <1>5, <1>6, <2>1, <3>1
    <3>2. CASE BlankLine(lines) # 0
      <4> DEFINE e == BlankLine(lines) - 1
      <4>1. e \in 0..Len(lines) /\ n = e /\ s = SubSeq(lines, 1, e)
        BY <1>5, <1>6, <1>7, <1>8, <3>2
      <4> HIDE DEF e, s, i
      <4>2. DOMAIN SubSeq(lines, 1, e) = 1..e
        BY <1>5, <4>1
      <4>3. SubSeq(lines, 1, e)[i] = lines[i]
        BY <1>5, <2>1, <4>1
      <4> QED
        BY <2>1, <4>1, <4>2, <4>3
    <3> QED
      BY <3>1, <3>2
  <2>3. lines[i] \in ToSet(s)
    BY <2>2 DEF ToSet
  <2>4. IsHeaderLikeLine(StripNul(lines[i].text))
    BY <1>16, <2>3
  <2> QED
    BY <1>4, <2>4
<1> QED
  BY <1>14, <1>15, <1>16

\* The header of the second attempt's copy says what the header of the mail says:
\* the same fields in the same order, all of them unless a line of the header is no
\* field, and unless NULs hid a byte order mark.
THEOREM TheSameFields == Spec => []FieldsKept
<1>1. InputInv => FieldsKept
  <2> SUFFICES ASSUME InputInv, attempt = 2, ~HiddenBom(file.text) PROVE FieldsKept
    BY DEF FieldsKept
  <2>1. file.text \in Seq(Char) /\ input = NormalizedCopy(file.text)
    BY TextOf DEF InputInv
  <2> DEFINE before == Inspect(file.text).fields
             after  == InspectWindow(input).fields
  <2>2. /\ IsPrefix(after, before)
        /\ (\A l \in ToSet(HeaderLines(file.text)) : IsHeaderLikeLine(StripNul(l.text)))
             => after = before
    BY <2>1, FieldsSurvive
  <2> QED
    BY <2>2 DEF FieldsKept
<1> QED
  BY <1>1, InputInvariance, PTL

-----------------------------------------------------------------------------
(* The calendar *)

\* The leap years from year 1 to year y, or back from there.
Leaps(y) == y \div 4 - y \div 100 + y \div 400

LEMMA LeapStep ==
  ASSUME NEW y \in Int PROVE Leaps(y) = Leaps(y - 1) + (IF IsLeap(y) THEN 1 ELSE 0)
<1>1. /\ y % 4 = 0 <=> y \div 4 = (y - 1) \div 4 + 1
      /\ y % 4 # 0 <=> y \div 4 = (y - 1) \div 4
  OBVIOUS
<1>2. /\ y % 100 = 0 <=> y \div 100 = (y - 1) \div 100 + 1
      /\ y % 100 # 0 <=> y \div 100 = (y - 1) \div 100
  OBVIOUS
<1>3. /\ y % 400 = 0 <=> y \div 400 = (y - 1) \div 400 + 1
      /\ y % 400 # 0 <=> y \div 400 = (y - 1) \div 400
  OBVIOUS
<1>4. (y % 400 = 0 => y % 100 = 0) /\ (y % 100 = 0 => y % 4 = 0)
  OBVIOUS
<1> QED
  BY <1>1, <1>2, <1>3, <1>4 DEF Leaps, IsLeap

\* Counting the leap years of a span one by one.
LEMMA LeapYearsAre ==
  ASSUME NEW a \in Int, NEW b \in Int, a <= b + 1
  PROVE  LeapYears(a, b) = Leaps(b) - Leaps(a - 1)
<1> DEFINE Span(k) == {y \in a..(a - 1 + k) : IsLeap(y)}
           Good(k) == /\ IsFiniteSet(Span(k))
                      /\ Cardinality(Span(k)) = Leaps(a - 1 + k) - Leaps(a - 1)
           S == {k \in Nat : ~Good(k)}
<1>0. \A y \in Int : Leaps(y) \in Int
  BY DEF Leaps
<1>1. Good(0)
  <2>1. Span(0) = {} /\ a - 1 + 0 = a - 1
    OBVIOUS
  <2> HIDE DEF Span
  <2>2. IsFiniteSet(Span(0)) /\ Cardinality(Span(0)) = 0
    BY <2>1, FS_EmptySet
  <2> QED
    BY <1>0, <2>1, <2>2
<1>2. S = {}
  <2> SUFFICES ASSUME S # {} PROVE FALSE
    OBVIOUS
  <2> HIDE DEF Good
  <2>1. PICK k \in S : \A m \in S : k <= m
    BY Least
  <2>2. k \in Nat /\ ~Good(k)
    BY <2>1
  <2>3. k # 0
    BY <1>1, <2>2
  <2>4. k - 1 \in Nat /\ ~(k <= k - 1)
    BY <2>2, <2>3
  <2>5. Good(k - 1)
    BY <2>1, <2>4
  <2> DEFINE y == a - 1 + k
  <2>6. y \in Int /\ a - 1 + (k - 1) = y - 1
    BY <2>2
  <2>7. y \notin Span(k - 1)
    BY <2>2
  <2>8. Span(k) = IF IsLeap(y) THEN Span(k - 1) \cup {y} ELSE Span(k - 1)
    BY <2>2, <2>3
  <2> HIDE DEF Span, y
  <2>9. IsFiniteSet(Span(k - 1)) /\ Cardinality(Span(k - 1)) = Leaps(y - 1) - Leaps(a - 1)
    BY <2>5, <2>6 DEF Good
  <2>10. Leaps(y) = Leaps(y - 1) + (IF IsLeap(y) THEN 1 ELSE 0)
    BY <2>6, LeapStep
  <2>11. Leaps(y - 1) \in Int /\ Leaps(a - 1) \in Int /\ Leaps(y) \in Int
    BY <1>0, <2>6
  <2>12. IsFiniteSet(Span(k)) /\ Cardinality(Span(k)) = Leaps(y) - Leaps(a - 1)
    <3>1. CASE IsLeap(y)
      <4>1. IsFiniteSet(Span(k)) /\ Cardinality(Span(k)) = Cardinality(Span(k - 1)) + 1
        BY <2>7, <2>8, <2>9, <3>1, FS_AddElement
      <4> QED
        BY <2>9, <2>10, <2>11, <3>1, <4>1
    <3>2. CASE ~IsLeap(y)
      BY <2>8, <2>9, <2>10, <2>11, <3>2
    <3> QED
      BY <3>1, <3>2
  <2>13. Good(k)
    BY <2>12 DEF Good, y
  <2> QED
    BY <2>2, <2>13
<1> DEFINE k == b - a + 1
<1>3. k \in Nat /\ a - 1 + k = b
  OBVIOUS
<1> HIDE DEF Good, k
<1>4. Good(k)
  BY <1>2, <1>3
<1>5. Span(k) = {y \in a..b : IsLeap(y)}
  BY <1>3
<1> QED
  BY <1>3, <1>4, <1>5 DEF Good, LeapYears

\* The days of a year before a month.
DaysOf(year, k) == {md \in (1..(k - 1)) \X (1..31) : md[2] <= DaysInMonth(year, md[1])}

\* There are n of them.
Before(year, k, n) == IsFiniteSet(DaysOf(year, k)) /\ Cardinality(DaysOf(year, k)) = n

\* A month more.
LEMMA OneMonthMore ==
  ASSUME NEW year \in Int, NEW m \in 1..12, NEW d \in 0..31, DaysInMonth(year, m) = d,
         NEW n \in Nat, Before(year, m, n)
  PROVE  Before(year, m + 1, n + d)
<1> DEFINE new == {m} \X (1..d)
           old == DaysOf(year, m)
<1>1. DaysOf(year, m + 1) = old \cup new
  <2>1. ASSUME NEW x \in DaysOf(year, m + 1) PROVE x \in old \cup new
    <3>1. x \in (1..m) \X (1..31) /\ x[2] <= DaysInMonth(year, x[1])
      BY DEF DaysOf
    <3>2. CASE x[1] = m
      <4>1. x = <<m, x[2]>> /\ x[2] \in 1..d
        BY <3>1, <3>2
      <4> QED
        BY <4>1
    <3>3. CASE x[1] # m
      <4>1. x \in (1..(m - 1)) \X (1..31)
        BY <3>1, <3>3
      <4> QED
        BY <3>1, <4>1 DEF DaysOf
    <3> QED
      BY <3>2, <3>3
  <2>2. ASSUME NEW x \in old PROVE x \in DaysOf(year, m + 1)
    <3>1. x \in (1..m) \X (1..31) /\ x[2] <= DaysInMonth(year, x[1])
      BY DEF DaysOf
    <3> QED
      BY <3>1 DEF DaysOf
  <2>3. ASSUME NEW x \in new PROVE x \in DaysOf(year, m + 1)
    <3>1. x \in (1..m) \X (1..31) /\ x[1] = m /\ x[2] <= d
      OBVIOUS
    <3> QED
      BY <3>1 DEF DaysOf
  <2> QED
    BY <2>1, <2>2, <2>3
<1>2. old \cap new = {}
  BY DEF DaysOf
<1>3. IsFiniteSet(new) /\ Cardinality(new) = d
  <2>1. IsFiniteSet({m}) /\ Cardinality({m}) = 1
    BY FS_Singleton
  <2>2. IsFiniteSet(1..d) /\ Cardinality(1..d) = d
    <3>1. IsFiniteSet(1..d) /\ Cardinality(1..d) = IF 1 > d THEN 0 ELSE d - 1 + 1
      <4>1. 1 \in Int /\ d \in Int
        OBVIOUS
      <4> QED
        BY <4>1, FS_Interval
    <3> QED
      BY <3>1
  <2> DEFINE M == {m}
             D == 1..d
  <2> HIDE DEF M, D
  <2>3. IsFiniteSet(M \X D) /\ Cardinality(M \X D) = Cardinality(M) * Cardinality(D)
    BY <2>1, <2>2, FS_Product DEF M, D
  <2>4. new = M \X D
    BY DEF M, D
  <2>5. Cardinality(M) = 1 /\ Cardinality(D) = d
    BY <2>1, <2>2 DEF M, D
  <2> HIDE DEF new
  <2>6. IsFiniteSet(new) /\ Cardinality(new) = 1 * d
    BY <2>3, <2>4, <2>5
  <2> QED
    BY <2>6
<1> HIDE DEF old, new
<1>4. IsFiniteSet(old) /\ Cardinality(old) = n
  BY DEF Before, old
<1>5. /\ IsFiniteSet(old \cup new)
      /\ Cardinality(old \cup new) =
           Cardinality(old) + Cardinality(new) - Cardinality(old \cap new)
  BY <1>3, <1>4, FS_Union
<1>6. Cardinality(old \cap new) = 0
  BY <1>2, FS_EmptySet
<1>7. IsFiniteSet(old \cup new) /\ Cardinality(old \cup new) = n + d
  BY <1>3, <1>4, <1>5, <1>6
<1> QED
  BY <1>1, <1>7 DEF Before

\* The days before a month, but for the leap day.
MonthStart == <<0, 31, 59, 90, 120, 151, 181, 212, 243, 273, 304, 334>>

LEMMA DaysBeforeAre ==
  ASSUME NEW year \in Int, NEW month \in 1..12
  PROVE  DaysBefore(year, month) =
           MonthStart[month] + (IF month > 2 /\ IsLeap(year) THEN 1 ELSE 0)
<1> DEFINE leap(k) == IF k > 2 /\ IsLeap(year) THEN 1 ELSE 0
           n(k) == MonthStart[k] + leap(k)
           Good(k) == Before(year, k, n(k))
           S == {k \in Nat : k \in 1..12 /\ ~Good(k)}
<1>1. \A k \in 1..12 : n(k) \in Nat
  BY DEF MonthStart
<1>2. Good(1)
  <2>1. DaysOf(year, 1) = {} /\ n(1) = 0
    BY DEF DaysOf, MonthStart
  <2> QED
    BY <2>1, FS_EmptySet DEF Before
<1>3. ASSUME NEW k \in 1..11
      PROVE  DaysInMonth(year, k) \in 0..31 /\ n(k) + DaysInMonth(year, k) = n(k + 1)
  BY DEF DaysInMonth, MonthStart
<1> HIDE DEF n
<1>4. S = {}
  <2> SUFFICES ASSUME S # {} PROVE FALSE
    OBVIOUS
  <2> HIDE DEF Good
  <2>1. PICK m \in S : \A k \in S : m <= k
    BY Least
  <2>2. m \in 1..12 /\ ~Good(m)
    BY <2>1
  <2>3. m # 1
    BY <1>2, <2>2
  <2> DEFINE k == m - 1
             d == DaysInMonth(year, k)
  <2>4. k \in 1..11 /\ k \in 1..12 /\ k + 1 = m /\ ~(m <= k)
    BY <2>2, <2>3
  <2>5. Good(k)
    BY <2>1, <2>4
  <2>6. d \in 0..31 /\ n(k) + d = n(m) /\ n(k) \in Nat
    BY <1>1, <1>3, <2>4
  <2> HIDE DEF k, d
  <2>7. DaysInMonth(year, k) = d /\ Before(year, k, n(k))
    BY <2>5 DEF Good, d
  <2>8. Before(year, k + 1, n(k) + d)
    BY <2>4, <2>6, <2>7, OneMonthMore
  <2>9. Good(m)
    BY <2>4, <2>6, <2>8 DEF Good
  <2> QED
    BY <2>2, <2>9
<1>5. Good(month)
  BY <1>4
<1> QED
  BY <1>5 DEF Before, DaysBefore, DaysOf, n

\* The calendar of days_from_civil, in years that begin in March and cycles of 400 of them,
\* is the one that counts leap years and days of months one by one: for every year, month
\* and day.
THEOREM CalendarCounts ==
  ASSUME NEW year \in Int, NEW month \in 1..12, NEW day \in Int
  PROVE  DaysFromCivil(year, month, day) = CountedDays(year, month, day)
<1> DEFINE y   == IF month <= 2 THEN year - 1 ELSE year
           yoe == y % 400
           era == y \div 400
           mp  == IF month > 2 THEN month - 3 ELSE month + 9
           start == (153 * mp + 2) \div 5
           leap == IF month > 2 /\ IsLeap(year) THEN 1 ELSE 0
<1>1. era * 146097 + yoe * 365 + yoe \div 4 - yoe \div 100 = 365 * y + Leaps(y)
  <2> HIDE DEF y
  <2>0. y \in Int
    BY DEF y
  <2>1. y = 400 * era + yoe /\ era \in Int /\ yoe \in 0..399
    BY <2>0
  <2>2. y \div 4 = 100 * era + yoe \div 4 /\ y \div 100 = 4 * era + yoe \div 100
    BY <2>0
  <2> QED
    BY <2>1, <2>2 DEF Leaps
<1>2. start = IF month > 2 THEN MonthStart[month] - 59 ELSE MonthStart[month] + 306
  BY DEF MonthStart
<1>3. DaysBefore(year, month) = MonthStart[month] + leap
  BY DaysBeforeAre
<1>4. Leaps(year) = Leaps(year - 1) + (IF IsLeap(year) THEN 1 ELSE 0)
  BY LeapStep
<1>5. Leaps(1969) = 477 /\ Leaps(year - 1) \in Int /\ MonthStart[month] \in Int
  BY DEF Leaps, MonthStart
<1>6. CountedDays(year, month, day) =
        365 * (year - 1970) + Leaps(year - 1) - 477 + MonthStart[month] + leap + day - 1
  <2>1. CASE year >= 1970
    <3>1. LeapYears(1970, year - 1) = Leaps(year - 1) - Leaps(1969)
      BY <2>1, LeapYearsAre
    <3> QED
      BY <1>3, <1>5, <2>1, <3>1 DEF CountedDays
  <2>2. CASE year < 1970
    <3>1. LeapYears(year, 1969) = Leaps(1969) - Leaps(year - 1)
      BY <2>2, LeapYearsAre
    <3> QED
      BY <1>3, <1>5, <2>2, <3>1 DEF CountedDays
  <2> QED
    BY <2>1, <2>2
<1>7. DaysFromCivil(year, month, day) = 365 * y + Leaps(y) + start + day - 1 - 719468
  BY <1>1 DEF DaysFromCivil
<1> QED
  BY <1>2, <1>4, <1>5, <1>6, <1>7

-----------------------------------------------------------------------------
(* Whose date a message carries *)

\* The date of the mail is what its header says, or that of the file where it says none; it is
\* the date put on the message where the converter's is replaced.
DateSourceInv ==
  /\ file \in Files
  /\ DOMAIN msg = DOMAIN NoMessage
  /\ stage # "read" =>
       LET dates == FallbackDates(Headers, meta.sent)
       IN  IF dates = {} THEN meta.date = file.mtime ELSE meta.date \in dates
  /\ stage \in {"save", "verify", "imported"} /\ msg.replaced => OwnDate = meta.date

LEMMA DateSourceStep == DateSourceInv /\ [Next]_vars => DateSourceInv'
<1> SUFFICES ASSUME DateSourceInv, [Next]_vars PROVE DateSourceInv'
  OBVIOUS
<1>1. CASE ReadHeader
  <2> DEFINE dates == FallbackDates(Headers, IsSent(Headers))
  <2>1. meta' = [sent     |-> IsSent(Headers),
                 draft    |-> IsDraft(Headers),
                 subject  |-> FirstValue(Headers, "Subject") # {},
                 mixed    |-> DeclaresMixed,
                 date     |-> IF dates = {} THEN file.mtime ELSE CHOOSE d \in dates : TRUE,
                 fromFile |-> dates = {}]
    BY <1>1 DEF ReadHeader, Headers, DeclaresMixed
  <2>2. meta'.sent = IsSent(Headers)
    BY <2>1, Zenon
  <2>3. meta'.date = IF dates = {} THEN file.mtime ELSE CHOOSE d \in dates : TRUE
    BY <2>1
  <2>4. stage' = "convert" /\ UNCHANGED <<file, msg>>
    BY <1>1 DEF ReadHeader
  <2>5. FallbackDates(Headers, meta.sent)' = dates
    BY <2>2, <2>4 DEF FallbackDates, HeaderDate, ParseBounded, Headers, InBounds
  <2> HIDE DEF dates
  <2>6. IF dates = {} THEN meta'.date = file.mtime ELSE meta'.date \in dates
    BY <2>3
  <2> QED
    BY <2>4, <2>5, <2>6 DEF DateSourceInv
<1>2. ASSUME UNCHANGED <<file, meta>>, stage # "read"
      PROVE  stage' # "read" =>
               LET dates == FallbackDates(Headers, meta.sent)'
               IN  IF dates = {} THEN meta'.date = file'.mtime ELSE meta'.date \in dates
  <2>1. FallbackDates(Headers, meta.sent)' = FallbackDates(Headers, meta.sent)
    BY <1>2 DEF FallbackDates, HeaderDate, ParseBounded, Headers, InBounds
  <2> QED
    BY <1>2, <2>1 DEF DateSourceInv
<1>3. CASE CallFails \/ Reject
  <2>1. /\ msg' = NoMessage /\ UNCHANGED <<file, meta>>
        /\ stage # "read" /\ stage' \in {"convert", "preserved"}
    BY <1>3 DEF CallFails, Reject, FailAttempt, Retry, GiveUp
  <2> QED
    BY <1>2, <2>1 DEF DateSourceInv
<1>4. ASSUME NEW flags \in SUBSET {"UNSENT"},
             NEW delivery \in ConverterDates \cup {NoDate},
             NEW submit \in ConverterDates \cup {NoDate},
             NEW keepsSubject \in BOOLEAN, NEW parts \in 0..file.parts,
             Convert(flags, delivery, submit, keepsSubject, parts)
      PROVE  DateSourceInv'
  <2>1. /\ DOMAIN msg' = DOMAIN NoMessage /\ stage # "read" /\ stage' = "state"
        /\ UNCHANGED <<file, meta>>
    BY <1>4 DEF Convert, NoMessage
  <2> QED
    BY <1>2, <2>1 DEF DateSourceInv
<1>5. CASE ApplyMessageState
  <2>1. /\ DOMAIN msg' = DOMAIN msg /\ stage # "read" /\ stage' = "dates"
        /\ UNCHANGED <<file, meta>>
    BY <1>5 DEF ApplyMessageState
  <2> QED
    BY <1>2, <2>1 DEF DateSourceInv
<1>6. CASE ApplyDatePolicy
  <2> DEFINE replace == IF meta.sent THEN ~Valid(msg.submit) ELSE ~Valid(msg.delivery)
  <2>1. /\ DOMAIN msg' = DOMAIN msg /\ stage # "read" /\ stage' = "save"
        /\ UNCHANGED <<file, meta>>
    BY <1>6 DEF ApplyDatePolicy
  <2>2. msg' = [msg EXCEPT !.submit   = IF meta.sent /\ replace THEN meta.date ELSE @,
                           !.delivery = IF ~meta.sent /\ replace THEN meta.date ELSE @,
                           !.replaced = replace]
    BY <1>6 DEF ApplyDatePolicy
  <2>3. DOMAIN msg = {"subject", "parts", "flags", "delivery", "submit", "replaced"}
    BY DEF DateSourceInv, NoMessage
  <2> HIDE DEF replace
  <2>4. msg'.replaced = replace
    BY <2>2, <2>3, Zenon
  <2>5. replace => OwnDate' = meta.date
    BY <2>1, <2>2, <2>3 DEF OwnDate
  <2> QED
    BY <1>2, <2>1, <2>4, <2>5 DEF DateSourceInv
<1>7. CASE Save \/ Accept
  <2>1. /\ UNCHANGED <<file, meta, msg>> /\ stage \in {"save", "verify"}
        /\ stage' \in {"verify", "imported"}
    BY <1>7 DEF Save, Accept
  <2> QED
    BY <1>2, <2>1 DEF DateSourceInv, OwnDate
<1>8. CASE UNCHANGED vars
  <2>1. UNCHANGED <<file, meta, msg, stage>>
    BY <1>8 DEF vars
  <2>2. CASE stage = "read"
    BY <2>1, <2>2 DEF DateSourceInv
  <2>3. CASE stage # "read"
    BY <1>2, <2>1, <2>3 DEF DateSourceInv, OwnDate
  <2> QED
    BY <2>2, <2>3
<1> QED
  BY <1>1, <1>3, <1>4, <1>5, <1>6, <1>7, <1>8 DEF Next

\* What is read as a date is an instant of the calendar.
LEMMA InstantsAreMeant ==
  ASSUME NEW values,
         \A v \in values :
           /\ DateFields(DateText(v)) = Meaning(v)
           /\ \A m \in Meaning(v) : m.year \in Nat /\ m.month \in 1..12 /\ m.day \in 1..31
  PROVE  HeaderDate(values) = Meant(values)
<1>1. ASSUME NEW v \in values, NEW m \in Meaning(v)
      PROVE  UnixTime(m.year, m.month, m.day, m.second, m.offset) = Instant(m)
  <2>1. DaysFromCivil(m.year, m.month, m.day) = CountedDays(m.year, m.month, m.day)
    <3>1. m.year \in Int /\ m.month \in 1..12 /\ m.day \in Int
      OBVIOUS
    <3> QED
      BY <3>1, CalendarCounts
  <2> QED
    BY <2>1 DEF UnixTime, Instant
<1>2. ASSUME NEW v \in values
      PROVE  ParseDate(DateText(v)) = {Instant(m) : m \in Meaning(v)}
  BY <1>1 DEF ParseDate
<1>3. ASSUME NEW v \in values
      PROVE  ParseBounded(DateText(v), Now) =
               {t \in {Instant(m) : m \in Meaning(v)} : InBounds(t, Now)}
  BY <1>2 DEF ParseBounded
<1>4. ASSUME NEW t PROVE t \in HeaderDate(values) <=> t \in Meant(values)
  <2>1. t \in HeaderDate(values) <=> \E v \in values : t \in ParseBounded(DateText(v), Now)
    BY DEF HeaderDate
  <2>2. t \in Meant(values) <=>
          InBounds(t, Now) /\ \E v \in values : \E m \in Meaning(v) : t = Instant(m)
    BY DEF Meant
  <2>3. \A v \in values : t \in ParseBounded(DateText(v), Now) <=>
          InBounds(t, Now) /\ \E m \in Meaning(v) : t = Instant(m)
    BY <1>3
  <2> QED
    BY <2>1, <2>2, <2>3
<1> QED
  BY <1>4

\* If the words of the dates are read as what is meant, the date that was put on a message is
\* the instant the mail names, for every year and offset and whatever the converter delivers:
\* the first Received of mail that came in, else Date, else the time of the file.
THEOREM TheDateOfTheMail ==
  (\A f \in Files : DatesAreRead(f)) => (Spec => []DateIsTheMails)
<1> SUFFICES ASSUME \A f \in Files : DatesAreRead(f) PROVE Spec => []DateIsTheMails
  OBVIOUS
<1>1. Init => DateSourceInv
  BY DEF Init, DateSourceInv
<1>2. DateSourceInv => DateIsTheMails
  <2> SUFFICES ASSUME DateSourceInv, stage = "imported", msg.replaced PROVE DateIsTheMails
    BY DEF DateIsTheMails
  <2> DEFINE came == FirstReceivedDateCandidate(Headers)
             said == FirstValue(Headers, "Date")
             received == IF meta.sent THEN {} ELSE Meant(came)
             date == Meant(said)
  <2>1. /\ HeaderDate(came) = Meant(came)
        /\ HeaderDate(said) = Meant(said)
    <3>1. \A v \in came \cup said :
            /\ DateFields(DateText(v)) = Meaning(v)
            /\ \A m \in Meaning(v) : m.year \in Nat /\ m.month \in 1..12 /\ m.day \in 1..31
      BY DEF DatesAreRead, DateSourceInv, Headers
    <3> HIDE DEF came, said
    <3> QED
      BY <3>1, InstantsAreMeant
  <2>2. FallbackDates(Headers, meta.sent) = IF received # {} THEN received ELSE date
    BY <2>1 DEF FallbackDates
  <2>3. IF FallbackDates(Headers, meta.sent) = {} THEN OwnDate = file.mtime
        ELSE OwnDate \in FallbackDates(Headers, meta.sent)
    BY DEF DateSourceInv
  <2> HIDE DEF received, date
  <2>4. /\ received # {} => OwnDate \in received
        /\ received = {} /\ date # {} => OwnDate \in date
        /\ received = {} /\ date = {} => OwnDate = file.mtime
    BY <2>2, <2>3
  <2> QED
    BY <2>4 DEF DateIsTheMails, OwnDate, received, date, Headers
<1> QED
  BY DateSourceStep, <1>1, <1>2, PTL DEF Spec
=============================================================================
