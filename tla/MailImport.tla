----------------------------- MODULE MailImport -----------------------------
(***************************************************************************)
(* One mail on its way into the PST: what process_row derives from its     *)
(* header and path, and the two attempts of import_eml with everything     *)
(* that is set on the message before it is saved and checked after.        *)
(*                                                                         *)
(* ImportPipeline has the rows, folders, saves and deletions around this;  *)
(* here is the data its model leaves out.  Outlook's converter is external *)
(* and may deliver more or less of what the mail holds.                    *)
(***************************************************************************)
EXTENDS MailDates

CONSTANTS
  Files,         \* [text, path, mtime, parts, readable], see FileShape
  SentAliases, DraftsAliases,   \* folder names, compared without case
  DateText(_),   \* what the words of a header value say when read as a date
  Meaning(_),    \* and the instant RFC 5322 means by them, see Instant (at most one)
  Now,
  ConverterDates \* dates a converter may set

\* path: the components of the relative path; parts: attachments in the mail;
\* readable: whether the converter accepts such a mail at all.
FileShape(f) ==
  /\ DOMAIN f = {"text", "path", "mtime", "parts", "readable"}
  /\ f.text \in Seq(STRING) /\ f.parts \in Nat /\ f.readable \in BOOLEAN

ASSUME FilesAssumption == \A f \in Files : FileShape(f)

NoDate == <<>>

VARIABLES
  file,      \* the mail
  stage,     \* the next call: "read", "convert", "state", "dates", "save", "verify",
             \* or how it ended: "imported", "preserved"
  attempt,   \* 1: the file as it is, 2: the normalized copy
  input,     \* the text of this attempt
  meta,      \* MessageMetadata: what the source declares, flags, fallback date
  msg        \* the message at work

vars == <<file, stage, attempt, input, meta, msg>>

NoMeta == [sent |-> FALSE, draft |-> FALSE, subject |-> FALSE, mixed |-> FALSE,
           date |-> NoDate, fromFile |-> FALSE]
NoMessage == [subject |-> {}, parts |-> 0, flags |-> {}, delivery |-> NoDate,
              submit |-> NoDate, replaced |-> FALSE]

Init ==
  /\ file \in Files
  /\ stage = "read" /\ attempt = 1 /\ input = file.text
  /\ meta = NoMeta /\ msg = NoMessage

-----------------------------------------------------------------------------
(* process_row: what the header and the path say *)

PathHas(path, aliases) == ToSet(path) \cap aliases # {}

IsDraft(headers) == XUnsent(headers) \/ PathHas(file.path, DraftsAliases)

\* Mutant: a draft in a folder of sent mail is taken for sent.
IsSentByPath(headers) == PathHas(file.path, SentAliases)

IsSent(headers) == ~IsDraft(headers) /\ PathHas(file.path, SentAliases)

HeaderDate(values) == UNION {ParseBounded(DateText(v), Now) : v \in values}

\* From the mail: the first Received, unless it was sent from here, then Date.
FallbackDates(headers, sent) ==
  LET received == IF sent THEN {} ELSE HeaderDate(FirstReceivedDateCandidate(headers))
  IN  IF received # {} THEN received ELSE HeaderDate(FirstValue(headers, "Date"))

ReadHeader ==
  /\ stage = "read"
  /\ LET headers == Inspect(file.text)
         dates   == FallbackDates(headers, IsSent(headers))
     IN  meta' = [sent     |-> IsSent(headers),
                  draft    |-> IsDraft(headers),
                  subject  |-> FirstValue(headers, "Subject") # {},
                  mixed    |-> \E v \in FirstValue(headers, "Content-Type") :
                                  v # <<>> /\ v[1] = "multipart/mixed",
                  date     |-> IF dates = {} THEN file.mtime ELSE CHOOSE d \in dates : TRUE,
                  fromFile |-> dates = {}]
  /\ stage' = "convert"
  /\ UNCHANGED <<file, attempt, input, msg>>

-----------------------------------------------------------------------------
(* import_eml: an attempt fails at any of its calls *)

\* The second attempt, of a normalized copy: there is one if something can be repaired.
Retry ==
  /\ attempt = 1 /\ Normalize(file.text).changed
  /\ stage' = "convert" /\ attempt' = 2 /\ input' = NormalizedCopy(file.text)

\* There is no copy, it cannot be written, or the attempt was the second.
GiveUp == stage' = "preserved" /\ UNCHANGED <<attempt, input>>

FailAttempt ==
  /\ msg' = NoMessage
  /\ Retry \/ GiveUp
  /\ UNCHANGED <<file, meta>>

\* Without a converter or a folder the mail is given up before its first attempt.
\* After the save it is the entry id, or what the check reads, that cannot be had.
CallFails ==
  /\ stage \in {"convert", "state", "dates", "save", "verify"}
  /\ FailAttempt

OwnSubject == UNION {ToSet(v) : v \in FirstValue(Inspect(file.text), "Subject")}

\* What Outlook's converter makes of it (external).
Convert(flags, delivery, submit, keepsSubject, parts) ==
  /\ stage = "convert" /\ file.readable
  /\ msg' = [subject  |-> IF keepsSubject THEN OwnSubject ELSE {},
             parts    |-> parts,
             flags    |-> flags,
             delivery |-> delivery,
             submit   |-> submit,
             replaced |-> FALSE]
  /\ stage' = "state"
  /\ UNCHANGED <<file, attempt, input, meta>>

StateFlags(flags) ==
  CASE meta.draft -> flags \cup {"READ", "UNSENT"}
    [] ~meta.draft /\ meta.sent -> (flags \cup {"READ", "FROMME"}) \ {"UNSENT"}
    [] OTHER -> (flags \cup {"READ"}) \ {"UNSENT"}

ApplyMessageState ==
  /\ stage = "state"
  /\ msg' = [msg EXCEPT !.flags = StateFlags(@)]
  /\ stage' = "dates"
  /\ UNCHANGED <<file, attempt, input, meta>>

\* Mutant: only an absent date of the converter is replaced.
ValidIfPresent(date) == date # NoDate

\* Absent, zero or absurd dates of the converter are replaced.
Valid(date) == date # NoDate /\ InBounds(date, Now)

ApplyDatePolicy ==
  /\ stage = "dates"
  /\ LET replace == IF meta.sent THEN ~Valid(msg.submit) ELSE ~Valid(msg.delivery)
     IN  msg' = [msg EXCEPT !.submit   = IF meta.sent /\ replace THEN meta.date ELSE @,
                            !.delivery = IF ~meta.sent /\ replace THEN meta.date ELSE @,
                            !.replaced = replace]
  /\ stage' = "save"
  /\ UNCHANGED <<file, attempt, input, meta>>

Save ==
  /\ stage = "save"
  /\ stage' = "verify"
  /\ UNCHANGED <<file, attempt, input, meta, msg>>

\* Mutant: a subject is enough.
LossFoundInSubject == meta.subject /\ msg.subject = {}

\* verify_conversion_integrity
LossFound ==
  \/ meta.subject /\ msg.subject = {}
  \/ meta.mixed /\ msg.parts = 0

Accept ==
  /\ stage = "verify" /\ ~LossFound
  /\ stage' = "imported"
  /\ UNCHANGED <<file, attempt, input, meta, msg>>

Reject ==
  /\ stage = "verify" /\ LossFound
  /\ FailAttempt

Next ==
  \/ ReadHeader \/ CallFails
  \/ \E flags \in SUBSET {"UNSENT"},
        delivery, submit \in ConverterDates \cup {NoDate},
        keepsSubject \in BOOLEAN, parts \in 0..file.parts :
        Convert(flags, delivery, submit, keepsSubject, parts)
  \/ ApplyMessageState \/ ApplyDatePolicy \/ Save \/ Accept \/ Reject

Spec == Init /\ [][Next]_vars
-----------------------------------------------------------------------------
(* Properties *)

MailTypeOK ==
  /\ stage \in {"read", "convert", "state", "dates", "save", "verify", "imported", "preserved"}
  /\ attempt \in {1, 2}
  /\ attempt = 1 => input = file.text
  /\ ~(meta.sent /\ meta.draft)
  /\ msg.flags \subseteq {"READ", "UNSENT", "FROMME"} /\ msg.parts \in 0..file.parts
  /\ stage = "imported" => "READ" \in msg.flags

Repairable == {"utf8-bom", "nul-in-header", "bare-cr"}

Body(text) == SubSeq(text, InspectWindow(text).bytes + 1, Len(text))

Words(text) == Without(text, {"CR", "LF", "NUL", "BOM"})

\* The second attempt never costs a word of the mail, and not a byte of its body:
\* whatever a reader of the copy takes for the body ends with that of the mail.
TextKept ==
  attempt = 2 => /\ IsSuffix(Body(file.text), Body(input))
                 /\ Words(input) = Words(file.text)

HeaderLines(text) ==
  LET lines == Lines(Window(text))
      blank == BlankLine(lines)
  IN  IF blank = 0 THEN lines ELSE SubSeq(lines, 1, blank - 1)

\* A byte order mark that nothing but NULs hide at the start of the mail, or behind
\* the one that starts it.
HiddenBom(text) ==
  \E i \in TextStart(text)..Len(text) :
    /\ text[i] = "BOM"
    /\ \A j \in TextStart(text)..(i - 1) : text[j] = "NUL"

\* The copy's header says what the mail's says: the same fields in the same
\* order, all of them unless some line of the header is no field.  A hidden mark
\* is part of the first field's name in the mail and of none in the copy.
FieldsKept ==
  attempt = 2 /\ ~HiddenBom(file.text) =>
    LET before == Inspect(file.text).fields
        after  == InspectWindow(input).fields
    IN  /\ IsPrefix(after, before)
        /\ (\A l \in ToSet(HeaderLines(file.text)) : IsHeaderLikeLine(StripNul(l.text)))
             => after = before

\* What the inspector reports and the normalizer may repair is gone in the
\* second attempt, and the header's end is there.  Only a hidden mark comes to
\* light: the copy may start with a byte order mark again.  A mail of which no
\* copy is made because nothing is to be changed has nothing of it.
RepairsWhatIsReported ==
  /\ attempt = 2 =>
       LET read == InspectWindow(input)
       IN  /\ read.separator
           /\ \/ read.reasons \cap Repairable = {}
              \/ HiddenBom(file.text) /\ read.reasons \cap Repairable = {"utf8-bom"}
  /\ stage = "preserved" /\ ~Normalize(file.text).changed =>
       LET read == Inspect(file.text)
       IN  read.separator /\ read.reasons \cap Repairable = {}

\* The leap years of a span, and the days of a year before a month, counted one by one.
LeapYears(from, to) == Cardinality({y \in from..to : IsLeap(y)})

DaysBefore(year, month) ==
  Cardinality({md \in (1..(month - 1)) \X (1..31) : md[2] <= DaysInMonth(year, md[1])})

CountedDays(year, month, day) ==
  (IF year >= 1970 THEN 365 * (year - 1970) + LeapYears(1970, year - 1)
                   ELSE 365 * (year - 1970) - LeapYears(year, 1969))
  + DaysBefore(year, month) + day - 1

\* [year, month, day, second, offset] of a date as an instant
Instant(means) ==
  LET s == means.second - 60 * means.offset
  IN  <<CountedDays(means.year, means.month, means.day) + s \div 86400, s % 86400>>

Meant(values) == {t \in {Instant(m) : m \in UNION {Meaning(v) : v \in values}} : InBounds(t, Now)}

\* The words of the dates in mail f are read as what is meant by them.
DatesAreRead(f) ==
  LET headers == Inspect(f.text)
  IN  \A v \in FirstReceivedDateCandidate(headers) \cup FirstValue(headers, "Date") :
        /\ DateFields(DateText(v)) = Meaning(v)
        /\ \A m \in Meaning(v) : m.year \in Nat /\ m.month \in 1..12 /\ m.day \in 1..31

\* A date that was put on a message is the instant the mail names: the first
\* Received of mail that came in, else Date, and the time of the file only if
\* neither names one in bounds.
DateIsTheMails ==
  stage = "imported" /\ msg.replaced =>
    LET headers  == Inspect(file.text)
        received == IF meta.sent THEN {} ELSE Meant(FirstReceivedDateCandidate(headers))
        date     == Meant(FirstValue(headers, "Date"))
        put      == IF meta.sent THEN msg.submit ELSE msg.delivery
    IN  CASE received # {}                 -> put \in received
          [] received = {} /\ date # {}   -> put \in date
          [] OTHER                         -> put = file.mtime

\* No message is imported with an absurd date or none, unless it is the time of
\* the file itself.
DatedPlausibly ==
  stage = "imported" =>
    LET date == IF meta.sent THEN msg.submit ELSE msg.delivery
    IN  \/ date \notin {NoDate} /\ ~Later(Epoch, date) /\ ~Later(date, <<Now[1] + 365, Now[2]>>)
        \/ date = file.mtime /\ meta.fromFile

\* A mail with a Subject never counts as imported without one, nor a
\* multipart/mixed one without an attachment, in whichever attempt it was.
LossNeverCounts ==
  stage = "imported" =>
    /\ OwnSubject # {} => msg.subject # {}
    /\ (\E v \in FirstValue(Inspect(file.text), "Content-Type") :
           v # <<>> /\ v[1] = "multipart/mixed") => msg.parts > 0
=============================================================================
