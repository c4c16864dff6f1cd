------------------------------ MODULE MailText ------------------------------
(***************************************************************************)
(* What the worker reads and rewrites of the header of a mail:             *)
(* inspect_headers (worker/headers), normalize_eml_header                  *)
(* (worker/normalize) and the copy that write_normalized_copy makes.       *)
(*                                                                         *)
(* A text is a sequence of "CR", "LF", "NUL", " " (space or tab), ":",     *)
(* "8bit" (what no field name may contain), "BOM" and words.  The case of  *)
(* words is left out: names are compared without it.                       *)
(***************************************************************************)
EXTENDS Integers, Sequences, SequencesExt, FiniteSetsExt

CONSTANT Cap   \* kDefaultHeaderCap

ASSUME CapAssumption == Cap \in Nat \ {0}

Breaks == {"CR", "LF"}
CRLF == <<"CR", "LF">>

-----------------------------------------------------------------------------
(* Lines: both loops look for the next CR, LF or CRLF *)

Window(text) == SubSeq(text, 1, Min({Cap, Len(text)}))

TextStart(w) == IF w # <<>> /\ w[1] = "BOM" THEN 2 ELSE 1

LineStarts(w) ==
  {p \in TextStart(w)..Len(w) :
     \/ p = TextStart(w)
     \/ w[p - 1] = "LF"
     \/ w[p - 1] = "CR" /\ w[p] # "LF"}

LineEnd(w, p) == Min({i \in p..Len(w) : w[i] \in Breaks} \cup {Len(w) + 1})

LineAt(w, p) ==
  LET end == LineEnd(w, p)
      ending == IF end > Len(w) THEN "none"
                ELSE IF end < Len(w) /\ w[end] = "CR" /\ w[end + 1] = "LF" THEN "CRLF"
                ELSE w[end]
  IN  [first  |-> p,
       text   |-> SubSeq(w, p, end - 1),
       ending |-> ending,
       next   |-> end + (CASE ending = "none" -> 0 [] ending = "CRLF" -> 2 [] OTHER -> 1)]

\* A set of positions, in order
InOrder(S) ==
  [k \in 1..Cardinality(S) |-> CHOOSE p \in S : Cardinality({q \in S : q < p}) = k - 1]

Lines(w) ==
  LET starts == InOrder(LineStarts(w))
  IN  [i \in DOMAIN starts |-> LineAt(w, starts[i])]

-----------------------------------------------------------------------------
(* inspect_headers *)

\* What is left of text without the characters X
Without(text, X) ==
  LET kept == InOrder({i \in DOMAIN text : text[i] \notin X})
  IN  [k \in DOMAIN kept |-> text[kept[k]]]

StripNul(text) == Without(text, {"NUL"})

Trim(text) ==
  LET kept == {i \in DOMAIN text : text[i] # " "}
  IN  IF kept = {} THEN <<>> ELSE SubSeq(text, Min(kept), Max(kept))

Field(text) ==
  LET colon == SelectInSeq(text, LAMBDA c : c = ":")
  IN  [name  |-> Trim(SubSeq(text, 1, colon - 1)),
       value |-> Trim(SubSeq(text, colon + 1, Len(text)))]

Unfold(value, more) ==
  value \o (IF value # <<>> /\ more # <<>> THEN <<" ">> ELSE <<>>) \o more

\* One line: a continuation, a line without colon or a field; read.open is
\* have_current_field.
ReadLine(read, line) ==
  LET text == StripNul(line.text)
      last == Len(read.fields)
  IN  IF text # <<>> /\ text[1] = " "
        THEN IF read.open
               THEN [read EXCEPT !.fields[last].value = Unfold(@, Trim(text))]
               ELSE read
      ELSE IF ":" \notin ToSet(text)
        THEN [read EXCEPT !.open = FALSE, !.reasons = @ \cup {"line-without-colon"}]
        ELSE [read EXCEPT !.open = TRUE, !.fields = Append(@, Field(text))]

NothingRead == [fields |-> <<>>, open |-> FALSE, reasons |-> {}]

ReadLines(lines) ==
  LET read[i \in 0..Len(lines)] ==
        IF i = 0 THEN NothingRead ELSE ReadLine(read[i - 1], lines[i])
  IN  read[Len(lines)]

\* The separator, 0 if there is none
BlankLine(lines) == SelectInSeq(lines, LAMBDA l : l.text = <<>>)

InspectWindow(w) ==
  LET lines   == Lines(w)
      blank   == BlankLine(lines)
      section == IF blank = 0 THEN lines ELSE SubSeq(lines, 1, blank - 1)
      ended   == IF blank = 0 THEN lines ELSE SubSeq(lines, 1, blank)
      read    == ReadLines(section)
  IN  [fields    |-> read.fields,
       reasons   |-> read.reasons
                     \cup {r \in {"utf8-bom"} : TextStart(w) = 2}
                     \cup {r \in {"nul-in-header"} : \E l \in ToSet(section) : "NUL" \in ToSet(l.text)}
                     \cup {r \in {"bare-cr"} : \E l \in ToSet(ended) : l.ending = "CR"},
       separator |-> blank # 0,
       bytes     |-> IF blank = 0 THEN Len(w) ELSE lines[blank].next - 1]

Inspect(text) == InspectWindow(Window(text))

\* first_value: of the first field of that name, as a set with at most one value
FirstValue(inspection, name) ==
  LET i == SelectInSeq(inspection.fields, LAMBDA f : f.name = <<name>>)
  IN  IF i = 0 THEN {} ELSE {inspection.fields[i].value}

XUnsent(inspection) == <<"1">> \in FirstValue(inspection, "X-Unsent")

\* The text after the last ";" of the first Received
FirstReceivedDateCandidate(inspection) ==
  {Trim(SubSeq(v, SelectLastInSeq(v, LAMBDA c : c = ";") + 1, Len(v))) :
     v \in {u \in FirstValue(inspection, "Received") : ";" \in ToSet(u)}} \ {<<>>}

-----------------------------------------------------------------------------
(* normalize_eml_header, write_normalized_copy *)

IsHeaderLikeLine(text) ==
  /\ text # <<>>
  /\ \/ text[1] = " "
     \/ LET colon == SelectInSeq(text, LAMBDA c : c = ":")
        IN  /\ colon > 1
            /\ ToSet(SubSeq(text, 1, colon - 1)) \cap {" ", "NUL", "8bit", "BOM"} = {}

\* The walk ends at the separator, or at the first line that cannot belong to a
\* header; one with a NUL is kept.
EndsHeader(l) == ~IsHeaderLikeLine(l.text) /\ "NUL" \notin ToSet(l.text)

HeaderEnd(lines) == SelectInSeq(lines, EndsHeader)

\* Mutant: the line is taken for a C string.
RewrittenToNul(l) ==
  (IF "NUL" \in ToSet(l.text)
     THEN SubSeq(l.text, 1, SelectInSeq(l.text, LAMBDA c : c = "NUL") - 1)
     ELSE l.text) \o CRLF

\* Mutant: line endings are kept.
RewrittenAsIs(l) == StripNul(l.text) \o (IF l.ending = "CR" THEN <<"CR">> ELSE CRLF)

Rewritten(l) == StripNul(l.text) \o CRLF

\* Mutant: the line that shows that the separator is missing is dropped.
BodyStartDropping(w, lines, stop) == IF stop = 0 THEN Len(w) ELSE lines[stop].next - 1

\* original_header_bytes
BodyStart(w, lines, stop) ==
  IF stop = 0 THEN Len(w)
  ELSE IF lines[stop].text = <<>> THEN lines[stop].next - 1
  ELSE lines[stop].first - 1

Normalize(text) ==
  LET w       == Window(text)
      lines   == Lines(w)
      stop    == HeaderEnd(lines)
      kept    == IF stop = 0 THEN lines ELSE SubSeq(lines, 1, stop - 1)
      walked  == IF stop = 0 THEN lines ELSE SubSeq(lines, 1, stop)
      inserted == stop = 0 \/ lines[stop].text # <<>>
  IN  [header   |-> FlattenSeq([i \in DOMAIN kept |-> Rewritten(kept[i])]) \o CRLF,
       body     |-> BodyStart(w, lines, stop),
       changed  |-> \/ TextStart(w) = 2
                    \/ inserted
                    \/ \E l \in ToSet(kept) : "NUL" \in ToSet(l.text)
                    \/ \E l \in ToSet(walked) : l.ending \in Breaks]

\* The bytes after the header are copied as they are.
NormalizedCopy(text) ==
  LET norm == Normalize(text)
  IN  norm.header \o SubSeq(text, norm.body + 1, Len(text))
=============================================================================
