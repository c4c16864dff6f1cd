----------------------------- MODULE MailDates ------------------------------
(***************************************************************************)
(* parse_rfc5322_date (worker/dates) and the bounds a date must respect.   *)
(*                                                                         *)
(* A date is read as a sequence of pieces: " ", "(", ")", "\", "," and     *)
(* words, which are numbers, names, times or offsets.  A name is its first *)
(* three letters and its length.  A time is the pair of the day and the    *)
(* second of the day (64 bits of 100 ns in the code, never near overflow). *)
(***************************************************************************)
EXTENDS MailText

Mark(c)             == [is |-> "mark", mark |-> c]
Number(digits, n)   == [is |-> "number", digits |-> digits, n |-> n]
Name(first, length) == [is |-> "name", first |-> first, length |-> length]
Clock(parts)        == [is |-> "clock", parts |-> parts]
Offset(sign, digits, n) == [is |-> "offset", sign |-> sign, digits |-> digits, n |-> n]

Junk  == [is |-> "junk"]
Space == Mark(" ")
Comma == Mark(",")

-----------------------------------------------------------------------------
(* Words *)

\* Comments nest; a backslash in a comment takes the next character with it.
Uncomment(read, c) ==
  CASE read.depth = 0 /\ c = Mark("(")  -> [read EXCEPT !.depth = 1]
    [] read.depth = 0 /\ c # Mark("(")  -> [read EXCEPT !.out = Append(@, c)]
    [] read.depth > 0 /\ read.escaped   -> [read EXCEPT !.escaped = FALSE]
    [] read.depth > 0 /\ ~read.escaped  ->
         CASE c = Mark("\\") -> [read EXCEPT !.escaped = TRUE]
           [] c = Mark("(")  -> [read EXCEPT !.depth = @ + 1]
           [] c = Mark(")")  -> [read EXCEPT !.depth = @ - 1]
           [] OTHER          -> read

StripComments(text) ==
  FoldLeft(Uncomment, [depth |-> 0, escaped |-> FALSE, out |-> <<>>], text).out

\* What stands between two spaces.
Tokenize(text) ==
  LET starts == {p \in DOMAIN text : text[p] # Space /\ (p = 1 \/ text[p - 1] = Space)}
      end(p) == Min({i \in p..Len(text) : text[i] = Space} \cup {Len(text) + 1})
      sorted == InOrder(starts)
  IN  [i \in DOMAIN sorted |-> SubSeq(text, sorted[i], end(sorted[i]) - 1)]

\* A token that is one word; what was joined because a comment between two words
\* went away is no word any more (two numbers are not joined in the inputs).
Word(token) == IF Len(token) = 1 THEN token[1] ELSE Junk

DayNames == {"MON", "TUE", "WED", "THU", "FRI", "SAT", "SUN"}
Months   == <<"JAN", "FEB", "MAR", "APR", "MAY", "JUN",
              "JUL", "AUG", "SEP", "OCT", "NOV", "DEC">>

IsDayName(token) ==
  LET word == Word(IF Last(token) = Comma THEN Front(token) ELSE token)
  IN  word.is = "name" /\ word.length = 3 /\ word.first \in DayNames

\* Each parser returns the set of what it accepts: one value or none.
ParseDigits(word, lengths) ==
  IF word.is = "number" /\ word.digits \in lengths THEN {word.n} ELSE {}

\* parse_month looks at the first three letters only, whatever follows them.
ParseMonth(token) ==
  {m \in DOMAIN Months : token[1].is = "name" /\ token[1].length >= 3 /\ token[1].first = Months[m]}

ParseYear(word) ==
  {CASE word.digits = 2 -> IF n <= 49 THEN 2000 + n ELSE 1900 + n
     [] word.digits = 3 -> 1900 + n
     [] word.digits = 4 -> n : n \in ParseDigits(word, 2..4)}

\* Seconds of the day; a leap second is taken for the second before it.
ParseTime(word) ==
  IF word.is # "clock" \/ Len(word.parts) \notin 2..3 THEN {}
  ELSE LET Part(i, max) == {n \in ParseDigits(word.parts[i], 1..2) : n <= max}
           seconds == IF Len(word.parts) = 3 THEN Part(3, 60) ELSE {0}
       IN  {3600 * h + 60 * m + Min({s, 59}) : h \in Part(1, 23), m \in Part(2, 59), s \in seconds}

NamedZones == [UT |-> 0, GMT |-> 0, EST |-> -5, EDT |-> -4, CST |-> -6,
               CDT |-> -5, MST |-> -7, MDT |-> -6, PST |-> -8, PDT |-> -7]

\* Minutes from UTC.
ParseZone(word) ==
  CASE word.is = "offset" ->
         {word.sign * (60 * (n \div 100) + (n % 100)) :
            n \in {k \in {word.n} : word.digits = 4 /\ k % 100 < 60 /\ k \div 100 <= 14}}
    [] word.is = "name" ->
         {60 * NamedZones[z] : z \in {k \in {word.first} : word.length \in 2..3 /\ k \in DOMAIN NamedZones}}
         \cup {0 : l \in {1} \cap {word.length}}
    [] OTHER -> {}

-----------------------------------------------------------------------------
(* Calendar *)

IsLeap(year) == (year % 4 = 0 /\ year % 100 # 0) \/ year % 400 = 0

DaysInMonth(year, month) ==
  IF month = 2 /\ IsLeap(year) THEN 29
  ELSE <<31, 28, 31, 30, 31, 30, 31, 31, 30, 31, 30, 31>>[month]

\* Mutant: every fourth year of a cycle of 400 is a leap year.
DaysFromCivilJulian(year, month, day) ==
  LET y   == IF month <= 2 THEN year - 1 ELSE year
      yoe == y % 400
      doy == (153 * (IF month > 2 THEN month - 3 ELSE month + 9) + 2) \div 5 + day - 1
  IN  (y \div 400) * 146097 + yoe * 365 + yoe \div 4 + doy - 719468

\* Days since 1970-01-01; years begin in March and come in cycles of 400.
DaysFromCivil(year, month, day) ==
  LET y   == IF month <= 2 THEN year - 1 ELSE year
      yoe == y % 400
      doy == (153 * (IF month > 2 THEN month - 3 ELSE month + 9) + 2) \div 5 + day - 1
      doe == yoe * 365 + yoe \div 4 - yoe \div 100 + doy
  IN  (y \div 400) * 146097 + doe - 719468

\* unix_seconds as <<day, second>>
UnixTime(year, month, day, second, offset) ==
  LET s == second - 60 * offset
  IN  <<DaysFromCivil(year, month, day) + s \div 86400, s % 86400>>

\* What a date says, if there is such a day: day of the week and zone are optional.
DateFields(text) ==
  LET tokens == Tokenize(StripComments(text))
      first  == IF tokens # <<>> /\ IsDayName(tokens[1]) THEN 1 ELSE 0
      word(i) == Word(tokens[first + i])
      zones  == IF Len(tokens) = first + 5 THEN ParseZone(word(5)) ELSE {0}
      read   == {[year |-> y, month |-> m, day |-> d, second |-> s, offset |-> z] :
                   y \in ParseYear(word(3)), m \in ParseMonth(tokens[first + 2]),
                   d \in ParseDigits(word(1), 1..2), s \in ParseTime(word(4)), z \in zones}
  IN  IF Len(tokens) - first \notin 4..5 THEN {}
      ELSE {r \in read : r.day \in 1..DaysInMonth(r.year, r.month)}

\* parse_rfc5322_date
ParseDate(text) ==
  {UnixTime(r.year, r.month, r.day, r.second, r.offset) : r \in DateFields(text)}

-----------------------------------------------------------------------------
(* Bounds *)

Later(s, t) == s[1] > t[1] \/ (s[1] = t[1] /\ s[2] > t[2])

Epoch == <<0, 0>>

\* Not before 1970 and not more than a year from now.
InBounds(t, now) == ~Later(Epoch, t) /\ ~Later(t, <<now[1] + 365, now[2]>>)

ParseBounded(text, now) == {t \in ParseDate(text) : InBounds(t, now)}
=============================================================================
