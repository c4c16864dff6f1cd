---------------------------- MODULE MCMailImport ----------------------------
(***************************************************************************)
(* TLC instances of MailImport: mails whose header is malformed in every   *)
(* way a few lines allow, mails with dates in many forms, and mails in all *)
(* combinations of what the integrity check looks at.                      *)
(***************************************************************************)
EXTENDS MailImport

File(text, path, mtime, parts, readable) ==
  [text |-> text, path |-> path, mtime |-> mtime, parts |-> parts, readable |-> readable]

MCNow   == <<20000, 0>>
Recent  == <<19000, 7>>
Absurd  == <<900000, 0>>
MCConverterDates == {<<18000, 5>>, Absurd}

-----------------------------------------------------------------------------
(* Malformed headers *)

LineTexts == {<<>>, <<"x", ":", "y">>, <<" ", "z">>, <<"w">>, <<"NUL">>, <<"NUL", "w">>,
              <<"x", ":", "NUL", "y">>, <<"8bit", ":", "y">>}
Endings   == {CRLF, <<"CR">>, <<"LF">>}
Line      == {l \o e : l \in LineTexts, e \in Endings}
Rest      == <<"w", "NUL">>
Plenty    == FlattenSeq([i \in 1..4 |-> <<"x", ":", "y", "CR", "LF">>])

\* With plenty of header before them, Cap ends anywhere in the lines a and b.
Texts ==
  {a \o b \o c \o Rest : a, b, c \in Line}
  \cup {Plenty \o a \o b \o Rest : a, b \in Line}
  \cup {<<"BOM">> \o a \o t : a \in Line, t \in {<<>>, Rest}}
  \cup {<<"BOM", n, "BOM">> \o a \o Rest : n \in {"NUL", "w"}, a \in Line}
  \cup {<<"NUL", "BOM">> \o a : a \in Line}
  \cup {<<>>, <<"BOM">>}

Malformed == {File(t, <<"Inbox">>, Recent, 0, FALSE) : t \in Texts}

-----------------------------------------------------------------------------
(* Dates: what is meant and how it is written *)

Means(y, mo, d, s, off) == [year |-> y, month |-> mo, day |-> d, second |-> s, offset |-> off]

Time(s) == Clock(<<Number(2, s \div 3600), Number(2, (s \div 60) % 60), Number(2, s % 60)>>)
Minutes(s) == Clock(<<Number(1, s \div 3600), Number(2, (s \div 60) % 60)>>)
Zone(off) ==
  IF off < 0 THEN Offset(-1, 4, 100 * ((0 - off) \div 60) + ((0 - off) % 60))
             ELSE Offset(1, 4, 100 * (off \div 60) + (off % 60))

Plain(m) ==
  <<Name("TUE", 3), Comma, Space, Number(2, m.day), Space, Name(Months[m.month], 3), Space,
    Number(4, m.year), Space, Time(m.second), Space, Zone(m.offset)>>

Dates ==
  {Means(y, mo, d, 3723, 0) :
     y \in {1, 1600, 1899, 1900, 1970, 1999, 2000, 2023, 2024}, mo \in {1, 2, 3, 12}, d \in {1, 28, 31}}
  \cup {Means(2024, 2, 29, 86399, off) : off \in {-840, -1, 0, 90, 840}}
  \cup {Means(2025, 10, 3, 0, off) : off \in {-60, 0, 60}}
  \cup {Means(1970, 1, 1, 60, 1), Means(1970, 1, 1, 60, 2), Means(2000, 2, 29, 60, 0)}

\* Other ways to write a date, and what is none.
Forms ==
  {<<<<Number(1, 5), Space, Name("JUL", 4), Space, Number(2, y), Space, Minutes(600)>>,
     {Means(IF y < 50 THEN 2000 + y ELSE 1900 + y, 7, 5, 600, 0)}>> : y \in {3, 49, 50, 99}}
  \cup
  {<<<<Mark("("), Mark("("), Mark("\\"), Mark(")"), Mark(")"), Name("X", 1), Mark(")"), Space,
       Name("FRI", 3), Space, Number(1, 5), Space, Name("JUL", 3), Space, Number(3, 103), Space,
       Clock(<<Number(2, 23), Number(2, 59), Number(2, 60)>>), Space, z[1], Mark("("),
       Name("CES", 4), Mark(")")>>, {Means(2003, 7, 5, 86399, z[2])}>> :
     z \in {<<Name("EDT", 3), -240>>, <<Name("Z", 1), 0>>, <<Name("K", 1), 0>>, <<Name("UT", 2), 0>>}}
  \cup
  {<<<<Number(2, d), Space, Name("FEB", 3), Space, Number(4, 2023), Space, t>>, {}>> :
     d \in {0, 29}, t \in {Minutes(0)}}
  \cup
  {<<<<Number(1, 5), Space, Name("JUL", 3), Space, Number(4, 2003), Space, t, Space, z>>, {}>> :
     t \in {Minutes(0)}, z \in {Offset(1, 4, 1500), Offset(1, 4, 160), Offset(1, 2, 1),
                                Name("CES", 4), Number(1, 0)}}
  \cup
  {<<<<Number(1, 5), Space, Name("JUL", 3), Space, Number(4, 2003), Space, Clock(<<Number(2, 24), Number(2, 0)>>)>>, {}>>,
   <<<<Number(1, 5), Space, Name("JUL", 3), Space, Number(1, 3), Space, Minutes(0)>>, {}>>,
   <<<<Number(1, 5), Mark("("), Mark(")"), Name("JUL", 3), Space, Number(4, 2003), Space, Minutes(0), Space, Zone(0)>>, {}>>}

AllForms ==
  {<<Plain(m), {n \in {m} : n.day <= DaysInMonth(n.year, n.month)}>> : m \in Dates} \cup Forms

\* A date in a header is one word, its own text.
DateWord(f) == ToString(f)
DateWords   == [w \in {DateWord(f) : f \in AllForms} |->
                  CHOOSE f \in AllForms : DateWord(f) = w]
PlainDate   == DateWord(CHOOSE f \in AllForms : f[1] = Plain(Means(2000, 2, 29, 60, 0)))

IsDateWord(v) == Len(v) = 1 /\ v[1] \in DOMAIN DateWords
MCDateText(v) == IF IsDateWord(v) THEN DateWords[v[1]][1] ELSE <<>>
MCMeaning(v)  == IF IsDateWord(v) THEN DateWords[v[1]][2] ELSE {}

Header(name, value) == <<name, ":", " ">> \o value \o CRLF

Dated ==
  {File(h, <<p, "a">>, t, 0, TRUE) :
     h \in {Header("Date", <<w>>) \o CRLF : w \in DOMAIN DateWords}
           \cup {Header("Received", <<"x", ";", "y", ";", w>>) \o Header("Date", <<PlainDate>>)
                   \o CRLF : w \in {DateWord(f) : f \in Forms}},
     p \in {"Inbox", "Sent"}, t \in {Recent}}

-----------------------------------------------------------------------------
(* What the integrity check looks at *)

Declared ==
  {File((IF u THEN Header("X-Unsent", <<"1">>) ELSE <<>>)
          \o s \o (IF m THEN Header("Content-Type", <<"multipart/mixed", ";", "b">>) ELSE <<>>) \o e,
        p, t, n, TRUE) :
     u \in BOOLEAN, m \in BOOLEAN, e \in {CRLF, <<"LF">>},
     s \in {<<>>, Header("Subject", <<"s">>), <<"Subject", ":">> \o CRLF},
     p \in {<<"Inbox">>, <<"Sent", "Drafts">>}, t \in {Recent, Absurd}, n \in 0..1}

MCFiles == Malformed \cup Dated \cup Declared

\* Every form is read as what is meant by it, so DatesAreRead holds of every mail.
ASSUME \A f \in AllForms : DateFields(f[1]) = f[2]
=============================================================================
