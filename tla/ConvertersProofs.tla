-------------------------- MODULE ConvertersProofs --------------------------
(***************************************************************************)
(* Theorems of Converters, for every machine, every mail and every set of  *)
(* faults: what imports mail was seen to convert, the first variant that   *)
(* converts is the one that is taken, and what the parser of Windows has   *)
(* imported is the mail.                                                   *)
(***************************************************************************)
EXTENDS Converters, TLAPS

Parts == {"load", "subject", "sender", "recipients", "plain", "html", "attachments", "write"}
Judging == {"judge", "judgeSaved"}

\* The calibration has settled on nothing while it tries, and its loop ends before
\* the parser of Windows.
Trying ==
  /\ machine \in Machines
  /\ variant \in Nat \ {0}
  /\ at \in {"variant", "attach", "parser"} \cup Judging => config = 0
  /\ at \in {"variant", "attach"} => variant # MimeOle
  /\ at \in Parts \cup {"parser"} /\ config = 0 => variant = MimeOle
  /\ at \in {"run", "imported"} => config # 0

\* The converter at hand comes from where no call fails, or its variant has stumbled.
FromThere ==
  /\ at \in {"attach"} \cup Judging /\ variant # MimeOle =>
       /\ source \in Acquired
       /\ source # Foremost /\ variant \in machine.converting => variant \in stumbled
  /\ at \in Parts \cup Judging /\ variant = MimeOle /\ config = 0 => source = "windows"

\* Only an object that converts makes the message the fixture.
GoodConverts ==
  /\ at \in Judging /\ variant # MimeOle /\ Good => Converts(variant, source)
  /\ at \in Parts \cup Judging /\ variant = MimeOle /\ config = 0
     /\ MimeOle \notin machine.converting =>
       mail.attachments = <<>> /\ msg.attachments = <<>> /\ at # "write"

\* What was settled on was verified, with a converter that may be another one later.
VerifiedWith(place) ==
  /\ [variant |-> config, source |-> place] \in verified /\ Converts(config, place)
  /\ IF config = MimeOle THEN place = "windows" ELSE place = Foremost \/ config \in stumbled

SettledOn == config # 0 => \E place : VerifiedWith(place)

EngineInv == Trying /\ FromThere /\ GoodConverts /\ SettledOn /\ OnlyVerifiedEngine

\* At first the calibration tries its first variant.
LEMMA InitEngine == Init => EngineInv
<1> SUFFICES ASSUME Init PROVE EngineInv
  OBVIOUS
<1>1. MimeOle # 1
  BY DEF MimeOle, Variants
<1> QED
  BY <1>1 DEF Init, EngineInv, Trying, FromThere, GoodConverts, SettledOn, OnlyVerifiedEngine,
              Parts, Judging

\* A step that leaves what was settled on, and the engine, alone.
Aside == UNCHANGED <<machine, config, verified, engine>> /\ stumbled \subseteq stumbled'

\* Where a converter can be had is a matter of the machine.
LEMMA SamePlaces ==
  machine' = machine => /\ Acquired' = Acquired /\ Foremost' = Foremost /\ Routes' = Routes
                        /\ \A v, place : Converts(v, place)' = Converts(v, place)
<1> SUFFICES ASSUME machine' = machine
             PROVE  /\ Acquired' = Acquired /\ Foremost' = Foremost /\ Routes' = Routes
                    /\ \A v, place : Converts(v, place)' = Converts(v, place)
  OBVIOUS
<1>1. Routes' = Routes
  BY DEF Routes
<1>2. Working' = Working
  BY <1>1 DEF Working
<1>3. Acquired' = Acquired /\ Foremost' = Foremost
  BY <1>1, <1>2 DEF Acquired, Foremost
<1>4. \A v, place : Converts(v, place)' = Converts(v, place)
  BY Zenon DEF Converts
<1> QED
  BY <1>1, <1>3, <1>4

LEMMA AsideKeeps ==
  ASSUME EngineInv, Aside PROVE SettledOn' /\ OnlyVerifiedEngine'
<1>1. /\ machine' = machine /\ config' = config /\ verified' = verified /\ engine' = engine
      /\ Foremost' = Foremost /\ stumbled \subseteq stumbled'
  BY SamePlaces DEF Aside
<1>2. SettledOn'
  BY <1>1 DEF EngineInv, SettledOn, VerifiedWith, Converts
<1>3. OnlyVerifiedEngine'
  BY <1>1 DEF EngineInv, OnlyVerifiedEngine, Converts
<1> QED
  BY <1>2, <1>3

\* A variant is given up: the next one has nothing yet.
LEMMA NextKeeps ==
  ASSUME EngineInv, NextVariant, at \in {"variant", "attach"} \cup Judging, variant # MimeOle,
         stumbled \subseteq stumbled'
  PROVE  EngineInv'
<1>1. /\ machine' = machine /\ config' = config /\ variant' = variant + 1
      /\ at' = IF variant' = MimeOle THEN "parser" ELSE "variant"
  BY DEF NextVariant
<1>2. SettledOn' /\ OnlyVerifiedEngine'
  BY AsideKeeps DEF NextVariant, Aside
<1>3. Trying'
  BY <1>1 DEF EngineInv, Trying, Parts, Judging
<1>4. FromThere' /\ GoodConverts'
  BY <1>1 DEF FromThere, GoodConverts, Parts, Judging
<1> QED
  BY <1>2, <1>3, <1>4 DEF EngineInv

\* A refusal leaves nothing at work.
LEMMA RefuseKeeps ==
  ASSUME EngineInv, Refuse, stumbled \subseteq stumbled' PROVE EngineInv'
<1>1. Aside /\ at' = "refused" /\ variant' = variant
  BY DEF Refuse, Aside
<1>2. SettledOn' /\ OnlyVerifiedEngine'
  BY <1>1, AsideKeeps
<1>3. Trying' /\ FromThere' /\ GoodConverts'
  BY <1>1 DEF Aside, EngineInv, Trying, FromThere, GoodConverts, Parts, Judging
<1> QED
  BY <1>2, <1>3 DEF EngineInv

\* The trial of one variant of Outlook's converter.
LEMMA TrialKeeps ==
  ASSUME EngineInv,
         \/ SkipVariant \/ AcquireFails \/ Acquire \/ DriveFails \/ CreateFails \/ Drive
         \/ SaveToJudge \/ Rejected \/ AllRejected \/ ParserCannotCreate
  PROVE  EngineInv'
<1>1. ASSUME SkipVariant \/ DriveFails \/ Rejected PROVE EngineInv'
  <2>1. NextVariant /\ at \in {"variant", "attach"} \cup Judging /\ variant # MimeOle
    BY <1>1 DEF SkipVariant, DriveFails, Rejected, JudgedBad, EngineInv, Trying, Judging
  <2>2. stumbled \subseteq stumbled'
    BY <1>1 DEF SkipVariant, DriveFails, Rejected, JudgedBad, Stumble
  <2> QED
    BY <2>1, <2>2, NextKeeps
<1>2. ASSUME AcquireFails \/ CreateFails \/ AllRejected \/ ParserCannotCreate PROVE EngineInv'
  <2>1. Refuse /\ stumbled \subseteq stumbled'
    BY <1>2 DEF AcquireFails, CreateFails, AllRejected, ParserCannotCreate, Abort, JudgedBad,
                Stumble
  <2> QED
    BY <2>1, RefuseKeeps
<1>3. ASSUME Acquire PROVE EngineInv'
  <2>1. /\ at = "variant" /\ at' = "attach" /\ source' \in Acquired /\ machine' = machine
        /\ variant' = variant /\ config' = config /\ verified' = verified /\ engine' = engine
    BY <1>3 DEF Acquire
  <2>2. /\ stumbled \subseteq stumbled'
        /\ source' # Foremost /\ variant \in machine.converting => variant \in stumbled'
    BY <1>3 DEF Acquire, Stumble
  <2>3. SettledOn' /\ OnlyVerifiedEngine'
    BY <2>1, <2>2, AsideKeeps DEF Aside
  <2>4. Trying' /\ GoodConverts'
    BY <2>1 DEF EngineInv, Trying, GoodConverts, Parts, Judging
  <2>5. FromThere'
    BY <2>1, <2>2, SamePlaces DEF EngineInv, Trying, FromThere, Parts, Judging
  <2> QED
    BY <2>3, <2>4, <2>5 DEF EngineInv
<1>4. ASSUME Drive PROVE EngineInv'
  <2>1. /\ at = "attach" /\ at' = "judge" /\ source' = source /\ machine' = machine
        /\ variant' = variant /\ config' = config /\ stumbled' = stumbled
        /\ msg' = IF Converts(variant, source) /\ variant \notin machine.deferring
                    THEN Whole(Fixture) ELSE [Empty EXCEPT !.plain = TRUE]
    BY <1>4 DEF Drive, calibration
  <2>2. SettledOn' /\ OnlyVerifiedEngine'
    BY <1>4, AsideKeeps DEF Drive, Aside, calibration
  <2>3. ~Converts(variant, source) => ~Good'
    BY <2>1 DEF Good, Empty
  <2>4. Trying' /\ FromThere'
    BY <2>1, SamePlaces DEF EngineInv, Trying, FromThere, Parts, Judging
  <2>5. GoodConverts'
    BY <2>1, <2>3, SamePlaces DEF EngineInv, Trying, GoodConverts, Converts, Parts, Judging
  <2> QED
    BY <2>2, <2>4, <2>5 DEF EngineInv
<1>5. ASSUME SaveToJudge PROVE EngineInv'
  <2>1. /\ at = "judge" /\ at' = "judgeSaved" /\ source' = source /\ machine' = machine
        /\ variant' = variant /\ config' = config /\ mail' = mail /\ stumbled' = stumbled
        /\ ~Good
        /\ msg' = IF Converts(variant, source) /\ variant \in machine.deferring
                    THEN Whole(Fixture) ELSE msg
    BY <1>5 DEF SaveToJudge, calibration
  <2>2. SettledOn' /\ OnlyVerifiedEngine'
    BY <1>5, AsideKeeps DEF SaveToJudge, Aside, calibration
  <2>3. machine.deferring \subseteq machine.converting \ {MimeOle}
    BY ConvertersAssumption DEF EngineInv, Trying, MachineShape
  <2>4. Trying' /\ FromThere'
    BY <2>1, SamePlaces DEF EngineInv, Trying, FromThere, Parts, Judging
  <2>5. variant = MimeOle \/ ~Converts(variant, source) => msg' = msg
    BY <2>1, <2>3
  <2>6. variant # MimeOle /\ Good' => Converts(variant, source)
    BY <2>1, <2>5 DEF Good
  <2>7. GoodConverts'
    BY <2>1, <2>5, <2>6 DEF EngineInv, GoodConverts, Converts, Parts, Judging
  <2> QED
    BY <2>2, <2>4, <2>7 DEF EngineInv
<1> QED
  BY <1>1, <1>2, <1>3, <1>4, <1>5

\* A good verdict settles on a variant that converts with the converter at hand.
LEMMA SettleKeeps == ASSUME EngineInv, JudgedGood PROVE EngineInv'
<1>1. /\ at \in Judging /\ Good /\ config' = variant /\ at' = "run" /\ machine' = machine
      /\ verified' = verified \cup {[variant |-> variant, source |-> source]}
      /\ variant' = variant /\ source' = source /\ engine' = engine /\ stumbled' = stumbled
  BY DEF JudgedGood, Settle, Judging
<1>2. variant = MimeOle => source = "windows"
  BY <1>1 DEF EngineInv, FromThere, Trying
<1>3. Converts(variant, source)
  <2>1. CASE variant # MimeOle
    BY <1>1, <2>1 DEF EngineInv, GoodConverts
  <2>2. CASE variant = MimeOle
    <3>1. MimeOle \in machine.converting
      BY <1>1, <2>2 DEF EngineInv, Trying, GoodConverts, Good
    <3>2. "windows" \notin machine.raw
      BY ConvertersAssumption DEF EngineInv, Trying, MachineShape
    <3> QED
      BY <1>2, <2>2, <3>1, <3>2 DEF Converts
  <2> QED
    BY <2>1, <2>2
<1>4. variant # MimeOle => source = Foremost \/ variant \in stumbled
  BY <1>1, <1>3 DEF EngineInv, FromThere, Converts
<1>5. VerifiedWith(source)'
  BY <1>1, <1>2, <1>3, <1>4, SamePlaces DEF VerifiedWith, Converts
<1>6. SettledOn'
  BY <1>5 DEF SettledOn
<1>7. OnlyVerifiedEngine'
  BY <1>1, SamePlaces DEF EngineInv, OnlyVerifiedEngine, Converts
<1>8. Trying' /\ FromThere' /\ GoodConverts'
  BY <1>1 DEF EngineInv, Trying, FromThere, GoodConverts, Parts, Judging
<1> QED
  BY <1>6, <1>7, <1>8 DEF EngineInv

\* The trial of the parser of Windows: a fixture without attachment if it cannot convert.
LEMMA ParserKeeps == ASSUME EngineInv, TryParser PROVE EngineInv'
<1>1. /\ at = "parser" /\ at' = "load" /\ source' = "windows" /\ machine' = machine
      /\ variant' = variant /\ config' = config /\ msg' = Empty
      /\ mail' = IF MimeOle \in machine.converting THEN Fixture
                                                    ELSE [Fixture EXCEPT !.attachments = <<>>]
  BY DEF TryParser, Begin, calibration
<1>2. SettledOn' /\ OnlyVerifiedEngine'
  BY AsideKeeps DEF TryParser, Aside, calibration
<1>3. MailShape(Fixture)
  BY ConvertersAssumption
<1>4. MimeOle \notin machine.converting => mail'.attachments = <<>> /\ msg'.attachments = <<>>
  BY <1>1, <1>3 DEF MailShape, Empty
<1>5. Trying' /\ FromThere' /\ GoodConverts'
  BY <1>1, <1>4 DEF EngineInv, Trying, FromThere, GoodConverts, Parts, Judging
<1> QED
  BY <1>2, <1>5 DEF EngineInv

\* What every step of the parser's import keeps, and where it leads.
OnTheWay ==
  /\ at \in Parts /\ source' = source /\ machine' = machine /\ mail' = mail
  /\ variant' = variant /\ config' = config /\ verified' = verified /\ engine' = engine
  /\ stumbled' = stumbled
  /\ at' \in Parts \cup {"judge", "failed", "imported"}
  /\ (at' = "judge" => config = 0) /\ (at' = "imported" => config # 0)
  /\ mail.attachments = <<>> /\ msg.attachments = <<>> /\ at # "write" =>
       msg'.attachments = <<>> /\ at' # "write"

LEMMA PartIsOnTheWay == ASSUME ImportPart PROVE OnTheWay
<1> USE DEF OnTheWay, Part, Parts, calibration
<1>1. CASE Load
  BY <1>1 DEF Load
<1>2. CASE SetSubject
  BY <1>2 DEF SetSubject
<1>3. CASE SetSender
  <2>1. \E sender : Part("sender", "recipients", [msg EXCEPT !.sender = sender])
    BY <1>3 DEF SetSender
  <2> QED
    BY <2>1
<1>4. CASE AddRecipients
  <2>1. \E recipients : Part("recipients", "plain", [msg EXCEPT !.recipients = recipients])
    BY <1>4 DEF AddRecipients
  <2> QED
    BY <2>1
<1>5. CASE SetPlain
  BY <1>5 DEF SetPlain, SetBody
<1>6. CASE SetHtml
  BY <1>6 DEF SetHtml, SetBody
<1>7. CASE NextAttachment
  BY <1>7 DEF NextAttachment
<1>8. CASE WriteChunk
  BY <1>8 DEF WriteChunk
<1>9. CASE SaveAttachment
  BY <1>9 DEF SaveAttachment
<1>10. CASE NoAttachmentList
  BY <1>10 DEF NoAttachmentList, Parsed
<1>11. CASE AttachmentsDone
  BY <1>11 DEF AttachmentsDone, Parsed
<1>12. CASE PartFails
  BY <1>12 DEF PartFails, import
<1> QED
  BY <1>1, <1>2, <1>3, <1>4, <1>5, <1>6, <1>7, <1>8, <1>9, <1>10, <1>11, <1>12 DEF ImportPart

\* A step of the parser's import stays on the way to its verdict, and where the mail has
\* no attachment the message gets none.
LEMMA PartKeeps == ASSUME EngineInv, ImportPart PROVE EngineInv'
<1>1. OnTheWay
  BY PartIsOnTheWay
<1>2. SettledOn' /\ OnlyVerifiedEngine'
  BY <1>1, AsideKeeps DEF OnTheWay, Aside
<1>3. Trying' /\ FromThere'
  BY <1>1 DEF OnTheWay, EngineInv, Trying, FromThere, Parts, Judging
<1>4. GoodConverts'
  BY <1>1 DEF OnTheWay, EngineInv, Trying, GoodConverts, Parts, Judging
<1> QED
  BY <1>2, <1>3, <1>4 DEF EngineInv

\* Outlook's converter has none of its places in the parser of Windows.
LEMMA NotWindows ==
  ASSUME machine \in Machines PROVE Acquired \subseteq Range(Routes) \ {"windows"}
<1>1. MachineShape(machine)
  BY ConvertersAssumption
<1>2. "windows" \notin machine.places
  BY <1>1 DEF MachineShape
<1>3. \A i \in Working : i \in DOMAIN Routes /\ Routes[i] \in machine.places
  BY DEF Working
<1>4. ASSUME NEW place \in Acquired PROVE place \in Range(Routes) \ {"windows"}
  <2>1. PICK i \in Working : place = Routes[i]
    BY DEF Acquired
  <2> QED
    BY <1>2, <1>3, <2>1 DEF Range
<1> QED
  BY <1>4

\* The run has the engine made anew, of the variant that was settled on.
LEMMA RunKeeps ==
  ASSUME EngineInv,
         EngineFails \/ EnsureConverter \/ ImportMail \/ ConvertMail \/ ImportEnds
  PROVE  EngineInv'
<1>1. ASSUME EngineFails \/ ConvertMail PROVE EngineInv'
  <2>1. /\ at = "run" /\ at' = at /\ Aside /\ variant' = variant
    BY <1>1 DEF EngineFails, ConvertMail, Aside, calibration
  <2>2. SettledOn' /\ OnlyVerifiedEngine'
    BY <2>1, AsideKeeps
  <2>3. Trying' /\ FromThere' /\ GoodConverts'
    BY <2>1 DEF Aside, EngineInv, Trying, FromThere, GoodConverts, Parts, Judging
  <2> QED
    BY <2>2, <2>3 DEF EngineInv
<1>2. ASSUME ImportMail \/ ImportEnds PROVE EngineInv'
  <2>1. /\ config # 0 /\ at' \in {"load", "run"} /\ Aside /\ variant' = variant
    BY <1>2 DEF ImportMail, ImportEnds, Begin, Aside, calibration, EngineInv, Trying
  <2>2. SettledOn' /\ OnlyVerifiedEngine'
    BY <2>1, AsideKeeps
  <2>3. Trying' /\ FromThere' /\ GoodConverts'
    BY <2>1 DEF Aside, EngineInv, Trying, FromThere, GoodConverts, Parts, Judging
  <2> QED
    BY <2>2, <2>3 DEF EngineInv
<1>3. ASSUME EnsureConverter PROVE EngineInv'
  <2>1. /\ at = "run" /\ at' = at
        /\ UNCHANGED <<machine, variant, config, verified, stumbled>>
        /\ config = MimeOle => source' = "windows"
        /\ engine' = [variant |-> config, source |-> source']
    BY <1>3 DEF EnsureConverter, calibration
  <2>2. PICK place : VerifiedWith(place)
    BY <2>1 DEF EngineInv, Trying, SettledOn
  <2>3. VerifiedWith(place)' /\ Foremost' = Foremost
    BY <2>1, <2>2, SamePlaces DEF VerifiedWith, Converts
  <2>4. PICK seen \in verified' : /\ seen = [variant |-> config, source |-> place]
                                  /\ seen.variant = config /\ seen.source = place
    BY <2>1, <2>3 DEF VerifiedWith
  <2>5. Converts(seen.variant, seen.source)'
    BY <2>1, <2>2, <2>4 DEF VerifiedWith, Converts
  <2>6. engine'.variant \in {v.variant : v \in {w \in verified : Converts(w.variant, w.source)}}'
    <3>1. seen \in {w \in verified : Converts(w.variant, w.source)}'
      BY <2>4, <2>5
    <3>2. engine'.variant = seen.variant
      BY <2>1, <2>4
    <3> QED
      BY <3>1, <3>2
  <2>7. \/ engine' \in verified'
        \/ engine'.source \notin {"windows", Foremost'} \/ engine'.variant \in stumbled'
    <3>1. engine'.source = source' /\ engine'.variant = config
      BY <2>1
    <3>2. source' = place => engine' \in verified'
      BY <2>1, <2>4
    <3>3. IF config = MimeOle THEN place = "windows" ELSE place = Foremost \/ config \in stumbled
      BY <2>2 DEF VerifiedWith
    <3>4. config # MimeOle => source' # "windows"
      BY <1>3, NotWindows DEF EnsureConverter, EngineInv, Trying
    <3> QED
      BY <2>1, <2>3, <3>1, <3>2, <3>3, <3>4
  <2>8. OnlyVerifiedEngine'
    BY <2>6, <2>7 DEF OnlyVerifiedEngine
  <2>9. Trying' /\ FromThere' /\ GoodConverts'
    BY <2>1 DEF EngineInv, Trying, FromThere, GoodConverts, Parts, Judging
  <2> QED
    BY <2>3, <2>8, <2>9 DEF EngineInv, SettledOn
<1> QED
  BY <1>1, <1>2, <1>3

LEMMA EngineStep == EngineInv /\ [Next]_vars => EngineInv'
<1> SUFFICES ASSUME EngineInv, [Next]_vars PROVE EngineInv'
  OBVIOUS
<1>1. CASE Next
  BY <1>1, TrialKeeps, SettleKeeps, ParserKeeps, PartKeeps, RunKeeps DEF Next
<1>2. CASE UNCHANGED vars
  <2>1. Aside /\ UNCHANGED <<at, variant, source, mail, msg>>
    BY <1>2 DEF vars, calibration, import, Aside
  <2>2. SettledOn' /\ OnlyVerifiedEngine'
    BY <2>1, AsideKeeps
  <2>3. Trying' /\ FromThere' /\ GoodConverts'
    BY <2>1, SamePlaces DEF Aside, EngineInv, Trying, FromThere, GoodConverts, Good
  <2> QED
    BY <2>2, <2>3 DEF EngineInv
<1> QED
  BY <1>1, <1>2

LEMMA EngineHolds == Spec => []EngineInv
  BY InitEngine, EngineStep, PTL DEF Spec

\* No mail is imported by a variant that was not seen to convert on this machine, and by
\* one from another place than the verified one only if a route to the converter failed:
\* for every machine, every mail and whatever fails.
THEOREM EngineIsVerified == Spec => []OnlyVerifiedEngine
<1>1. EngineInv => OnlyVerifiedEngine
  BY DEF EngineInv
<1> QED
  BY EngineHolds, <1>1, PTL

\* ---- What a trial or an import has put into the message

Fields == {"subject", "sender", "recipients", "plain", "html", "attachments"}

\* Until the parser of Windows is tried there is only the fixture; it is tried with the
\* fixture, whole if it converts.
TrialInv ==
  /\ variant \in 1..MimeOle /\ config \in 0..MimeOle
  /\ verified \subseteq [variant : 1..MimeOle, source : Range(Routes) \cup {"windows"}]
  /\ stumbled \subseteq 1..MimeOle
  /\ MailShape(mail) /\ DOMAIN msg = Fields /\ todo \subseteq Mails
  /\ (config = 0 /\ variant # MimeOle) \/ at = "parser" => mail = Fixture /\ passed = {}
  /\ config = 0 /\ at \in Parts \cup Judging /\ MimeOle \in machine.converting => mail = Fixture

\* The attachments of the message are the first ones of the mail, at any time.
AttachmentsInv ==
  /\ msg.attachments \in Seq(Nat) /\ Len(msg.attachments) <= Len(mail.attachments)
  /\ \A i \in 1..Len(msg.attachments) : msg.attachments[i] = mail.attachments[i]
  /\ at = "write" => Len(msg.attachments) < Len(mail.attachments) /\ bytes \in 0..Size
  /\ at \notin {"write", "failed", "refused"} => bytes = -1

\* The parser's import is at work, or done and not yet put away.
Importing ==
  \/ at \in Parts \cup {"imported"}
  \/ at \in Judging /\ variant = MimeOle

FirstSender ==
  \/ mail.from # <<>> /\ msg.sender = <<mail.from[1]>>
  \/ mail.from = <<>> /\ mail.sender # <<>> /\ msg.sender = <<mail.sender[1]>>
  \/ mail.from \o mail.sender = <<>> \/ passed \cap {"from", "sender"} # {}

\* The parts of the mail that the import has behind it are in the message.
WholeInv ==
  /\ Importing /\ at \notin {"load", "subject"} =>
       msg.subject = mail.subject \/ "subject" \in passed
  /\ Importing /\ at \notin {"load", "subject", "sender"} => FirstSender
  /\ at \in {"load", "subject", "sender", "recipients"} => passed \cap {"to", "cc", "bcc"} = {}
  /\ Importing /\ at \notin {"load", "subject", "sender", "recipients"} =>
       msg.recipients = RecipientsBut(passed)
  /\ Importing /\ at \notin {"load", "subject", "sender", "recipients", "plain"} =>
       msg.plain = mail.plain \/ "plain" \in passed
  /\ Importing /\ at \notin {"load", "subject", "sender", "recipients", "plain", "html"} =>
       msg.html = mail.html \/ "html" \in passed
  /\ Importing /\ at \notin Parts =>
       msg.attachments = mail.attachments \/ "attachments" \in passed

\* Every variant behind the one on trial that converts and could be used stumbled, and one
\* that converts is found good, at the latest when its message was saved.
FirstInv ==
  /\ config = 0 /\ at # "refused" => \A v \in 1..(variant - 1) : ~PassedOver(v)
  /\ at = "judge" /\ Converts(variant, source) /\ variant \notin machine.deferring \cup {MimeOle} =>
       Good
  /\ at = "judgeSaved" /\ Converts(variant, source) /\ variant # MimeOle => Good
  /\ FirstThatConverts

MailInv == TrialInv /\ AttachmentsInv /\ WholeInv

LEMMA LeastOfTwo ==
  ASSUME NEW a \in Nat, NEW b \in Nat PROVE Min({a, b}) \in Nat /\ Min({a, b}) <= a
         /\ Min({a, b}) <= b /\ Min({a, b}) \in {a, b}
<1>1. \E x \in {a, b} : \A y \in {a, b} : x <= y
  OBVIOUS
<1>2. Min({a, b}) \in {a, b} /\ \A y \in {a, b} : Min({a, b}) <= y
  BY <1>1 DEF Min
<1> QED
  BY <1>2

LEMMA EmptyFields == DOMAIN Empty = Fields /\ Empty.attachments = <<>>
  BY DEF Empty, Fields

LEMMA WholeFields ==
  ASSUME NEW m PROVE DOMAIN Whole(m) = Fields /\ Whole(m).attachments = m.attachments
  BY DEF Whole, Fields

\* At first there is the fixture, and nothing of it in the message.
LEMMA InitMail == Init => MailInv
<1> SUFFICES ASSUME Init PROVE MailInv
  OBVIOUS
<1>1. MailShape(Fixture)
  BY ConvertersAssumption
<1>2. 1 \in 1..MimeOle /\ MimeOle \in 1..MimeOle /\ 1 # MimeOle
  BY DEF MimeOle, Variants
<1>3. TrialInv
  BY <1>1, <1>2, EmptyFields DEF Init, TrialInv, Parts, Judging
<1>4. AttachmentsInv
  BY <1>1, EmptyFields DEF Init, AttachmentsInv, MailShape
<1>5. WholeInv
  BY DEF Init, WholeInv, Importing, Parts, Judging
<1> QED
  BY <1>3, <1>4, <1>5 DEF MailInv

\* A message that is put away is empty: nothing of the mail is in it.
LEMMA PutAway ==
  ASSUME msg' = Empty, MailShape(mail'), at' \in {"variant", "parser", "run", "load"},
         bytes' = -1, at' = "load" => passed' = {}
  PROVE  AttachmentsInv' /\ WholeInv'
<1>1. AttachmentsInv'
  BY EmptyFields DEF AttachmentsInv, MailShape
<1>2. WholeInv'
  BY DEF WholeInv, Importing, Parts, Judging
<1> QED
  BY <1>1, <1>2

\* A step that touches neither mail nor message, and no part of the import.
LEMMA LeftAlone ==
  ASSUME MailInv, import' = import,
         \/ at' = "refused"
         \/ at' = at
         \/ at = "variant" /\ at' = "attach"
  PROVE  AttachmentsInv' /\ (variant' = variant => WholeInv')
<1> USE DEF import
<1>1. AttachmentsInv'
  BY DEF MailInv, AttachmentsInv, Size
<1>2. ASSUME variant' = variant PROVE WholeInv'
  BY <1>2 DEF MailInv, WholeInv, Importing, Parts, Judging, FirstSender, RecipientsBut
<1> QED
  BY <1>1, <1>2

\* A step of the trial.
LEMMA TrialMail ==
  ASSUME EngineInv, MailInv,
         \/ SkipVariant \/ AcquireFails \/ Acquire \/ DriveFails \/ CreateFails \/ Drive
         \/ SaveToJudge \/ Rejected \/ AllRejected \/ ParserCannotCreate
  PROVE  MailInv'
<1>0. MailShape(Fixture)
  BY ConvertersAssumption
<1>types. variant \in Nat /\ MimeOle \in Nat \ {0} /\ variant <= MimeOle
  BY DEF MailInv, TrialInv, MimeOle, Variants
<1>1. ASSUME SkipVariant \/ DriveFails \/ Rejected PROVE MailInv'
  <2>1. /\ NextVariant /\ at \in {"variant", "attach"} \cup Judging /\ variant # MimeOle
        /\ config = 0
    BY <1>1 DEF SkipVariant, DriveFails, Rejected, JudgedBad, EngineInv, Trying, Judging
  <2>2. /\ machine' = machine /\ config' = config /\ variant' = variant + 1
        /\ at' = IF variant' = MimeOle THEN "parser" ELSE "variant"
        /\ msg' = Empty /\ mail' = mail /\ bytes' = bytes /\ passed' = passed
        /\ verified' = verified /\ todo' = todo
    BY <2>1 DEF NextVariant
  <2>3. stumbled' \subseteq 1..MimeOle
    <3>1. stumbled' = stumbled \/ stumbled' = stumbled \cup ({variant} \cap machine.converting)
      BY <1>1 DEF SkipVariant, DriveFails, Rejected, JudgedBad, Stumble
    <3> QED
      BY <3>1 DEF MailInv, TrialInv
  <2>4. mail = Fixture /\ passed = {}
    BY <2>1 DEF MailInv, TrialInv
  <2>5. variant' \in 1..MimeOle
    BY <1>types, <2>1, <2>2
  <2>6. TrialInv'
    BY <1>0, <2>2, <2>3, <2>4, <2>5, EmptyFields, SamePlaces
       DEF MailInv, TrialInv, Parts, Judging
  <2>7. bytes = -1
    BY <2>1 DEF MailInv, AttachmentsInv, Judging
  <2> QED
    BY <1>0, <2>2, <2>4, <2>6, <2>7, PutAway DEF MailInv
<1>2. ASSUME AcquireFails \/ CreateFails \/ AllRejected \/ ParserCannotCreate PROVE MailInv'
  <2>1. Refuse
    BY <1>2 DEF AcquireFails, CreateFails, AllRejected, ParserCannotCreate, Abort
  <2>2. stumbled' \subseteq 1..MimeOle
    <3>1. \/ stumbled' = stumbled
          \/ stumbled' = stumbled \cup ({variant} \cap machine.converting)
          \/ stumbled' = stumbled \cup ((variant..MimeOle) \cap machine.converting)
      BY <1>2 DEF AcquireFails, CreateFails, AllRejected, ParserCannotCreate, Abort, JudgedBad,
                  Stumble
    <3>2. variant..MimeOle \subseteq 1..MimeOle
      BY DEF MailInv, TrialInv
    <3> QED
      BY <3>1, <3>2 DEF MailInv, TrialInv
  <2>3. TrialInv'
    BY <2>1, <2>2, SamePlaces DEF MailInv, TrialInv, Refuse, import, Parts, Judging
  <2> QED
    BY <2>1, <2>3, LeftAlone DEF MailInv, Refuse
<1>3. ASSUME Acquire PROVE MailInv'
  <2>1. /\ at = "variant" /\ at' = "attach" /\ import' = import /\ machine' = machine
        /\ UNCHANGED <<variant, config, verified, mail, msg, passed, todo>>
    BY <1>3 DEF Acquire, import
  <2>stumbled. stumbled' \subseteq 1..MimeOle
    BY <1>3 DEF Acquire, Stumble, MailInv, TrialInv
  <2>2. TrialInv'
    BY <2>1, <2>stumbled, <1>0, SamePlaces DEF MailInv, TrialInv, EngineInv, Trying, Parts, Judging
  <2> QED
    BY <2>1, <2>2, LeftAlone DEF MailInv
<1>4. ASSUME Drive PROVE MailInv'
  <2>1. /\ at = "attach" /\ at' = "judge" /\ machine' = machine
        /\ UNCHANGED <<variant, config, verified, stumbled, mail, bytes, passed, todo>>
        /\ msg' = IF Converts(variant, source) /\ variant \notin machine.deferring
                    THEN Whole(Fixture) ELSE [Empty EXCEPT !.plain = TRUE]
    BY <1>4 DEF Drive, calibration
  <2>2. config = 0 /\ variant # MimeOle /\ mail = Fixture /\ passed = {} /\ bytes = -1
    BY <2>1 DEF MailInv, TrialInv, EngineInv, Trying, AttachmentsInv
  <2>3. DOMAIN msg' = Fields /\ msg'.attachments \in {<<>>, mail.attachments}
    BY <2>1, <2>2, EmptyFields, WholeFields DEF Fields
  <2>4. TrialInv'
    BY <2>1, <2>2, <2>3, SamePlaces DEF MailInv, TrialInv
  <2>5. AttachmentsInv'
    <3>1. mail.attachments \in Seq(Nat)
      BY <1>0, <2>2 DEF MailShape
    <3>2. /\ mail'.attachments = mail.attachments /\ mail'.attachments \in Seq(Nat)
          /\ at' = "judge" /\ bytes' = -1
      BY <2>1, <2>2, <3>1
    <3>3. CASE msg'.attachments = <<>>
      BY <3>2, <3>3 DEF AttachmentsInv
    <3>4. CASE msg'.attachments = mail.attachments
      BY <3>2, <3>4 DEF AttachmentsInv
    <3> QED
      BY <2>3, <3>3, <3>4
  <2>6. WholeInv'
    BY <2>1, <2>2 DEF WholeInv, Importing, Parts
  <2> QED
    BY <2>4, <2>5, <2>6 DEF MailInv
<1>5. ASSUME SaveToJudge PROVE MailInv'
  <2>1. /\ at = "judge" /\ at' = "judgeSaved" /\ machine' = machine
        /\ UNCHANGED <<variant, config, verified, stumbled, mail, bytes, passed, todo>>
        /\ msg' = IF Converts(variant, source) /\ variant \in machine.deferring
                    THEN Whole(Fixture) ELSE msg
    BY <1>5 DEF SaveToJudge, calibration
  <2>2. machine.deferring \subseteq machine.converting \ {MimeOle}
    BY ConvertersAssumption DEF EngineInv, Trying, MachineShape
  <2>3. config = 0 /\ bytes = -1
    BY <2>1 DEF MailInv, EngineInv, Trying, AttachmentsInv, Judging
  <2>4. CASE msg' = msg
    <3>1. TrialInv' /\ AttachmentsInv'
      BY <2>1, <2>3, <2>4, SamePlaces DEF MailInv, TrialInv, AttachmentsInv, Parts, Judging
    <3>2. WholeInv'
      BY <2>1, <2>4 DEF MailInv, WholeInv, Importing, Parts, Judging, FirstSender, RecipientsBut
    <3> QED
      BY <3>1, <3>2 DEF MailInv
  <2>5. CASE variant \in machine.deferring /\ msg' = Whole(Fixture)
    <3>1. variant # MimeOle /\ mail = Fixture /\ passed = {} /\ msg' = Whole(Fixture)
      BY <2>1, <2>2, <2>3, <2>5 DEF MailInv, TrialInv
    <3>2. TrialInv' /\ AttachmentsInv'
      BY <1>0, <2>1, <2>3, <3>1, WholeFields, SamePlaces
         DEF MailInv, TrialInv, AttachmentsInv, MailShape, Parts, Judging
    <3>3. WholeInv'
      BY <2>1, <3>1 DEF WholeInv, Importing, Parts
    <3> QED
      BY <3>2, <3>3 DEF MailInv
  <2> QED
    BY <2>1, <2>4, <2>5
<1> QED
  BY <1>1, <1>2, <1>3, <1>4, <1>5

\* A verdict, and the steps of the run but those of the import.
LEMMA RunMail ==
  ASSUME EngineInv, MailInv,
         \/ JudgedGood \/ TryParser \/ EngineFails \/ EnsureConverter \/ ImportMail
         \/ ConvertMail \/ ImportEnds
  PROVE  MailInv'
<1>0. MailShape(Fixture) /\ \A m \in Mails : MailShape(m)
  BY ConvertersAssumption
<1>types. variant \in 1..MimeOle /\ MimeOle \in Nat \ {0}
  BY DEF MailInv, TrialInv, MimeOle, Variants
<1>1. ASSUME JudgedGood PROVE MailInv'
  <2>1. /\ at \in Judging /\ config' = variant /\ at' = "run" /\ machine' = machine
        /\ verified' = verified \cup {[variant |-> variant, source |-> source]}
        /\ msg' = Empty
        /\ UNCHANGED <<variant, stumbled, mail, bytes, passed, todo>>
    BY <1>1 DEF JudgedGood, Settle, Judging
  <2>2. source \in Range(Routes) \cup {"windows"}
    BY <2>1, NotWindows DEF EngineInv, FromThere, Trying
  <2>4. bytes = -1
    BY <2>1 DEF MailInv, AttachmentsInv, Judging
  <2>5. TrialInv'
    BY <1>types, <2>1, <2>2, EmptyFields, SamePlaces DEF MailInv, TrialInv, Parts, Judging
  <2> QED
    BY <2>1, <2>4, <2>5, PutAway DEF MailInv, TrialInv
<1>2. ASSUME TryParser PROVE MailInv'
  <2>1. /\ at = "parser" /\ at' = "load" /\ msg' = Empty /\ bytes' = -1 /\ passed' = {}
        /\ machine' = machine /\ UNCHANGED <<variant, config, verified, stumbled, todo>>
        /\ mail' = IF MimeOle \in machine.converting THEN Fixture
                                                      ELSE [Fixture EXCEPT !.attachments = <<>>]
    BY <1>2 DEF TryParser, Begin, calibration
  <2>2. MailShape(mail')
    BY <1>0, <2>1 DEF MailShape
  <2>3. config = 0 /\ variant = MimeOle
    BY <2>1 DEF EngineInv, Trying
  <2>4. TrialInv'
    BY <2>1, <2>2, <2>3, EmptyFields, SamePlaces DEF MailInv, TrialInv
  <2> QED
    BY <2>1, <2>2, <2>4, PutAway DEF MailInv
<1>3. ASSUME EngineFails \/ EnsureConverter \/ ConvertMail PROVE MailInv'
  <2>1. /\ at' = at /\ import' = import /\ machine' = machine
        /\ UNCHANGED <<variant, config, verified, stumbled, mail, msg, passed>>
        /\ todo' \subseteq todo
    BY <1>3 DEF EngineFails, EnsureConverter, ConvertMail, calibration, import
  <2>2. TrialInv'
    BY <2>1, SamePlaces DEF MailInv, TrialInv
  <2> QED
    BY <2>1, <2>2, LeftAlone DEF MailInv
<1>4. ASSUME ImportMail \/ ImportEnds PROVE MailInv'
  <2>1. /\ config # 0 /\ at' \in {"load", "run"} /\ msg' = Empty /\ bytes' = -1 /\ passed' = {}
        /\ UNCHANGED <<machine, variant, config, verified, stumbled>> /\ todo' \subseteq todo
    BY <1>4 DEF ImportMail, ImportEnds, Begin, calibration, EngineInv, Trying
  <2>2. MailShape(mail')
    BY <1>0, <1>4 DEF ImportMail, ImportEnds, Begin, MailInv, TrialInv
  <2>3. TrialInv'
    BY <2>1, <2>2, EmptyFields, SamePlaces DEF MailInv, TrialInv
  <2> QED
    BY <2>1, <2>2, <2>3, PutAway DEF MailInv
<1> QED
  BY <1>1, <1>2, <1>3, <1>4

\* A step of the parser's import gives up no part it has behind it.
LEMMA PartTrial ==
  ASSUME EngineInv, MailInv, ImportPart, DOMAIN msg' = Fields PROVE TrialInv'
<1>1. OnTheWay
  BY PartIsOnTheWay
<1>2. stumbled' = stumbled /\ todo' = todo
  BY DEF ImportPart, Load, SetSubject, SetSender, AddRecipients, SetPlain, SetHtml, SetBody,
         NextAttachment, WriteChunk, SaveAttachment, NoAttachmentList, AttachmentsDone, PartFails,
         Part, calibration
<1> QED
  BY <1>1, <1>2, SamePlaces DEF OnTheWay, EngineInv, Trying, MailInv, TrialInv, Parts, Judging

\* A part of the mail other than its attachments.
LEMMA FieldMail ==
  ASSUME EngineInv, MailInv, ImportPart,
         NEW step \in Parts \ {"attachments", "write"}, NEW next \in Parts \ {"write"}, NEW set,
         Part(step, next, set), DOMAIN set = Fields, set.attachments = msg.attachments
  PROVE  /\ TrialInv' /\ AttachmentsInv'
         /\ at = step /\ at' = next /\ msg' = set /\ mail' = mail
<1>1. /\ at = step /\ at' = next /\ msg' = set /\ mail' = mail /\ bytes' = bytes
  BY DEF Part
<1>2. AttachmentsInv'
  BY <1>1 DEF MailInv, AttachmentsInv, Parts
<1> QED
  BY <1>1, <1>2, PartTrial

LEMMA LoadMail == ASSUME EngineInv, MailInv, Load PROVE MailInv'
<1>1. /\ at = "load" /\ at' = "subject" /\ msg' = msg /\ passed' = passed
  BY DEF Load, Part
<1>2. TrialInv' /\ AttachmentsInv'
  BY FieldMail DEF Load, ImportPart, Parts, MailInv, TrialInv
<1>3. WholeInv'
  BY <1>1 DEF MailInv, WholeInv, Importing, Parts, Judging
<1> QED
  BY <1>2, <1>3 DEF MailInv

LEMMA SubjectMail == ASSUME EngineInv, MailInv, SetSubject PROVE MailInv'
<1>1. PICK lost \in Missing({"subject"}, "prop") :
         /\ passed' = passed \cup lost
         /\ Part("subject", "sender", [msg EXCEPT !.subject = mail.subject /\ lost = {}])
  BY DEF SetSubject
<1> DEFINE set == [msg EXCEPT !.subject = mail.subject /\ lost = {}]
<1>2. DOMAIN msg = Fields /\ mail.subject \in BOOLEAN
  BY DEF MailInv, TrialInv, MailShape
<1>3. DOMAIN set = Fields /\ set.attachments = msg.attachments
      /\ set.subject = (mail.subject /\ lost = {})
  BY <1>2 DEF Fields
<1> HIDE DEF set
<1>4. /\ TrialInv' /\ AttachmentsInv' /\ at = "subject" /\ at' = "sender" /\ msg' = set
      /\ mail' = mail
  BY <1>1, <1>3, FieldMail DEF set, ImportPart, Parts
<1>5. lost \subseteq {"subject"}
  BY <1>1 DEF Missing
<1>6. msg'.subject = mail'.subject \/ "subject" \in passed'
  <2>1. CASE lost = {}
    <3>1. set.subject = mail.subject
      BY <1>2, <1>3, <2>1, Zenon
    <3> QED
      BY <1>4, <3>1
  <2>2. CASE "subject" \in lost
    BY <1>1, <2>2
  <2> QED
    BY <1>5, <2>1, <2>2
<1>7. WholeInv'
  BY <1>1, <1>4, <1>5, <1>6 DEF MailInv, WholeInv, Importing, Parts, Judging
<1> QED
  BY <1>4, <1>7 DEF MailInv

LEMMA SameSequence ==
  ASSUME NEW S, NEW s \in Seq(S), NEW t \in Seq(S), Len(s) = Len(t),
         \A i \in 1..Len(s) : s[i] = t[i]
  PROVE  s = t
  OBVIOUS

LEMMA FirstOnly ==
  ASSUME NEW S, NEW s \in Seq(S), Len(s) \in Nat \ {0} PROVE SubSeq(s, 1, 1) = <<s[1]>>
<1>1. 1 \in 1..Len(s) /\ s[1] \in S
  OBVIOUS
<1>2. SubSeq(s, 1, 1) \in Seq(S) /\ Len(SubSeq(s, 1, 1)) = 1 /\ SubSeq(s, 1, 1)[1] = s[1]
  BY <1>1
<1>3. <<s[1]>> \in Seq(S) /\ Len(<<s[1]>>) = 1 /\ <<s[1]>>[1] = s[1]
  BY <1>1
<1>4. \A i \in 1..1 : SubSeq(s, 1, 1)[i] = <<s[1]>>[i]
  BY <1>2, <1>3
<1> QED
  BY <1>2, <1>3, <1>4, SameSequence

\* The first address there is, of the one list and then the other.
LEMMA FirstAddress ==
  ASSUME NEW from, NEW sender, from \in Seq(Range(from)), sender \in Seq(Range(sender)),
         NEW first, first = SubSeq(from \o sender, 1, Min({1, Len(from \o sender)}))
  PROVE  \/ from # <<>> /\ first = <<from[1]>>
         \/ from = <<>> /\ sender # <<>> /\ first = <<sender[1]>>
         \/ from \o sender = <<>>
<1> DEFINE A == Range(from) \cup Range(sender)
           both == from \o sender
<1>1. from \in Seq(A) /\ sender \in Seq(A)
  OBVIOUS
<1> HIDE DEF A
<1>2. both \in Seq(A) /\ Len(both) = Len(from) + Len(sender)
  BY <1>1
<1>3. CASE both = <<>>
  BY <1>3
<1>4. CASE both # <<>>
  <2>1. Len(both) \in Nat \ {0}
    BY <1>2, <1>4
  <2>2. Min({1, Len(both)}) = 1
    BY <2>1, LeastOfTwo
  <2>3. first = <<both[1]>>
    <3>1. first = SubSeq(both, 1, 1)
      BY <2>2
    <3> HIDE DEF both
    <3>2. SubSeq(both, 1, 1) = <<both[1]>>
      BY <1>2, <2>1, FirstOnly
    <3> QED
      BY <3>1, <3>2
  <2>4. CASE from # <<>>
    <3>1. Len(from) \in Nat \ {0}
      BY <1>1, <2>4
    <3>2. both[1] = from[1]
      BY <1>1, <3>1
    <3> QED
      BY <2>3, <2>4, <3>2
  <2>5. CASE from = <<>>
    <3>1. both = sender
      BY <1>1, <2>5
    <3> QED
      BY <1>4, <2>3, <2>5, <3>1
  <2> QED
    BY <2>4, <2>5
<1> QED
  BY <1>3, <1>4

LEMMA SenderMail == ASSUME EngineInv, MailInv, SetSender PROVE MailInv'
<1> DEFINE both(lost) == (IF "from" \in lost THEN <<>> ELSE mail.from)
                           \o (IF "sender" \in lost THEN <<>> ELSE mail.sender)
           first(lost) == SubSeq(both(lost), 1, Min({1, Len(both(lost))}))
<1>1. PICK lost \in Missing({"from", "sender"}, "addresses") :
         /\ passed' = passed \cup lost
         /\ Part("sender", "recipients", [msg EXCEPT !.sender = first(lost)])
  BY DEF SetSender
<1> DEFINE set == [msg EXCEPT !.sender = first(lost)]
<1>2. DOMAIN msg = Fields /\ MailShape(mail)
  BY DEF MailInv, TrialInv
<1>3. DOMAIN set = Fields /\ set.attachments = msg.attachments /\ set.subject = msg.subject
      /\ set.sender = first(lost)
  BY <1>2 DEF Fields
<1> HIDE DEF set, first, both
<1>4. /\ TrialInv' /\ AttachmentsInv' /\ at = "sender" /\ at' = "recipients" /\ msg' = set
      /\ mail' = mail
  BY <1>1, <1>3, FieldMail DEF set, ImportPart, Parts
<1>5. lost \subseteq {"from", "sender"}
  BY <1>1 DEF Missing
<1>6. FirstSender'
  <2>1. CASE lost = {}
    <3>1. first(lost) = SubSeq(mail.from \o mail.sender, 1, Min({1, Len(mail.from \o mail.sender)}))
      BY <2>1 DEF first, both
    <3>2. mail.from \in Seq(Range(mail.from)) /\ mail.sender \in Seq(Range(mail.sender))
      BY <1>2 DEF MailShape
    <3>3. msg'.sender = SubSeq(mail.from \o mail.sender, 1, Min({1, Len(mail.from \o mail.sender)}))
      BY <1>3, <1>4, <3>1
    <3> QED
      BY <1>4, <3>2, <3>3, FirstAddress DEF FirstSender
  <2>2. CASE lost # {}
    BY <1>1, <1>5, <2>2 DEF FirstSender
  <2> QED
    BY <2>1, <2>2
<1>7. WholeInv'
  BY <1>1, <1>3, <1>4, <1>5, <1>6 DEF MailInv, WholeInv, Importing, Parts, Judging
<1> QED
  BY <1>4, <1>7 DEF MailInv

LEMMA RecipientsMail == ASSUME EngineInv, MailInv, AddRecipients PROVE MailInv'
<1>1. PICK lost \in Missing({"to", "cc", "bcc"}, "addresses") :
         /\ passed' = passed \cup lost
         /\ Part("recipients", "plain", [msg EXCEPT !.recipients = RecipientsBut(lost)])
  BY DEF AddRecipients
<1> DEFINE set == [msg EXCEPT !.recipients = RecipientsBut(lost)]
<1>2. DOMAIN msg = Fields
  BY DEF MailInv, TrialInv
<1>3. DOMAIN set = Fields /\ set.attachments = msg.attachments /\ set.subject = msg.subject
      /\ set.sender = msg.sender /\ set.recipients = RecipientsBut(lost)
  BY <1>2 DEF Fields
<1> HIDE DEF set
<1>4. /\ TrialInv' /\ AttachmentsInv' /\ at = "recipients" /\ at' = "plain" /\ msg' = set
      /\ mail' = mail
  BY <1>1, <1>3, FieldMail DEF set, ImportPart, Parts
<1>5. lost \subseteq {"to", "cc", "bcc"} /\ passed \cap {"to", "cc", "bcc"} = {}
  BY <1>1, <1>4 DEF Missing, MailInv, WholeInv
<1>6. RecipientsBut(lost)' = RecipientsBut(passed)'
  BY <1>1, <1>5 DEF RecipientsBut
<1>7. msg'.recipients = RecipientsBut(passed)'
  BY <1>3, <1>4, <1>6 DEF RecipientsBut
<1>8. FirstSender'
  BY <1>1, <1>3, <1>4, <1>5 DEF MailInv, WholeInv, FirstSender, Importing, Parts
<1>9. WholeInv'
  BY <1>1, <1>3, <1>4, <1>5, <1>7, <1>8 DEF MailInv, WholeInv, Importing, Parts, Judging
<1> QED
  BY <1>4, <1>9 DEF MailInv

\* One of the two text bodies, which the parser delivers or not.
LEMMA BodyMail ==
  ASSUME EngineInv, MailInv, NEW step \in {"plain", "html"}, NEW next \in Parts \ {"write"},
         NEW present \in BOOLEAN, SetBody(step, next, present),
         SetPlain \/ SetHtml
  PROVE  /\ TrialInv' /\ AttachmentsInv' /\ at = step /\ at' = next /\ mail' = mail
         /\ \A field \in Fields \ {step} : msg'[field] = msg[field]
         /\ msg'[step] = present \/ step \in passed'
         /\ passed \subseteq passed' /\ passed' \subseteq passed \cup {step}
<1>1. PICK lost \in Missing({step}, "body") :
         /\ passed' = passed \cup lost
         /\ Part(step, next, [msg EXCEPT ![step] = present /\ lost = {}])
  BY DEF SetBody
<1> DEFINE set == [msg EXCEPT ![step] = present /\ lost = {}]
<1>2. DOMAIN msg = Fields
  BY DEF MailInv, TrialInv
<1>3. /\ DOMAIN set = Fields /\ \A field \in Fields \ {step} : set[field] = msg[field]
      /\ set[step] = (present /\ lost = {})
  BY <1>2 DEF Fields
<1>4. set.attachments = msg.attachments
  BY <1>3 DEF Fields
<1> HIDE DEF set
<1>5. /\ TrialInv' /\ AttachmentsInv' /\ at = step /\ at' = next /\ msg' = set /\ mail' = mail
  BY <1>1, <1>3, <1>4, FieldMail DEF set, ImportPart, Parts
<1>6. lost \subseteq {step}
  BY <1>1 DEF Missing
<1>7. msg'[step] = present \/ step \in passed'
  <2>1. CASE lost = {}
    <3>1. set[step] = present
      BY <1>3, <2>1, Zenon
    <3> QED
      BY <1>5, <3>1
  <2>2. CASE step \in lost
    BY <1>1, <2>2
  <2> QED
    BY <1>6, <2>1, <2>2
<1> QED
  BY <1>1, <1>3, <1>5, <1>6, <1>7

LEMMA BodiesMail == ASSUME EngineInv, MailInv, SetPlain \/ SetHtml PROVE MailInv'
<1>1. mail.plain \in BOOLEAN /\ mail.html \in BOOLEAN
  BY DEF MailInv, TrialInv, MailShape
<1>2. PICK step \in {"plain", "html"}, next \in {"html", "attachments"} :
         /\ (step = "plain" /\ next = "html") \/ (step = "html" /\ next = "attachments")
         /\ SetBody(step, next, mail[step])
  BY DEF SetPlain, SetHtml
<1>3. /\ TrialInv' /\ AttachmentsInv' /\ at = step /\ at' = next /\ mail' = mail
      /\ \A field \in Fields \ {step} : msg'[field] = msg[field]
      /\ msg'[step] = mail[step] \/ step \in passed'
      /\ passed \subseteq passed' /\ passed' \subseteq passed \cup {step}
  BY <1>1, <1>2, BodyMail DEF Parts
<1>4. msg'.subject = msg.subject /\ msg'.sender = msg.sender /\ msg'.recipients = msg.recipients
  BY <1>2, <1>3 DEF Fields
<1>5. RecipientsBut(passed)' = RecipientsBut(passed)
  BY <1>2, <1>3 DEF RecipientsBut
<1>6. FirstSender'
  BY <1>2, <1>3, <1>4 DEF MailInv, WholeInv, FirstSender, Importing, Parts
<1>7. CASE step = "plain"
  <2>1. msg'.plain = mail'.plain \/ "plain" \in passed'
    BY <1>3, <1>7
  <2>2. WholeInv'
    BY <1>2, <1>3, <1>4, <1>5, <1>6, <1>7, <2>1
       DEF MailInv, WholeInv, Importing, Parts, Judging
  <2> QED
    BY <1>3, <2>2 DEF MailInv
<1>8. CASE step = "html"
  <2>1. msg'.html = mail'.html \/ "html" \in passed'
    BY <1>3, <1>8
  <2>2. msg'.plain = msg.plain
    BY <1>3, <1>8 DEF Fields
  <2>3. WholeInv'
    BY <1>2, <1>3, <1>4, <1>5, <1>6, <1>8, <2>1, <2>2
       DEF MailInv, WholeInv, Importing, Parts, Judging
  <2> QED
    BY <1>3, <2>3 DEF MailInv
<1> QED
  BY <1>7, <1>8

\* A step that leaves every part but the attachments, and stays among them or ends there.
LEMMA TailWhole ==
  ASSUME EngineInv, MailInv, at \in {"attachments", "write"}, mail' = mail,
         msg'.subject = msg.subject, msg'.sender = msg.sender,
         msg'.recipients = msg.recipients, msg'.plain = msg.plain, msg'.html = msg.html,
         passed' = passed \/ passed' = passed \cup {"attachments"},
         \/ at' \in {"attachments", "write"}
         \/ /\ at' \in {"judge", "imported"}
            /\ msg'.attachments = mail.attachments \/ "attachments" \in passed'
  PROVE  WholeInv'
<1>1. RecipientsBut(passed)' = RecipientsBut(passed)
  BY DEF RecipientsBut
<1>2. FirstSender'
  BY DEF MailInv, WholeInv, FirstSender, Importing, Parts
<1> QED
  BY <1>1, <1>2 DEF MailInv, WholeInv, Importing, Parts, Judging

LEMMA AttachmentsMail ==
  ASSUME EngineInv, MailInv,
         \/ NextAttachment \/ WriteChunk \/ SaveAttachment \/ NoAttachmentList \/ AttachmentsDone
         \/ PartFails
  PROVE  MailInv'
<1>0. DOMAIN msg = Fields /\ mail.attachments \in Seq(Nat)
  BY DEF MailInv, TrialInv, MailShape
<1>1. ASSUME NextAttachment PROVE MailInv'
  <2>1. /\ at = "attachments" /\ at' = "write" /\ bytes' = 0 /\ msg' = msg /\ mail' = mail
        /\ passed' = passed /\ Len(msg.attachments) < Len(mail.attachments)
    BY <1>1 DEF NextAttachment
  <2>2. TrialInv'
    BY <1>0, <1>1, <2>1, PartTrial DEF ImportPart
  <2>3. Size' = Size /\ Size \in Nat
    BY <1>0, <2>1 DEF Size, MailInv, AttachmentsInv
  <2>4. AttachmentsInv'
    BY <2>1, <2>3 DEF MailInv, AttachmentsInv
  <2>5. WholeInv'
    BY <2>1, TailWhole
  <2> QED
    BY <2>2, <2>4, <2>5 DEF MailInv
<1>2. ASSUME WriteChunk PROVE MailInv'
  <2>1. /\ at = "write" /\ at' = at /\ msg' = msg /\ mail' = mail /\ passed' = passed
        /\ bytes < Size
    BY <1>2 DEF WriteChunk
  <2>2. Size' = Size /\ Size \in Nat /\ bytes \in 0..Size
    BY <1>0, <2>1 DEF Size, MailInv, AttachmentsInv
  <2>3. Chunk \in Nat \ {0}
    BY ConvertersAssumption
  <2> DEFINE given == Min({Chunk, Size - bytes})
  <2>4. given \in Nat \ {0} /\ given <= Size - bytes
    <3>1. Size - bytes \in Nat \ {0}
      BY <2>1, <2>2
    <3> QED
      BY <2>3, <3>1, LeastOfTwo
  <2>5. \E written \in (IF "short" \in Faults THEN 1..given ELSE {given}) : bytes' = bytes + written
    BY <1>2 DEF WriteChunk
  <2> HIDE DEF given
  <2>6. bytes' \in 0..Size
    BY <2>2, <2>4, <2>5
  <2>7. TrialInv'
    BY <1>0, <1>2, <2>1, PartTrial DEF ImportPart
  <2>8. AttachmentsInv'
    BY <2>1, <2>2, <2>6 DEF MailInv, AttachmentsInv
  <2>9. WholeInv'
    BY <2>1, TailWhole
  <2> QED
    BY <2>7, <2>8, <2>9 DEF MailInv
<1>3. ASSUME SaveAttachment PROVE MailInv'
  <2>1. /\ at = "write" /\ at' = "attachments" /\ bytes' = -1 /\ bytes = Size
        /\ msg' = [msg EXCEPT !.attachments = Append(@, bytes)] /\ mail' = mail
        /\ passed' = passed
    BY <1>3 DEF SaveAttachment
  <2>2. /\ DOMAIN msg' = Fields /\ msg'.attachments = Append(msg.attachments, bytes)
        /\ msg'.subject = msg.subject /\ msg'.sender = msg.sender
        /\ msg'.recipients = msg.recipients /\ msg'.plain = msg.plain /\ msg'.html = msg.html
    BY <1>0, <2>1 DEF Fields
  <2>3. TrialInv'
    BY <1>3, <2>2, PartTrial DEF ImportPart
  <2>4. AttachmentsInv'
    <3> DEFINE before == msg.attachments
               after == msg'.attachments
    <3>1. /\ before \in Seq(Nat) /\ Len(before) < Len(mail.attachments)
          /\ \A i \in 1..Len(before) : before[i] = mail.attachments[i]
          /\ bytes = mail.attachments[Len(before) + 1]
      BY <2>1 DEF MailInv, AttachmentsInv, Size
    <3>2. bytes \in Nat /\ after = Append(before, bytes)
      BY <1>0, <2>2, <3>1
    <3> HIDE DEF before, after
    <3>3. /\ after \in Seq(Nat) /\ Len(after) = Len(before) + 1
          /\ \A i \in 1..Len(before) : after[i] = before[i]
          /\ after[Len(before) + 1] = bytes
      BY <3>1, <3>2
    <3>4. Len(after) <= Len(mail.attachments)
      BY <1>0, <3>1, <3>3
    <3>5. \A i \in 1..Len(after) : after[i] = mail.attachments[i]
      <4>1. \A i \in 1..Len(after) : i \in 1..Len(before) \/ i = Len(before) + 1
        BY <3>1, <3>3
      <4> QED
        BY <3>1, <3>3, <4>1
    <3> QED
      BY <2>1, <3>3, <3>4, <3>5 DEF AttachmentsInv, after
  <2>5. WholeInv'
    BY <2>1, <2>2, TailWhole
  <2> QED
    BY <2>3, <2>4, <2>5 DEF MailInv
<1>4. ASSUME NoAttachmentList \/ AttachmentsDone PROVE MailInv'
  <2>1. /\ at = "attachments" /\ at' = Parsed /\ msg' = msg /\ mail' = mail /\ bytes' = bytes
        /\ passed' = passed \/ passed' = passed \cup {"attachments"}
        /\ "attachments" \in passed' \/ Len(msg.attachments) = Len(mail.attachments)
    BY <1>4 DEF NoAttachmentList, AttachmentsDone, Part
  <2>2. at' \in {"judge", "imported"}
    BY <2>1 DEF Parsed
  <2>3. TrialInv'
    BY <1>0, <1>4, <2>1, PartTrial DEF ImportPart
  <2>4. AttachmentsInv'
    BY <2>1, <2>2 DEF MailInv, AttachmentsInv
  <2>5. msg.attachments = mail.attachments \/ "attachments" \in passed'
    BY <1>0, <2>1, SameSequence DEF MailInv, AttachmentsInv
  <2> QED
    BY <2>1, <2>2, <2>3, <2>4, <2>5, TailWhole DEF MailInv
<1>5. ASSUME PartFails PROVE MailInv'
  <2>1. at' = "failed" /\ import' = import /\ msg' = msg /\ mail' = mail
    BY <1>5 DEF PartFails, import
  <2>2. TrialInv'
    BY <1>0, <1>5, <2>1, PartTrial DEF ImportPart
  <2>3. AttachmentsInv' /\ WholeInv'
    BY <2>1 DEF MailInv, AttachmentsInv, WholeInv, Importing, Parts, Judging
  <2> QED
    BY <2>2, <2>3 DEF MailInv
<1> QED
  BY <1>1, <1>2, <1>3, <1>4, <1>5

LEMMA MailStep == EngineInv /\ MailInv /\ [Next]_vars => MailInv'
<1> SUFFICES ASSUME EngineInv, MailInv, [Next]_vars PROVE MailInv'
  OBVIOUS
<1>1. CASE Next
  BY <1>1, TrialMail, RunMail, LoadMail, SubjectMail, SenderMail, RecipientsMail, BodiesMail,
     AttachmentsMail DEF Next, ImportPart
<1>2. CASE UNCHANGED vars
  <2>1. import' = import /\ at' = at /\ variant' = variant
    BY <1>2 DEF vars, calibration
  <2>2. TrialInv'
    BY <1>2, SamePlaces DEF vars, calibration, import, MailInv, TrialInv
  <2> QED
    BY <2>1, <2>2, LeftAlone DEF MailInv
<1> QED
  BY <1>1, <1>2

LEMMA MailHolds == Spec => [](EngineInv /\ MailInv)
  BY InitEngine, InitMail, EngineStep, MailStep, PTL DEF Spec

\* No count of bytes, variants or attachments leaves its range, for every mail, chunk and
\* machine and whatever fails.
THEOREM TypesHold == Spec => []ConvertersTypeOK
<1>1. MailInv => ConvertersTypeOK
  BY DEF MailInv, TrialInv, AttachmentsInv, ConvertersTypeOK
<1> QED
  BY MailHolds, <1>1, PTL

\* What the parser's import reports as imported is the mail, part by part and in order, but
\* for what the parser did not deliver: for every mail, however its bytes are chunked and
\* short the writes.
THEOREM WhatIsImportedIsWhole == Spec => []ImportIsWhole
<1>1. MailInv => ImportIsWhole
  BY DEF MailInv, WholeInv, Importing, FirstSender, ImportIsWhole, Parts
<1> QED
  BY MailHolds, <1>1, PTL

\* ---- Which variant is taken

\* A variant passed over stays so as long as no step of the calibration starts anew.
LEMMA StillBehind ==
  ASSUME machine' = machine, stumbled \subseteq stumbled', NEW v, v # MimeOle, ~PassedOver(v)
  PROVE  ~PassedOver(v)'
  BY SamePlaces DEF PassedOver, Usable

\* The fixture as the parser of Windows delivered it, whole: its verdict is good.
LEMMA WholeFixtureIsGood ==
  ASSUME EngineInv, MailInv, at \in Judging, variant = MimeOle, MimeOle \in machine.converting,
         passed = {}
  PROVE  Good
<1>1. mail = Fixture /\ config = 0 /\ Importing /\ at \notin Parts
  BY DEF EngineInv, Trying, MailInv, TrialInv, Importing, Parts, Judging
<1>2. /\ msg.subject = mail.subject /\ msg.plain = mail.plain
      /\ msg.attachments = mail.attachments
  BY <1>1 DEF MailInv, WholeInv, Parts
<1> QED
  BY <1>1, <1>2, ConvertersAssumption DEF Good

LEMMA InitFirst == Init => FirstInv
<1>1. \A v \in 1..(1 - 1) : FALSE
  OBVIOUS
<1> QED
  BY <1>1 DEF Init, FirstInv, FirstThatConverts

\* A variant that is given up does not convert, cannot be used, or stumbled.
LEMMA NextFirst ==
  ASSUME EngineInv, MailInv, FirstInv, SkipVariant \/ DriveFails \/ Rejected PROVE FirstInv'
<1>1. /\ NextVariant /\ at \in {"variant", "attach"} \cup Judging /\ variant # MimeOle
      /\ config = 0
  BY DEF SkipVariant, DriveFails, Rejected, JudgedBad, EngineInv, Trying, Judging
<1>2. /\ machine' = machine /\ config' = 0 /\ variant' = variant + 1
      /\ at' \in {"parser", "variant"}
  BY <1>1 DEF NextVariant
<1>3. stumbled \subseteq stumbled'
  BY DEF SkipVariant, DriveFails, Rejected, JudgedBad, Stumble
<1>4. \A tried : tried = variant => ~PassedOver(tried)'
  <2> SUFFICES ASSUME NEW tried, tried = variant PROVE ~PassedOver(tried)'
    OBVIOUS
  <2>1. CASE SkipVariant
    BY <1>2, <2>1 DEF SkipVariant, PassedOver, Usable
  <2>2. CASE Stumble
    BY <1>2, <2>2 DEF Stumble, PassedOver
  <2>3. CASE at = "judgeSaved" /\ ~Good
    <3>1. /\ ~Converts(variant, source)
          /\ source = Foremost \/ variant \notin machine.converting \/ variant \in stumbled
      BY <1>1, <2>3 DEF FirstInv, EngineInv, FromThere, Judging
    <3> QED
      BY <1>1, <1>2, <1>3, <3>1, SamePlaces DEF PassedOver, Converts
  <2> QED
    BY <2>1, <2>2, <2>3 DEF DriveFails, Rejected, JudgedBad
<1>5. \A v \in 1..(variant' - 1) : ~PassedOver(v)'
  <2> SUFFICES ASSUME NEW v \in 1..(variant' - 1) PROVE ~PassedOver(v)'
    OBVIOUS
  <2>1. variant \in 1..MimeOle /\ MimeOle \in Nat
    BY DEF MailInv, TrialInv, MimeOle, Variants
  <2>2. v \in 1..(variant - 1) \/ v = variant
    BY <1>2, <2>1
  <2>3. CASE v \in 1..(variant - 1)
    <3>1. ~PassedOver(v) /\ v # MimeOle
      BY <1>1, <2>1, <2>3 DEF FirstInv, Judging
    <3> QED
      BY <1>2, <1>3, <3>1, StillBehind
  <2> QED
    BY <1>4, <2>2, <2>3
<1>6. FirstThatConverts'
  BY <1>2 DEF FirstThatConverts
<1> QED
  BY <1>2, <1>5, <1>6 DEF FirstInv

\* The run refuses with every variant behind it, or with a converter not to be had.
LEMMA RefuseFirst ==
  ASSUME EngineInv, MailInv, FirstInv,
         AcquireFails \/ CreateFails \/ AllRejected \/ ParserCannotCreate
  PROVE  FirstInv'
<1>1. Refuse
  BY DEF AcquireFails, CreateFails, AllRejected, ParserCannotCreate, Abort
<1>2. /\ at \in {"variant", "attach", "parser", "failed"} \cup Judging /\ config = 0
  BY DEF AcquireFails, CreateFails, AllRejected, ParserCannotCreate, JudgedBad, EngineInv, Trying,
         Judging
<1>3. /\ machine' = machine /\ config' = 0 /\ variant' = variant /\ at' = "refused"
      /\ Acquired' = Acquired /\ passed' = passed
  BY <1>1, <1>2, SamePlaces DEF Refuse, import
<1>4. stumbled \subseteq stumbled'
  BY DEF AcquireFails, CreateFails, AllRejected, ParserCannotCreate, Abort, JudgedBad, Stumble
<1>5. variant \in 1..MimeOle /\ MimeOle \in Nat
  BY DEF MailInv, TrialInv, MimeOle, Variants
<1>6. \A v \in 1..(variant - 1) : ~PassedOver(v)'
  <2> SUFFICES ASSUME NEW v \in 1..(variant - 1) PROVE ~PassedOver(v)'
    OBVIOUS
  <2>1. ~PassedOver(v) /\ v # MimeOle
    BY <1>2, <1>5 DEF FirstInv, Judging
  <2> QED
    BY <1>3, <1>4, <2>1, StillBehind
<1>7. Acquired # {} => \A v \in variant..MimeOle : ~PassedOver(v)'
  <2>1. CASE stumbled' = stumbled \cup ((variant..MimeOle) \cap machine.converting)
    BY <1>3, <2>1 DEF PassedOver
  <2>2. CASE Acquired = {}
    BY <2>2
  <2>3. CASE AllRejected
    <3>1. variant = MimeOle
      BY <2>3 DEF AllRejected
    <3>2. ~PassedOver(MimeOle)'
      <4>1. CASE Stumble
        BY <1>3, <3>1, <4>1 DEF Stumble, PassedOver
      <4>2. CASE at = "judgeSaved" /\ ~Good
        BY <1>3, <3>1, <4>2, WholeFixtureIsGood DEF PassedOver, Judging
      <4> QED
        BY <2>3, <4>1, <4>2 DEF AllRejected, JudgedBad
    <3>3. \A v \in variant..MimeOle : v = MimeOle
      BY <1>5, <3>1
    <3> QED
      BY <3>2, <3>3
  <2> QED
    BY <2>1, <2>2, <2>3 DEF AcquireFails, CreateFails, ParserCannotCreate, Abort
<1>8. Acquired # {} => \A v \in 1..MimeOle : ~PassedOver(v)'
  <2>1. \A v \in 1..MimeOle : v \in 1..(variant - 1) \/ v \in variant..MimeOle
    BY <1>5
  <2> QED
    BY <1>6, <1>7, <2>1
<1>9. FirstThatConverts'
  BY <1>3, <1>8 DEF FirstThatConverts
<1> QED
  BY <1>3, <1>9 DEF FirstInv

\* The first good verdict settles it.
LEMMA SettleFirst == ASSUME EngineInv, MailInv, FirstInv, JudgedGood PROVE FirstInv'
<1>1. /\ at \in Judging /\ config = 0 /\ config' = variant /\ at' = "run" /\ machine' = machine
      /\ stumbled' = stumbled
  BY DEF JudgedGood, Settle, Judging, EngineInv, Trying
<1>2. variant \in 1..MimeOle /\ MimeOle \in Nat
  BY DEF MailInv, TrialInv, MimeOle, Variants
<1>3. \A v \in 1..(variant - 1) : ~PassedOver(v)'
  <2> SUFFICES ASSUME NEW v \in 1..(variant - 1) PROVE ~PassedOver(v)'
    OBVIOUS
  <2>1. ~PassedOver(v) /\ v # MimeOle
    BY <1>1, <1>2 DEF FirstInv, Judging
  <2> QED
    BY <1>1, <2>1, StillBehind
<1>4. FirstThatConverts'
  BY <1>1, <1>3 DEF FirstThatConverts
<1> QED
  BY <1>1, <1>2, <1>4 DEF FirstInv

\* A step that neither gives a variant up nor settles.
LEMMA OtherFirst ==
  ASSUME EngineInv, MailInv, FirstInv, at # "refused", at' # "refused",
         UNCHANGED <<machine, variant, config>>, stumbled \subseteq stumbled',
         at' \in Judging /\ variant # MimeOle => FALSE
  PROVE  FirstInv'
<1>1. variant \in 1..MimeOle /\ config \in 0..MimeOle /\ MimeOle \in Nat
  BY DEF MailInv, TrialInv, MimeOle, Variants
<1>2. config = 0 => \A v \in 1..(variant - 1) : ~PassedOver(v)'
  <2> SUFFICES ASSUME config = 0, NEW v \in 1..(variant - 1) PROVE ~PassedOver(v)'
    OBVIOUS
  <2>1. ~PassedOver(v) /\ v # MimeOle
    BY <1>1 DEF FirstInv
  <2> QED
    BY <2>1, StillBehind
<1>3. config # 0 => \A v \in 1..(config - 1) : ~PassedOver(v)'
  <2> SUFFICES ASSUME config # 0, NEW v \in 1..(config - 1) PROVE ~PassedOver(v)'
    OBVIOUS
  <2>1. ~PassedOver(v) /\ v # MimeOle
    BY <1>1 DEF FirstInv, FirstThatConverts
  <2> QED
    BY <2>1, StillBehind
<1> QED
  BY <1>2, <1>3 DEF FirstInv, FirstThatConverts, Judging

\* The message of a variant that converts is good, at the latest once it is saved.
LEMMA DriveFirst ==
  ASSUME EngineInv, MailInv, FirstInv, Drive \/ SaveToJudge PROVE FirstInv'
<1>1. /\ at \in {"attach", "judge"} /\ at' \in Judging /\ config = 0
      /\ UNCHANGED <<machine, variant, config, source, stumbled>>
  BY DEF Drive, SaveToJudge, calibration, EngineInv, Trying, Judging
<1>2. variant \in 1..MimeOle /\ MimeOle \in Nat
  BY DEF MailInv, TrialInv, MimeOle, Variants
<1>3. \A v \in 1..(variant - 1) : ~PassedOver(v)'
  <2> SUFFICES ASSUME NEW v \in 1..(variant - 1) PROVE ~PassedOver(v)'
    OBVIOUS
  <2>1. ~PassedOver(v) /\ v # MimeOle
    BY <1>1, <1>2 DEF FirstInv
  <2> QED
    BY <1>1, <2>1, StillBehind
<1>4. msg' = Whole(Fixture) => Good'
  BY ConvertersAssumption DEF Good, Whole
<1>5. at' = "judge" /\ Converts(variant, source) /\ variant \notin machine.deferring \cup {MimeOle} =>
        Good'
  BY <1>1, <1>4, SamePlaces DEF Drive, SaveToJudge
<1>6. at' = "judgeSaved" /\ Converts(variant, source) /\ variant # MimeOle => Good'
  BY <1>1, <1>4, SamePlaces DEF Drive, SaveToJudge, FirstInv, Good
<1>7. FirstThatConverts'
  BY <1>1 DEF FirstThatConverts, Judging
<1>8. Converts(variant, source)' <=> Converts(variant, source)
  BY <1>1 DEF Converts
<1> QED
  BY <1>1, <1>3, <1>5, <1>6, <1>7, <1>8 DEF FirstInv

LEMMA FirstStep == EngineInv /\ MailInv /\ FirstInv /\ [Next]_vars => FirstInv'
<1> SUFFICES ASSUME EngineInv, MailInv, FirstInv, [Next]_vars PROVE FirstInv'
  OBVIOUS
<1>1. CASE Acquire \/ TryParser \/ EngineFails \/ EnsureConverter \/ ImportMail \/ ConvertMail
           \/ ImportEnds
  <2>1. /\ at # "refused" /\ at' # "refused" /\ at' \notin Judging
        /\ UNCHANGED <<machine, variant, config>> /\ stumbled \subseteq stumbled'
    BY <1>1 DEF Acquire, Stumble, TryParser, EngineFails, EnsureConverter, ImportMail, ConvertMail,
                ImportEnds, Begin, calibration, Judging
  <2> QED
    BY <2>1, OtherFirst
<1>2. CASE ImportPart
  <2>1. OnTheWay
    BY <1>2, PartIsOnTheWay
  <2>2. stumbled' = stumbled
    BY <1>2 DEF ImportPart, Load, SetSubject, SetSender, AddRecipients, SetPlain, SetHtml, SetBody,
           NextAttachment, WriteChunk, SaveAttachment, NoAttachmentList, AttachmentsDone,
           PartFails, Part, calibration
  <2> QED
    BY <2>1, <2>2, OtherFirst DEF OnTheWay, EngineInv, Trying, Parts, Judging
<1>3. CASE UNCHANGED vars
  BY <1>3, SamePlaces
     DEF vars, calibration, import, FirstInv, FirstThatConverts, PassedOver, Usable, Good
<1> QED
  BY <1>1, <1>2, <1>3, NextFirst, RefuseFirst, SettleFirst, DriveFirst DEF Next

\* The calibration takes the first variant that converts, and refuses only where none does or
\* Outlook's converter cannot be had at all: for every machine, and whatever fails.
THEOREM TheFirstIsTaken == Spec => []FirstThatConverts
<1>1. EngineInv /\ MailInv /\ FirstInv /\ [Next]_vars => (EngineInv /\ MailInv /\ FirstInv)'
  BY EngineStep, MailStep, FirstStep
<1>2. FirstInv => FirstThatConverts
  BY DEF FirstInv
<1> QED
  BY InitEngine, InitMail, InitFirst, <1>1, <1>2, PTL DEF Spec
=============================================================================
