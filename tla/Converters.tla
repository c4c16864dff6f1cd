----------------------------- MODULE Converters -----------------------------
(***************************************************************************)
(* How a run comes to its MIME converter, and the converter of its own:    *)
(* run_converter_calibration, MimeConverter::create, ensure_converter      *)
(* (worker/mapi) and MimeOleImporter, which maps what the MIME parser of   *)
(* Windows reports onto a message.                                         *)
(*                                                                         *)
(* Outlook's converter and the parser are external.  Which variants really *)
(* convert, and which only do so when the message is saved, is part of the *)
(* machine; so are the places the converter can be had from, and those of  *)
(* them whose object only seems to convert.  The profile and the PST of    *)
(* the self-test are in TemporaryProfiles.                                 *)
(***************************************************************************)
EXTENDS Integers, Sequences, SequencesExt, FiniteSetsExt

CONSTANTS
  Machines,   \* see MachineShape
  Fixture,    \* the bundled self-test mail, as the parser reports it
  Mails,      \* the mails of the run, likewise
  Chunk,      \* bytes per IStream::Write
  Faults      \* "call": a call returns an error; "short": a write takes less than
              \* it was given; "prop", "addresses", "body", "list": the parser
              \* does not deliver it

\* The order of the calibration: address book and three levels of flags, and
\* last the parser of Windows.
Variants ==
  <<[book |-> TRUE,  flags |-> "smtp+bcc+global"], [book |-> TRUE,  flags |-> "smtp+bcc"],
    [book |-> TRUE,  flags |-> "smtp"],
    [book |-> FALSE, flags |-> "smtp+bcc+global"], [book |-> FALSE, flags |-> "smtp+bcc"],
    [book |-> FALSE, flags |-> "smtp"]>>
MimeOle == Len(Variants) + 1

\* converting, deferring: variants that convert, and only when saved; hive: the
\* dlls the Click-to-Run hive names; places: where the converter can be created;
\* raw: places whose object does not convert; broken: COM has it, but it fails;
\* book: there is an address book
MachineShape(m) ==
  /\ DOMAIN m = {"converting", "deferring", "hive", "places", "raw", "broken", "book"}
  /\ m.deferring \subseteq m.converting \ {MimeOle}
  /\ m.hive \in Seq(Range(m.hive)) /\ m.raw \subseteq m.places
  /\ m.places \subseteq {"registry", "module"} \cup Range(m.hive)
  /\ m.broken => "registry" \notin m.places
  /\ "windows" \notin m.places /\ {m.broken, m.book} \subseteq BOOLEAN

\* lists of addresses; sizes of the attachments
MailShape(m) ==
  /\ DOMAIN m = {"subject", "from", "sender", "to", "cc", "bcc", "plain", "html", "attachments"}
  /\ {m.subject, m.plain, m.html} \subseteq BOOLEAN
  /\ m.attachments \in Seq(Nat)
  /\ \A addresses \in {m.from, m.sender, m.to, m.cc, m.bcc} :
       addresses \in Seq(Range(addresses))

\* kSelfTestEml has a subject, a plain text body and an attachment.
ASSUME ConvertersAssumption ==
  /\ \A m \in Machines : MachineShape(m)
  /\ \A m \in Mails \cup {Fixture} : MailShape(m)
  /\ Fixture.subject /\ Fixture.plain /\ Fixture.attachments # <<>>
  /\ Chunk \in Nat \ {0}

VARIABLES
  machine,
  at,        \* the next call of the calibration or of the run
  variant,   \* loop variable of the calibration; MimeOle after the loop
  config,    \* ConverterConfig: the index of a variant, 0 before
  source,    \* where the converter at hand came from
  engine,    \* converter_, mimeole_ of the session
  mail, msg, \* what is imported, and into what
  bytes,     \* bytes written of the attachment at work, -1 if there is none
  todo,      \* mails of the run not yet imported
  verified,  \* history: variants, with their source, that were judged good
  stumbled,  \* history: variants that could convert, but a call failed in their trial
  passed     \* history: what the parser did not deliver of this mail

calibration == <<variant, config, verified, stumbled>>
import      == <<mail, msg, bytes, passed>>
vars == <<machine, at, calibration, source, engine, import, todo>>

NoEngine == [variant |-> 0, source |-> "none"]
Empty == [subject |-> FALSE, sender |-> <<>>, recipients |-> <<>>, plain |-> FALSE,
          html |-> FALSE, attachments |-> <<>>]

Init ==
  /\ machine \in Machines
  /\ at = "variant" /\ variant = 1 /\ config = 0
  /\ source = "none" /\ engine = NoEngine
  /\ mail = Fixture /\ msg = Empty /\ bytes = -1
  /\ todo = Mails /\ verified = {} /\ stumbled = {} /\ passed = {}

-----------------------------------------------------------------------------
(* MimeConverter::create: COM, then the hive, then the module that is loaded *)

Routes == <<"registry">> \o machine.hive \o <<"module">>

Working == {i \in DOMAIN Routes : Routes[i] \in machine.places}

\* Where the converter comes from when no call fails.
Foremost == IF Working = {} THEN "none" ELSE Routes[Min(Working)]

\* Where it may come from: a route that fails is passed over for the next, unless
\* COM answers anything but that the class is not there.
Acquired ==
  {Routes[i] : i \in {k \in Working : ~machine.broken /\ (k = Min(Working) \/ "call" \in Faults)}}

Converts(v, place) == v \in machine.converting /\ place \notin machine.raw

-----------------------------------------------------------------------------
(* run_converter_calibration *)

Refuse ==
  /\ at' = "refused"
  /\ UNCHANGED <<machine, variant, config, verified, source, engine, import, todo>>

\* The calibration is over, whatever variants are left.
Abort == "call" \in Faults /\ Refuse /\ stumbled' = stumbled \cup ((variant..MimeOle) \cap machine.converting)

\* A variant is given up and the next one tried.
NextVariant ==
  /\ variant' = variant + 1
  /\ at' = IF variant' = MimeOle THEN "parser" ELSE "variant"
  /\ msg' = Empty
  /\ UNCHANGED <<machine, config, verified, source, engine, mail, bytes, passed, todo>>

Stumble == "call" \in Faults /\ stumbled' = stumbled \cup ({variant} \cap machine.converting)

Usable(v) == v = MimeOle \/ Variants[v].book => machine.book

SkipVariant ==
  /\ at = "variant" /\ ~Usable(variant)
  /\ NextVariant /\ UNCHANGED stumbled

\* Without a converter the calibration ends before its last variant, which needs none.
AcquireFails ==
  /\ at = "variant" /\ Usable(variant)
  /\ \/ Acquired = {} /\ Refuse /\ UNCHANGED stumbled
     \/ Abort

Acquire ==
  /\ at = "variant" /\ Usable(variant)
  /\ source' \in Acquired
  /\ IF source' = Foremost THEN UNCHANGED stumbled ELSE Stumble
  /\ at' = "attach"
  /\ UNCHANGED <<machine, variant, config, verified, engine, import, todo>>

\* SetAdrBook or MIMEToMAPI fails
DriveFails == at = "attach" /\ NextVariant /\ Stumble

CreateFails == at = "attach" /\ Abort

Whole(m) == [subject |-> m.subject, sender |-> m.from, recipients |-> m.to \o m.cc \o m.bcc,
             plain |-> m.plain, html |-> m.html, attachments |-> m.attachments]

\* An object that does not convert makes the raw text the body, and reports success.
Drive ==
  /\ at = "attach"
  /\ msg' = IF Converts(variant, source) /\ variant \notin machine.deferring
              THEN Whole(Fixture) ELSE [Empty EXCEPT !.plain = TRUE]
  /\ at' = "judge"
  /\ UNCHANGED <<machine, calibration, source, engine, mail, bytes, passed, todo>>

\* judge_self_test_message: subject, attachment and body
Good == msg.subject /\ msg.attachments # <<>> /\ msg.plain

Settle ==
  /\ config' = variant
  /\ verified' = verified \cup {[variant |-> variant, source |-> source]}
  /\ at' = "run"
  /\ msg' = Empty
  /\ UNCHANGED <<machine, variant, stumbled, source, engine, mail, bytes, passed, todo>>

\* Mutant: MIMEToMAPI returned success.
JudgedBySuccess == at \in {"judge", "judgeSaved"} /\ Settle

JudgedGood == at \in {"judge", "judgeSaved"} /\ Good /\ Settle

\* Mutant: the message is judged again as it was before the save.
JudgedAsBefore ==
  /\ at = "judge" /\ ~Good
  /\ at' = "judgeSaved"
  /\ UNCHANGED <<machine, calibration, source, engine, import, todo>>

\* The message is saved and judged again: some converters write only then.
SaveToJudge ==
  /\ at = "judge" /\ ~Good
  /\ msg' = IF Converts(variant, source) /\ variant \in machine.deferring
              THEN Whole(Fixture) ELSE msg
  /\ at' = "judgeSaved"
  /\ UNCHANGED <<machine, calibration, source, engine, mail, bytes, passed, todo>>

JudgedBad ==
  \/ at = "judge" /\ ~Good /\ Stumble                    \* SaveChanges fails
  \/ at = "judgeSaved" /\ ~Good /\ UNCHANGED stumbled

Rejected == variant # MimeOle /\ JudgedBad /\ NextVariant

\* The last one is rejected too: no engine converts.
AllRejected ==
  /\ variant = MimeOle /\ config = 0
  /\ \/ JudgedBad
     \/ at = "parser" /\ Stumble      \* no inetcomm.dll
     \/ at = "failed" /\ Stumble      \* import of the fixture
  /\ Refuse

ParserCannotCreate == at = "parser" /\ Abort

Begin(m) ==
  /\ mail' = m /\ msg' = Empty /\ bytes' = -1 /\ passed' = {}
  /\ at' = "load"

TryParser ==
  /\ at = "parser"
  /\ Begin(IF MimeOle \in machine.converting THEN Fixture
                                               ELSE [Fixture EXCEPT !.attachments = <<>>])
  /\ source' = "windows"
  /\ UNCHANGED <<machine, calibration, engine, todo>>

-----------------------------------------------------------------------------
(* MimeOleImporter::import, one part of the mail after the other *)

\* Any call that must succeed fails: the message is never saved.
PartFails ==
  /\ at \in {"load", "subject", "sender", "recipients", "plain", "html", "attachments", "write"}
  /\ "call" \in Faults
  /\ at' = "failed"
  /\ UNCHANGED <<machine, calibration, source, engine, import, todo>>

Part(step, next, set) ==
  /\ at = step /\ at' = next
  /\ msg' = set
  /\ UNCHANGED <<machine, calibration, source, engine, mail, bytes, todo>>

Load == Part("load", "subject", msg) /\ UNCHANGED passed

\* What the parser does not deliver is passed over.
Missing(kinds, fault) == {lost \in SUBSET kinds : lost = {} \/ fault \in Faults}

SetSubject ==
  \E lost \in Missing({"subject"}, "prop") :
     /\ passed' = passed \cup lost
     /\ Part("subject", "sender", [msg EXCEPT !.subject = mail.subject /\ lost = {}])

\* Of the first address that From has, else Sender.
SetSender ==
  \E lost \in Missing({"from", "sender"}, "addresses") :
     /\ passed' = passed \cup lost
     /\ LET from == IF "from" \in lost THEN <<>> ELSE mail.from
            both == from \o (IF "sender" \in lost THEN <<>> ELSE mail.sender)
        IN  Part("sender", "recipients",
                 [msg EXCEPT !.sender = SubSeq(both, 1, Min({1, Len(both)}))])

RecipientsBut(lost) ==
  (IF "to" \in lost THEN <<>> ELSE mail.to)
    \o (IF "cc" \in lost THEN <<>> ELSE mail.cc)
    \o (IF "bcc" \in lost THEN <<>> ELSE mail.bcc)

AddRecipients ==
  \E lost \in Missing({"to", "cc", "bcc"}, "addresses") :
     /\ passed' = passed \cup lost
     /\ Part("recipients", "plain", [msg EXCEPT !.recipients = RecipientsBut(lost)])

\* One of the two text bodies
SetBody(step, next, present) ==
  \E lost \in Missing({step}, "body") :
     /\ passed' = passed \cup lost
     /\ Part(step, next, [msg EXCEPT ![step] = present /\ lost = {}])

SetPlain == SetBody("plain", "html", mail.plain)
SetHtml  == SetBody("html", "attachments", mail.html)

Size == mail.attachments[Len(msg.attachments) + 1]

NextAttachment ==
  /\ at = "attachments" /\ bytes = -1 /\ Len(msg.attachments) < Len(mail.attachments)
  /\ at' = "write" /\ bytes' = 0
  /\ UNCHANGED <<machine, calibration, source, engine, mail, msg, passed, todo>>

\* Mutant: the chunk is not cut to what is left.
WriteWholeChunk ==
  /\ at = "write" /\ bytes < Size
  /\ bytes' = bytes + Chunk
  /\ UNCHANGED <<machine, at, calibration, source, engine, mail, msg, passed, todo>>

\* A write may take less than it was given; nothing at all is an error.
WriteChunk ==
  /\ at = "write" /\ bytes < Size
  /\ LET given == Min({Chunk, Size - bytes})
     IN  \E written \in (IF "short" \in Faults THEN 1..given ELSE {given}) : bytes' = bytes + written
  /\ UNCHANGED <<machine, at, calibration, source, engine, mail, msg, passed, todo>>

\* Mutant: one write is thought to be enough.
SaveAttachmentShort ==
  /\ at = "write" /\ (bytes > 0 \/ Size = 0)
  /\ msg' = [msg EXCEPT !.attachments = Append(@, bytes)]
  /\ at' = "attachments" /\ bytes' = -1
  /\ UNCHANGED <<machine, calibration, source, engine, mail, passed, todo>>

SaveAttachment ==
  /\ at = "write" /\ bytes = Size
  /\ msg' = [msg EXCEPT !.attachments = Append(@, bytes)]
  /\ at' = "attachments" /\ bytes' = -1
  /\ UNCHANGED <<machine, calibration, source, engine, mail, passed, todo>>

Parsed == IF config = 0 THEN "judge" ELSE "imported"

NoAttachmentList ==
  /\ msg.attachments = <<>> /\ "list" \in Faults
  /\ passed' = passed \cup {"attachments"}
  /\ Part("attachments", Parsed, msg)

AttachmentsDone ==
  /\ Len(msg.attachments) = Len(mail.attachments)
  /\ Part("attachments", Parsed, msg)
  /\ UNCHANGED passed

ImportPart ==
  \/ Load \/ SetSubject \/ SetSender \/ AddRecipients \/ SetPlain \/ SetHtml
  \/ NextAttachment \/ WriteChunk \/ SaveAttachment \/ NoAttachmentList \/ AttachmentsDone
  \/ PartFails

-----------------------------------------------------------------------------
(* The run: ensure_converter at the head of every import *)

\* The converter cannot be created, or no address book attached to it.
EngineFails ==
  /\ at = "run" /\ todo # {} /\ engine = NoEngine
  /\ "call" \in Faults \/ (config # MimeOle /\ Acquired = {})
  /\ \E m \in todo : todo' = todo \ {m}
  /\ UNCHANGED <<machine, at, calibration, source, engine, import>>

EnsureConverter ==
  /\ at = "run" /\ todo # {} /\ engine = NoEngine
  /\ source' \in IF config = MimeOle THEN {"windows"} ELSE Acquired
  /\ engine' = [variant |-> config, source |-> source']
  /\ UNCHANGED <<machine, at, calibration, import, todo>>

ImportMail ==
  /\ at = "run" /\ engine.variant = MimeOle
  /\ \E m \in todo : Begin(m) /\ todo' = todo \ {m}
  /\ UNCHANGED <<machine, calibration, source, engine>>

\* Outlook's converter (external): the check after the save is in MailImport.
ConvertMail ==
  /\ at = "run" /\ engine.variant \in 1..(MimeOle - 1)
  /\ \E m \in todo : todo' = todo \ {m}
  /\ UNCHANGED <<machine, at, calibration, source, engine, import>>

ImportEnds ==
  /\ at = "imported" \/ (at = "failed" /\ config # 0)
  /\ at' = "run"
  /\ mail' = Fixture /\ msg' = Empty /\ bytes' = -1 /\ passed' = {}
  /\ UNCHANGED <<machine, calibration, source, engine, todo>>

Next ==
  \/ SkipVariant \/ AcquireFails \/ Acquire \/ DriveFails \/ CreateFails \/ Drive
  \/ JudgedGood \/ SaveToJudge \/ Rejected \/ AllRejected \/ ParserCannotCreate \/ TryParser
  \/ ImportPart
  \/ EngineFails \/ EnsureConverter \/ ImportMail \/ ConvertMail \/ ImportEnds

Spec == Init /\ [][Next]_vars

-----------------------------------------------------------------------------
(* Properties *)

ConvertersTypeOK ==
  /\ variant \in 1..MimeOle /\ config \in 0..MimeOle
  /\ verified \subseteq [variant : 1..MimeOle, source : Range(Routes) \cup {"windows"}]
  /\ stumbled \subseteq 1..MimeOle
  /\ at = "write" => bytes \in 0..Size
  /\ at \notin {"write", "failed", "refused"} => bytes = -1
  /\ Len(msg.attachments) <= Len(mail.attachments)

\* What imports mail is the variant that was seen to convert the fixture on this
\* machine.  Nobody verifies the converter of the run itself: it comes from the place
\* the variant was verified with, unless a route to the converter failed on one of the
\* two occasions; only so far is it true that "no engine ships unverified"
\* (mapi_environment.cpp:813).
OnlyVerifiedEngine ==
  engine # NoEngine =>
    /\ engine.variant \in {v.variant : v \in {w \in verified : Converts(w.variant, w.source)}}
    /\ \/ engine \in verified
       \/ engine.source \notin {"windows", Foremost} \/ engine.variant \in stumbled

\* What could have converted and was not taken: not for want of an address book,
\* nor because a call failed in its trial, nor the fixture not delivered whole,
\* nor because the first place only seems to convert.
PassedOver(v) ==
  /\ v \in machine.converting /\ Usable(v) /\ v \notin stumbled
  /\ IF v = MimeOle THEN passed = {} ELSE Foremost \notin machine.raw

\* The first variant that converts is taken, and the run refuses only if none
\* does, or if Outlook's converter cannot be had at all.
FirstThatConverts ==
  /\ config # 0 => \A v \in 1..(config - 1) : ~PassedOver(v)
  /\ at = "refused" /\ Acquired # {} => \A v \in 1..MimeOle : ~PassedOver(v)

\* A mail that counts as imported by the parser of Windows is there whole, part
\* by part and in order, but for what the parser did not deliver.
ImportIsWhole ==
  at = "imported" =>
    /\ msg.subject = mail.subject \/ "subject" \in passed
    /\ \/ mail.from # <<>> /\ msg.sender = <<mail.from[1]>>
       \/ mail.from = <<>> /\ mail.sender # <<>> /\ msg.sender = <<mail.sender[1]>>
       \/ mail.from \o mail.sender = <<>> \/ passed \cap {"from", "sender"} # {}
    /\ msg.recipients = RecipientsBut(passed)
    /\ msg.plain = mail.plain \/ "plain" \in passed
    /\ msg.html = mail.html \/ "html" \in passed
    /\ msg.attachments = mail.attachments \/ "attachments" \in passed
=============================================================================
