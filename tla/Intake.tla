------------------------------- MODULE Intake -------------------------------
(***************************************************************************)
(* What a launch decides before it opens Outlook: run_worker_app from the  *)
(* scan to the job setup, with run_preflight_checks, the manifest hash and *)
(* check_resume_compatible.                                                *)
(*                                                                         *)
(* Launches follow each other; between them mail may change or disappear.  *)
(* The hash is taken to be injective, so it is the hashed text itself.     *)
(* A version of a file is what the manifest records of it: size and time.  *)
(* WorkerApp has what --overwrite and a failing setup leave on the disk.   *)
(***************************************************************************)
EXTENDS Scanner

CONSTANTS
  Bytes,        \* Bytes[f][v]: the size of version v of mail f
  Versions,     \* of every file; 0 is the first
  Disks,        \* what may be on the disk at first
  Settings,     \* source, output, root name, bitness, folder layout and schema
  Free,         \* the free space a launch may find
  GiB,          \* kGiB
  Word,         \* 2^64
  MaxLaunches   \* bound on the launches

ASSUME IntakeAssumption ==
  /\ Versions \subseteq Nat /\ 0 \in Versions
  /\ Bytes \in [Mail -> [Versions -> Nat]]
  /\ Free \subseteq Nat /\ Disks \subseteq SUBSET Node
  /\ \A D \in Disks : \A n \in D : Above[n] \subseteq D
  /\ GiB \in Nat \ {0} /\ Word \in Nat /\ Word > 132 * GiB /\ MaxLaunches \in Nat

\* The size of the mails S in the versions v, without any width of integers.
SizeOf(S, v) == FoldFunctionOnSet(+, 0, [f \in Mail |-> Bytes[f][v[f]]], S)

\* No volume holds 2^63 bytes of mail, whatever its versions.
ASSUME SizesAssumption ==
  \A S \in SUBSET Mail, v \in [Mail -> Versions] : IsFiniteSet(S) => 2 * SizeOf(S, v) < Word

VARIABLES
  stage,        \* "off", "scan", "preflight", "space", "setup", "accepted" or "refused"
  exit,         \* the ExitCode of a refusal
  options,      \* mode and settings of the launch
  free,         \* what available_free_bytes answers
  version,      \* of every mail
  job,          \* the job row: settings and manifest hash
  origin,       \* history: the files and versions the job was created for
  launches

source     == <<present, version>>
launchVars == <<options, launches>>
jobVars    == <<job, origin>>
intakeVars == <<scanVars, stage, exit, free, launchVars, source, jobVars>>

NoJob == [settings |-> "none", hash |-> <<>>]
Mode  == {"new", "resume", "overwrite"}
ExitCode == {"none", "INVALID_SOURCE", "INVALID_ARGUMENTS", "OUTPUT_EXISTS", "SOURCE_CHANGED",
             "STATE_DB_INCOMPATIBLE", "INSUFFICIENT_DISK_SPACE", "PST_SIZE_CEILING_EXCEEDED"}

Init ==
  /\ ScanInit
  /\ present \in Disks
  /\ stage = "off" /\ exit = "none"
  /\ options = [mode |-> "new", settings |-> "none"] /\ free = 0
  /\ version = [f \in Mail |-> 0]
  /\ job = NoJob /\ origin = {} /\ launches = 0

Idle == stage \in {"off", "accepted", "refused"}

NewWalk == walk' = "start" /\ Discard

\* --overwrite deletes the PST and its database before anything is scanned.
Launch(o) ==
  /\ Idle /\ launches < MaxLaunches
  /\ launches' = launches + 1
  /\ stage' = "scan" /\ exit' = "none"
  /\ options' = o
  /\ IF o.mode = "overwrite" THEN job' = NoJob /\ origin' = {} ELSE UNCHANGED jobVars
  /\ NewWalk
  /\ UNCHANGED <<free, source>>

\* Between two launches the owner of the mail edits, deletes or adds a file
\* (bound: one change between two launches, and only after a job was accepted;
\* what is there before is one of Disks).
Edit(f) ==
  /\ stage = "accepted" /\ launches < MaxLaunches
  /\ \/ /\ f \in present
        /\ version' \in {[version EXCEPT ![f] = v] : v \in Versions \ {version[f]}}
        /\ UNCHANGED present
     \/ present' = present \ {f} /\ f \in present /\ UNCHANGED version
     \/ present' = present \cup {f} /\ f \notin present /\ Parent[f] \in present /\ UNCHANGED version
  /\ stage' = "off" /\ exit' = "none"
  /\ NewWalk
  /\ UNCHANGED <<free, launchVars, jobVars>>

Refuse(code) ==
  /\ stage' = "refused" /\ exit' = code
  /\ UNCHANGED <<scanVars, free, launchVars, source, jobVars>>

Proceed(next) ==
  /\ stage' = next
  /\ UNCHANGED <<scanVars, exit, free, launchVars, source>>

Scan ==
  /\ stage = "scan" /\ ScanStep
  /\ UNCHANGED <<stage, exit, free, launchVars, version, jobVars>>

ScanFailed == stage = "scan" /\ walk = "failed" /\ Refuse("INVALID_SOURCE")

RejectDeep == stage = "scan" /\ walk = "done" /\ tooDeep # {} /\ Refuse("INVALID_SOURCE")

\* Mutant: what is too deep is only logged.
ScanAcceptedAnyway ==
  /\ stage = "scan" /\ walk = "done"
  /\ Proceed("preflight") /\ UNCHANGED jobVars

ScanAccepted ==
  /\ stage = "scan" /\ walk = "done" /\ tooDeep = {}
  /\ Proceed("preflight") /\ UNCHANGED jobVars

-----------------------------------------------------------------------------
(* Preflight *)

TotalBytes == FoldSeq(LAMBDA f, sum : (sum + Bytes[f][version[f]]) % Word, 0, entries)

\* Mutant: the factor 3/10 is divided first.
EstimateTruncated(total) == (total + ((total * (3 \div 10)) % Word) + GiB) % Word

\* total + total*3/10 + 1 GiB in 64 bits
EstimatePstBytes(total) == (total + ((total * 3) % Word) \div 10 + GiB) % Word

RequiredFreeBytesFor(estimate) == (estimate + 2 * GiB) % Word
PstSizeCeilingBytes == 45 * GiB

\* What the probes say of the machine: the first check that fails decides.
EnvironmentRefuses ==
  \/ Refuse("INVALID_SOURCE")       \* the source is gone, or wlmail.exe runs
  \/ Refuse("INVALID_ARGUMENTS")    \* no output directory, or not on a local fixed drive
  \/ job # NoJob /\ Refuse("OUTPUT_EXISTS")    \* the PST is locked

OutputAcceptable == entries # <<>> /\ (job = NoJob \/ options.mode # "new")

PreflightRefuses ==
  /\ stage = "preflight"
  /\ \/ entries = <<>> /\ Refuse("INVALID_SOURCE")
     \/ entries # <<>> /\ EnvironmentRefuses
     \/ entries # <<>> /\ job # NoJob /\ options.mode = "new" /\ Refuse("OUTPUT_EXISTS")
     \/ OutputAcceptable /\ Refuse("INSUFFICIENT_DISK_SPACE")   \* it cannot be queried

SpaceSuffices == free >= RequiredFreeBytesFor(EstimatePstBytes(TotalBytes))
BelowCeiling  == EstimatePstBytes(TotalBytes) <= PstSizeCeilingBytes

ProbeSpace ==
  /\ stage = "preflight" /\ OutputAcceptable
  /\ free' \in Free
  /\ stage' = "space"
  /\ UNCHANGED <<scanVars, exit, launchVars, source, jobVars>>

SpaceRefuses ==
  /\ stage = "space"
  /\ \/ ~SpaceSuffices /\ Refuse("INSUFFICIENT_DISK_SPACE")
     \/ SpaceSuffices /\ ~BelowCeiling /\ Refuse("PST_SIZE_CEILING_EXCEEDED")

PreflightPasses ==
  /\ stage = "space"
  /\ SpaceSuffices /\ BelowCeiling
  /\ Proceed("setup") /\ UNCHANGED jobVars

-----------------------------------------------------------------------------
(* Job setup *)

\* Mutant: size and time are left out of the line.
PathsOnlyHash == [i \in DOMAIN entries |-> <<entries[i], 0>>]

\* serialize_manifest_for_hash: one line per entry, in the order of the manifest.
ManifestHash == [i \in DOMAIN entries |-> <<entries[i], version[entries[i]]>>]

Scanned == {<<f, version[f]>> : f \in ToSet(entries)}

ResumeRefused ==
  /\ stage = "setup" /\ options.mode = "resume"
  /\ \/ job = NoJob /\ Refuse("STATE_DB_INCOMPATIBLE")
     \/ job # NoJob /\ job.settings # options.settings /\ Refuse("STATE_DB_INCOMPATIBLE")
     \/ /\ job # NoJob /\ job.settings = options.settings
        /\ job.hash # ManifestHash
        /\ Refuse("SOURCE_CHANGED")

ResumeAccepted ==
  /\ stage = "setup" /\ options.mode = "resume"
  /\ job # NoJob /\ job.settings = options.settings /\ job.hash = ManifestHash
  /\ Proceed("accepted") /\ UNCHANGED jobVars

CreateJob ==
  /\ stage = "setup" /\ options.mode # "resume"
  /\ Proceed("accepted")
  /\ job' = [settings |-> options.settings, hash |-> ManifestHash]
  /\ origin' = Scanned

IntakeStep ==
  \/ Scan \/ ScanFailed \/ RejectDeep \/ ScanAccepted
  \/ PreflightRefuses \/ ProbeSpace \/ SpaceRefuses \/ PreflightPasses
  \/ ResumeRefused \/ ResumeAccepted \/ CreateJob

Next ==
  \/ IntakeStep
  \/ \E o \in [mode : Mode, settings : Settings] : Launch(o)
  \/ \E f \in Mail : Edit(f)

Spec == Init /\ [][Next]_intakeVars

-----------------------------------------------------------------------------
(* Properties *)

\* The scan's types; an exit code exactly when the launch was refused, and a
\* database whose job row is that of the files it was created for.
IntakeTypeOK ==
  /\ ScanTypeOK
  /\ stage \in {"off", "scan", "preflight", "space", "setup", "accepted", "refused"}
  /\ exit \in ExitCode /\ (exit # "none" <=> stage = "refused")
  /\ options.mode \in Mode
  /\ version \in [Mail -> Versions]
  /\ ToSet(job.hash) = origin

RealTotal == SizeOf(ToSet(entries), version)

\* An accepted job fits: 130 percent of the mail plus 1 GiB is at most 45 GiB,
\* and that plus 2 GiB was free (preflight.h:49-60, rounding included).
AcceptedFits ==
  stage = "accepted" =>
    /\ 13 * RealTotal + 10 * GiB <= 450 * GiB + 9
    /\ 13 * RealTotal + 30 * GiB <= 10 * free + 9

\* A resumed job converts what it was created for: no file is missing, new or
\* of another size or time, so rows and files belong together.
ResumedJobIsSame ==
  stage = "accepted" /\ options.mode = "resume" => Scanned = origin

\* A resume is refused for a changed source only if the scans saw different
\* files: the order in which directories are enumerated never matters.
OrderNeverRejects == exit = "SOURCE_CHANGED" => Scanned # origin

\* Mail that an accepted job leaves out was logged as skipped or unreadable, or
\* silently lost; it never left out mail because that lies too deep.
AcceptedIsComplete ==
  stage = "accepted" => \A f \in PresentMail : Accounted(f, skipped \cup unreadable \cup lost)

\* What scanner.h:45-47 says of per-entry problems, an unreadable subdirectory among
\* them: mail that an accepted job leaves out is in the lists of issues.
ProblemsRecorded == stage = "accepted" => \A f \in PresentMail : Accounted(f, Listed)
=============================================================================
