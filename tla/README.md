# A TLA+ model of WLM2PST

WLM2PST converts a directory tree of `.eml` files (Windows Live Mail) into one
Unicode PST. A *worker* process drives Outlook's MAPI to write the PST and keeps
a SQLite *state database* beside it, so that a conversion that was cancelled or
that crashed can be continued with `--resume`. This directory holds TLA+ modules
of the parts of the worker where that can go wrong, TLC configurations that
model-check them, and TLAPS proofs of their main invariants.

Paths below are relative to the repository root (`worker/...` and `common/...`
live in its `src/` directory). `PROJECT.json` maps every definition to the lines
it models.

## 1. The system

| Part | State it keeps | Operations | Talks to |
|---|---|---|---|
| launcher (`launcher/`) | none | detects the bitness of Outlook, starts the matching worker, forwards its exit code | worker (child process) |
| worker application (`worker/app`) | the launch: options, sidecar files, exit code | overwrite handling, scan, preflight, job setup, session, pipeline, validation | everything below |
| import pipeline (`worker/pipeline`) | batch counter, circuit breaker, folder cache, resume index | the loop over PENDING rows, `process_row`, resume recovery | MAPI session, state database, cancel token |
| state database (`worker/resume`) | tables `job`, `files`, `folder_map`; the open transaction | create, mark, count, batch | SQLite |
| MAPI session (`worker/mapi`) | the PST, converter, folder cache, temporary profile | `ensure_folder`, `import_eml`, `import_fallback`, `read_tracked_messages`, `list_tool_folders` | Outlook's MAPI |
| validator (`worker/validation`) | none | compares rows and PST through a fresh session | state database, MAPI session |
| cancellation (`worker/cancellation`) | an atomic level 0..2 | `request_cancel` from the console control thread, `cancelled` from the loop | pipeline |
| temporary profiles (`worker/mapi/temporary_profile.cpp`) | MAPI profiles named `WLM2PST-*` | create, remove, clean up stale ones | MAPI profile store, shared by all workers |
| scanner (`worker/scanner`) | a stack of directories and the iterator of one | walk the source, report what it cannot read, sort the manifest | file system, worker application |
| preflight, manifest hash, command line | none | refuse a job, recognise a changed source | worker application |
| folder mapping (`worker/folder_mapping`) | the maps of the two loops | collapse container folders, plan the folders of the PST | worker application |
| headers, normalizer, dates, aliases | none | functions of one mail | pipeline, session |
| MIME converters (`mime_converter.cpp`, `mimeole_importer.cpp`, calibration in `mapi_environment.cpp`) | the engine of the session | find a converter, try the variants on a fixture, import a mail part by part | Outlook's converter, the MIME parser of Windows |
| addressing, reporting, common library | none or output only | one-off entry ids, reports, logging, hashing | pipeline, session |

The hard behaviour is in the middle of the table. Two stores, the PST and the
database, are written one after the other and neither knows of the other: a
message is durable when `IMessage::SaveChanges` returns, the row that accounts
for it when the batch of (25) rows is committed. Between the two the process may
die, be cancelled from another thread, or meet a failing call; rows of a batch
are rolled back together; the next process sees what was left and must neither
lose nor duplicate mail. One level up, the PST and the database are two files
that are created and deleted one after the other by launches with different
options. Around the middle, the work is sequential and the difficulty is in the
data: what the file system refuses to tell, headers that are no headers, dates
that are no dates, and converters that report success without converting.
`PROJECT.json` lists these hazards at their lines ("hazards").

What makes each part correct:

- **pipeline + database + session**: a row never claims a message the PST does
  not hold; a committed result is final and its message is left alone; a file is
  converted at most once however often the job crashes or the power fails; at
  most one batch is unaccounted for; a completed run leaves no file PENDING.
- **worker application + validator**: a success exit code and the job status
  COMPLETED are earned; a cancelled job can be resumed and is clean; every
  launch ends.
- **profiles**: only the tool's own profiles are deleted, none is left behind.
- **folder mapping**: distinct source folders keep distinct targets, whatever the
  order of the directories; nothing is mapped onto `_Conversion Errors`.
- **scanner**: every mail is in the manifest once or accounted for by a report,
  nothing behind a link or below the limit is in it.
- **preflight, manifest hash**: what is accepted fits on the disk and into a PST;
  a resumed job converts the files it was created for.
- **headers, normalizer**: repairing a header costs no word of the mail, no byte of
  its body and no field, and leaves nothing of what it is to repair.
- **dates**: a date the worker puts on a message is the instant the mail means.
- **converters**: the engine that imports is of a variant that was seen to convert on
  this machine, the first of them; a mail that counts as imported is there whole.

## 2. The modules

```
MessageLedger            what a job promises about every source file (abstract)
   ^  refinement: KeepsLedger
ImportPipeline           PipelineRun + MAPI session + rows of the database
   ^ EXTENDS                ^ EXTENDS               ^ EXTENDS
WorkerApp                PowerLoss               ImportPipelineProofs   (TLAPS)
   ^                        ^                       ^
MCWorkerApp              MCPowerLoss             WorkerAppProofs, with WorkerApp
                                                 PowerLossProofs, with PowerLoss

Scanner   <-- EXTENDS -- Intake                  scan, preflight, resume check
                            ^ EXTENDS
                         MCIntake, IntakeProofs

MailText  <-- EXTENDS -- MailDates  <-- EXTENDS -- MailImport     one mail
                                                    ^ EXTENDS
                                                  MCMailImport, MailImportProofs

Converters               calibration, choice of the engine, MimeOleImporter
   ^ EXTENDS
MCConverters, ConvertersProofs

TemporaryProfiles        the profiles of workers that run at the same time
   ^ EXTENDS
TemporaryProfilesProofs, MCTemporaryProfiles

FolderCollapse           source directories -> logical folders
   ^ EXTENDS
FolderPlan               logical folders -> folders of the PST
   ^ EXTENDS
FolderPlanProofs, MCFolderPlan
```

MCImportPipeline holds the TLC instance of ImportPipeline; MCPowerLoss and
MCWorkerApp reuse it. The modules meet where the code hands a result over:
Intake ends where WorkerApp sets up the job (in WorkerApp everything before is
one step that may refuse), FolderPlan's targets are ImportPipeline's `Target`,
and what MailImport does to one mail is one attempt of ImportPipeline, whose
outcome there is only "converted" or "corrupt".

### ImportPipeline

One action is the code from one call to an outside party (SQLite, the file
system, MAPI) to the next, so that `Crash` and `RequestCancel` fall between any
two such calls. `pc` names the place in `run()` / `process_row()`:

| `pc` | Code |
|---|---|
| `off`, `exit` | no process; `run()` has returned |
| `loop` | head of the row loop (`import_pipeline.cpp:121-134`) |
| `adopt` | `try_adopt_existing`, resume only (328-353) |
| `source` | hashing, header prefix, target folder (200-258) |
| `convert`, `saved` | an attempt of `import_eml` before and after `SaveChanges` (`mapi_environment.cpp:367-427`) |
| `failed` | both attempts failed: breaker and errors folder (277-297) |
| `fallback`, `fallbackSaved` | `import_fallback` before and after its `SaveChanges` |
| `rowDone` | end of the loop body: count and commit (141-146) |
| `commit` | after the loop: last commit and counters (158-169) |

Variables come in three groups. *Durable*: `pst` (a set of messages, each with
an entry id, the row its tracking properties name, and its kind), `rows` and
`folderMap` as of the last COMMIT. *The connection's view*: `tx`, `txRows`,
`txFolderMap`, the open batch on top of it. *Memory*: the loop variables, the
row at work, the caches `folderIds`, `resumeIndex`/`indexed`, the cancel flag
and how `run()` ended (`outcome`). `Crash` and a database failure throw memory
and the view away and keep the durable part.

A message, a path and a hash are abstracted to the row they belong to; a folder
is a model value. A message has a kind, `converted`, `corrupt` (the integrity
gate rejects it) or `fallback`; nothing else about it is read by a decision.
Errors are classes (`stream`, `conversion`, `store`, `integrity`), the
distinctions `process_row` makes on `Error::operation`. What may fail is the
constant `Faults`; the list in the module says which call each name stands for.
Row updates whose `Status` the code discards are `MarkImported`, `MarkStatus`
and the `folder_map` part of `EnsureFolder`: with the corresponding fault they
may change nothing.

`FolderAssumption` says that no target folder is `_Conversion Errors`. The code
does not reserve that name (a source folder may have it); see hazards.

### PowerLoss

`sqlite_util.cpp` opens the database with `journal_mode=WAL` and
`synchronous=NORMAL`: a committed transaction survives the death of the process,
but until a checkpoint not that of the machine. PowerLoss adds to ImportPipeline
`unsynced`, what the database held before each of the last commits, and
`PowerFails`, which falls back to any of them while the PST keeps its messages.
Checkpoints are left out: they only shrink what there is to fall back to. That
the PST itself survives is an assumption about Outlook.

### MessageLedger

The abstract specification: per file, a durable record and what the PST holds.
Three kinds of step: something is saved for a file without record, a converted
message is taken back, or records are written (several at once: a batch), each
justified by what is held. `KeepsLedger` in ImportPipeline is the refinement
mapping: `status` is the committed status, `held` is computed from `pst`.

### WorkerApp

`run_worker_app` around the pipeline. `phase` is the place in the function,
`pstFile` and `job` are the two files as a later launch finds them (`job` is
"none" when there is no database or no job row in it). `Launch(m)` starts a
worker with any of the three modes, in any order; `Die` ends it anywhere;
`PutForeignPst` is another program that puts a file at the free output path.
While `phase = "pipeline"` the actions of ImportPipeline run. Validation is not
a stub: `CountsAgree` and `RowsFound` are the checks of `validate_pst` over the
same `rows` and `pst`, and `Expected` is its list of folders, `folder_map`
included. Checks before the job is set up (scan, preflight, MAPI preflight,
folder plan) are one step that may refuse.

### TemporaryProfiles

A worker has four profiles, one after the other: for the probe of the provider,
the calibration of the converter (`preflight_check`), the conversion and the
validation (`create_session`). `stage` says for which, `at` is the next MAPI call
in the life of such a profile, or in the sweep that `run_worker_app` makes
between calibration and conversion. The profile store belongs to the user and is
shared by all workers. `Delete` and `Released` are MAPI's side: a profile in use
is only marked, and goes with its last session.

`abandoned` and `due` are history variables: the profiles whose worker died or
was refused the deletion (by `remove()` and by the destructor), and those of
them that a worker found at its launch and MAPI has not refused to list or
delete since.

### FolderCollapse and FolderPlan

`build_collapse_map` and `build_folder_plan`, one action per turn of their
loops. A name is a record of what the code looks at: its text without case, its
" (n)" suffixes, whether periods trail, its case, and the hash of a shortened
name. `Shape` says of a text what `is_recovery_timestamp` counts. `Before` and
`SiblingBefore` are the two orders the code sorts by, and `Hash` need not be
injective. Collapsing turns a set of directories into `logical`; the plan takes
the tree of these paths level by level (`group` are the siblings at work, `queue`
the nodes whose turn comes later) and gives every node its `target`.

### Scanner and Intake

`scan_source_tree`, one action per call of the file system: the outer loop pops
and opens a directory, the inner loop takes one entry of its iterator, in any
order, and every call may fail in its own way (`FaultKinds`). The source is a
constant tree (`Node`, `Parent`, `Kind`, ...), of which `present` is what is on
the disk. Symlinks and junctions are of the kind "link"; other reparse points
(`Tagged`) look like what they stand for to anything but the probe. `lost` is a history variable: what the code passes over without
putting it into one of its three lists of issues.

Intake is the launch around it: the scan, the refusal of mail that lies too deep,
the checks of `run_preflight_checks` in their order with the estimate in 64-bit
arithmetic (`Word` is 2^64; no volume is taken to hold 2^63 bytes of mail), and the
job setup, where a resume compares the settings and
the manifest hash with those of the job row. Between launches the owner of the
mail edits, deletes or adds a file. `origin` is a history variable: the files
and versions the job was created for.

### MailText, MailDates and MailImport

MailText has the text functions as operators: `Inspect` (`inspect_headers`),
`Normalize` and `NormalizedCopy` (`normalize_eml_header`,
`write_normalized_copy`). A text is a sequence of the characters these functions
tell apart (CR, LF, NUL, blank, colon, 8-bit, BOM) and of words. Both walk the
header line by line, but end it by different rules, and `Cap` may end it anywhere.
MailDates is `parse_rfc5322_date` from words on: `DateFields` is what a date says,
`ParseDate` the instant, a pair of the day and the second.

MailImport takes one mail through `process_row` and `import_eml`: flags and
fallback date from header and path, then up to two attempts, the second one on
the normalized copy if there was something to repair and the copy can be written.
Every call may fail; what Outlook's converter delivers (`Convert`) is free: any dates, flags, subject or
none, any number of the attachments.

### Converters

`run_converter_calibration` tries seven variants on a bundled mail: Outlook's
converter with or without address book and with three sets of flags, and last
`MimeOleImporter` over the parser of Windows. `at` is the next call. Which
variants really convert, which of them only when the message is saved, where
the converter can be had (registry, the dlls of the Click-to-Run hive, the MAPI
module), and at which of these places the object only seems to convert is the
constant `machine`. `MimeConverter::create` takes the first of its `Routes` that
works; each may fail on its own, at one creation and not at the next, so
`Acquired` is a set of places, one of which is the `Foremost`. After the
calibration the run creates its engine as `ensure_converter` does, perhaps from
another place, and the importer copies its mails part by part;
`passed` is a history variable of what the parser did not deliver.

## 3. What TLC checks

| Run | Shows | Bounds |
|---|---|---|
| `pipeline` | `TypeOK`, `RecordedIsSaved`, `SettledRowsAreFinal`, `SettledRowsAreLeftAlone`, `KeepsLedger` under crash, resume and every fault but a failing folder update | 2 rows in 2 folders, batch 2, threshold 2, 2 processes, at most 3 saved messages |
| `resume` | `OneConversionPerRow`, `WindowBounded`, `CompletedMeansSettled`, with power failures | 3 rows (1 and 3 share a folder), batch 2, 3 processes, at most 6 saved messages |
| `worker` | `AppTypeOK`, `SuccessIsEarned`, `CompletedJobHolds`, `CancelIsClean` | 2 rows in one folder, 3 launches of any mode, at most 4 saved messages |
| `worker_liveness` | `EveryLaunchEnds` | 2 rows, 2 launches |
| `profiles` | `TypeOK`, `LeftoversAreAbandoned`, `SweptBeforeConverting` under all nine kinds of fault | 2 workers, 4 names, 4 launches |
| `folders` | `CaseVariantsMerge`, `PositionKept`, `TargetsDiffer`, `TreeKept`, `EveryDirPlanned` | every set of at most 4 of 20 directories of depth 0 to 4, maximum depth 3 |
| `intake` | `IntakeTypeOK`, `MailAccounted`, `NothingTwice`, `NothingBehindLinks`, `AcceptedFits`, `ResumedJobIsSame`, `OrderNeverRejects`, `AcceptedIsComplete` under all eight kinds of fault | a tree of 10 nodes, depth limit 2, 2 versions of every mail, 2 settings, 2 launches with an edit between them |
| `messages` | `MailTypeOK`, `TextKept`, `FieldsKept`, `RepairsWhatIsReported`, `DateIsTheMails`, `DatedPlausibly`, `LossNeverCounts` | one mail of about 15000; `Cap` is 22 characters |
| `converters` | `ConvertersTypeOK`, `OnlyVerifiedEngine`, `FirstThatConverts`, `ImportIsWhole` under six kinds of fault | machines on which any of the variants 2, 5 and 7 converts; any choice of working and of deceiving places with no or two dlls in the hive; 2 mails, chunks of 2 bytes |
| `fallback_twice`, `integrity_run`, `scan_silent` | a violation, see section 5 | the smallest instances that show it |

Why the bounds are enough for the cases that matter. With batch 2 and 3 rows a
batch fills, another is left partial, and a crash falls before, between and
after the commits; 3 processes give a crash during recovery from a crash; rows
that share a folder read the resume index once and use it again after other
rows were imported; 3 saves leave room for a rejected message, a retry and a
fallback of one row. Threshold 2 makes the breaker trip inside one row (a
conversion and its fallback count one each) and across two rows. `MaxSaves` is a
state constraint; `MaxRuns` and `MaxLaunches` bound how often a process is
started.

4 names for 2 workers let both leave a profile behind and hold one, and 4
launches let a worker die in the sweep of what another one left. The 20
directories are pairs made to collide: case variants at both levels, reached
directly and through containers with and without a suffix; "inbox (2)" beside
"Inbox"; names that are equal only after trimming, replacing or shortening
(every long name has the same hash); the empty name; "Root Messages", in two
spellings, beside messages in the root; a path one level too deep unless it is flattened.

The tree of `intake` has mail on every level, a directory and a mail below the
limit, a file that is no mail, a mail behind a reparse point that is no link, and
a link that leads to more mail; the first
launch finds it with or without what is too deep. Sizes, free space, `GiB = 2`
and `Word = 4096` are chosen so that each of the two limits is missed and met,
and that one version of a mail overflows the estimate. One edit between two
launches is enough: what a resume sees is only the difference.

The mails of `messages` are every sequence of three lines out of eight
kinds (empty, field, continuation, no colon, NUL alone, before and within, an
8-bit name) with three line ends each, with and without a BOM and with enough
header before them that `Cap` cuts into any of their lines; dates around leap
days, century years, 1970, the limits of zone offsets, in every obsolete form,
and some that are none; and every combination of what the integrity check looks
at. A date is one word of a header, and its characters are not modelled.

Variants 2, 5 and 7 of the calibration are one with address book, one without
and the parser of Windows, so that variants come before, between and after
them. One mail has several of everything, attachments of 3, 0 and 2 bytes among
it, the other hardly anything.

Deadlock is checked in the runs of ImportPipeline, PowerLoss and WorkerApp. The
runs of the other modules really stop: when the launches are used up, the plan
is done, the mail is imported or preserved, or the run has no mail left. In the
former the only states without a next step of the
program are those where the bound on launches is reached (`Stopped`, `AllDone`).

**Fairness.** `AppFairSpec` has weak fairness of `WorkerStep` alone: the worker
is one thread in straight-line code, and each call it makes returns. Nobody has
to launch it, kill it or press Ctrl+C, and every failure is a choice that need
never be made, nor ever stop being made. `EveryLaunchEnds` is thus a statement
about the code's own loops: the row loop, the two attempts, fallback and breaker.

`SuccessIsEarned` deserves a reading: the pipeline does leave two messages for a
file or messages of rows that say otherwise (a rejected message that cannot be
deleted, an entry id that cannot be read). The property says that validation
catches every such PST: in no folder the job knows does a success code cover a
converted message that is not the recorded import of its file.

The properties conditioned on a fault being absent say so in their first
conjunct, and the runs that check them do have the other faults.
`OneConversionPerRow` for instance excludes the four faults that really
duplicate mail (`entryid`, `delete`, `index`, and `folder`, which recovery
treats as "not found").

## 4. What TLAPS proves

Every safety property that a passing run checks is a theorem: the run shows it on a
small instance, the theorem for every value of the constants, under the assumptions
that the modules state about them (TLC evaluates these on every run). One theorem,
`TheDateOfTheMail`, has a hypothesis of its own. Liveness stays with TLC.

`ImportPipelineProofs` proves, for every number of rows, folders, batch size,
threshold, number of processes and every set of faults:

- `TypeCorrect`: `Spec => []TypeOK`
- `RecordedSaved`: `Spec => []RecordedIsSaved`
- `SettledFinal`, `LeftAlone`: the action properties `SettledRowsAreFinal` and
  `SettledRowsAreLeftAlone`
- `Implementation`: `Spec => KeepsLedger`, that is, ImportPipeline implements
  MessageLedger

The assumptions are those the module states about its constants.

`RecordedIsSaved` is not inductive. A row in the open batch becomes a committed
row, so both have to be backed; the integrity gate deletes a message, so no
recorded row may rest on the message at work; a row is recorded from `saved` or
from the resume index, so these must name a message that is still there. The
inductive invariant `IInv` therefore adds, layer by layer, to `TypeOK`: how the
view relates to the committed rows (equal outside a batch, and a committed
result is never changed by the batch), that rows still to be visited are
PENDING in both, that the row at work is PENDING in the view, that entry ids
are unique and below `nextId`, that `saved` names a message of the row at work
while `pc` says so, and that the messages of the resume index that recovery can
still adopt are in the PST. `Invariance` proves `Spec => []IInv` with one lemma
per group of actions; the action properties and the refinement follow from it,
action by action (`SaveHolds`, `DeleteHolds`, `LedgerStep`).

`TemporaryProfilesProofs` proves the three invariants of the run `profiles` for
every number of workers, names and launches and every set of faults
(`TypeCorrect`, `NothingLeftByAccident`, `SweepComplete`). `TypeOK` is inductive,
because it ties `own` and `session` to the place in the code. The other two need
more: two workers never own the same name; a profile is marked only while a
session uses it; nobody owns or uses what is `due` or `abandoned`; and what is
due and not yet deleted is still to come in the sweep of that worker, or the
sweep has not begun. `Invariance` proves the conjunction action by action.

`FolderPlanProofs` proves the five invariants of the run `folders` for all names,
hashes, trees, container rules and orders of the directories, from the assumptions
about what a name, a pattern and a path are:

- `VariantsMerge`: `CaseVariantsMerge`. The property speaks of finished paths only;
  the invariant says how they came about: `canonical` has one spelling per key, a
  spelling differs from the end of its key in case only, and every prefix of a path,
  finished or at work, has its entry with just that spelling. Two paths with equal
  keys then agree segment by segment.
- `PositionsKept`: `PositionKept`. The invariant says at which place of what is kept
  each segment that has been looked at stands, container or not, in the directory at
  work and in those that are done.
- `NoSharedTarget`, `ShapeKept`: `TargetsDiffer` and `TreeKept`. The invariant follows
  the queue: the siblings of a group stand together in it, a node in it has a placed
  parent and no placed child, and `used` holds just the names of the siblings of the
  group at work that are placed. That the loop for a free name ends with one
  (`FinalNameFree`) is a pigeonhole argument: of as many different suffixes as names
  are used, plus one, one is free.
- `NoFolderUnplanned`: `EveryDirPlanned`. Where a node is that has no place
  (`CoverInv`) is an invariant; when queue and group are empty, the shortest node
  without a place would have a parent without one.

`PowerLossProofs` proves four properties of PowerLoss, that is with any number
of crashes, resumed runs and power failures:

- `RecordedSurvivesPower`: `RecordedIsSaved`. A power failure takes the database
  back, but `LogBehind` says that a result in a version it may fall back to is a
  result of the database now, so what is claimed then was claimed before.
- `CompletionSettles`: `CompletedMeansSettled`. The invariant `Settling` (in
  ImportPipelineProofs) says that every row the loop has passed is settled in the
  open batch, and in the database once the batch is committed.
- `NoMailTwice`: `OneConversionPerRow`. The argument never looks at the rows, which
  a rollback or the power may take back at any time: a resumed run asks the PST.
  The invariant `SingleInv` takes the parts of `IInv` about the loop, the messages
  and `saved`, and adds that from reading the source until something is saved the
  row has no conversion (`NotConverted`), that a first run has saved nothing for
  the rows to come (`FirstRunIsFresh`), and that for rows still to be recovered the
  resume index holds what their folder holds (`IndexComplete`).
- `WindowSmall`: `WindowBounded`. That few files are exposed is not inductive over
  several crashes. The invariant says which ones they are: the last of them is among
  the first `BatchSize` open files. As every run begins with the first open files
  again, in the same order, the next crash exposes none beyond them.

`WorkerAppProofs` proves the four invariants of the run `worker` for any number of
files, folders and launches: `AppTyped`, `SuccessEarned`, `CompletedHolds` and
`CancelledClean`. It reuses the lemmas of ImportPipelineProofs about the layers of
`IInv`, but not `RecordedIsSaved`, which does not hold here: `--overwrite` may
delete the PST and leave the rows. What holds is `RecordedExcept(Lost)`: a row
claims what the PST has, or the PST has nothing at all of that row, and as its
result is final it never will. From this `SuccessEarned` follows by counting
(`CountDecides`): if every recorded row has one message in a folder and there are
as many messages as rows, each message is that of a row. `CompletedHolds` needs
that a pipeline has nothing to do once every row is settled (`NothingToDo`), and
what each phase has found out about the two files (`FilesInv`); `CancelledClean`
that in a first run every message is that of a settled row or of the row at work
(`Accounted`).

`IntakeProofs` proves the eight properties of the run `intake` for every source tree,
disk, limit, set of faults, order of enumeration and number of launches and edits.
`IntakeTyped`, `EveryMailAccounted`, `ManifestHasNoDoubles`, `LinksAreNotFollowed`,
`AcceptedJobsAreComplete` and `ResumesTheSameJob` rest on `TreeAssumption` (what a
tree of paths is), `ScanAssumption` and `IntakeAssumption`. The invariant of the walk,
`WalkInv`, says where everything is that has not been settled: below an entry the
iterator has yet to return or below a directory on the stack (`Followed`), that no two
of these lie below each other and no entry of the manifest below them (`Apart`), which
is why nothing is taken twice, and at which depth they are and that no link is above
them (`Placed`). `IntakeInv` adds the types of the launch and what a finished walk
means for each stage (`Settled`).

- `OrderIsNoChange`: `OrderNeverRejects`. From `OrderAssumption` (of two different
  paths one comes first) follows that the same files and versions have one orderly hash
  (`OneHash`): where two of them differed first, each would have the other's entry
  further back. Every hash in the database is orderly, because a scan ends sorted.
- `AcceptedJobsFit`: `AcceptedFits`. The worker adds up the sizes entry by entry, in 64
  bits, and so does the model, with folds. `TotalIsReal` shows this is the size of the
  mail: a sum over a finite set does not depend on which element is taken first
  (`SumsStep`), it can be reduced modulo 2^64 at every addition (`ModSum`,
  `WordSumsAre`), and the entries stand for their mails one to one (`EntriesAreMails`,
  from `NothingTwice`). `SizesAssumption` says that no volume holds 2^63 bytes of mail.
  Below that the product with 3 in the estimate can still overflow, once; but then a
  third of 2^64 is left of the sum, far above the ceiling (`EstimateFits`). That 2^64 is
  more than 132 GiB is part of `IntakeAssumption`.

`ConvertersProofs` proves the four invariants of the run `converters` for every
machine, mail, chunk size and set of faults, from `ConvertersAssumption`.

- `EngineIsVerified`: `OnlyVerifiedEngine`. `EngineInv` follows the converter through
  its trial: it comes from the foremost place or its variant stumbled over the call that
  failed there (`FromThere`), only a variant and an object that convert make the fixture
  look right (`GoodConverts`), and what the calibration settles on was verified with the
  converter of some place, the foremost unless it stumbled (`SettledOn`). That the
  run's engine comes from the same place is not a theorem: see section 5.
- `TypesHold`, `WhatIsImportedIsWhole`: `ConvertersTypeOK` and `ImportIsWhole`.
  `MailInv` says, for every place of the parser's import, which parts of the mail it
  has behind it, and that these are in the message but for what the parser did not
  deliver; the attachments of the message are at any time the first ones of the mail,
  each of them whole.
- `TheFirstIsTaken`: `FirstThatConverts`. `FirstInv` says that every variant behind the
  one on trial does not convert, could not be used, or stumbled over a fault, and that
  the message of one that converts is found good, at the latest when it was saved.

`MailImportProofs` proves the seven invariants of the run `messages` for all mails,
whatever their text and length and whatever the converter delivers, from
`FilesAssumption` and `CapAssumption`.

- `NoLossCounts`, `PlausiblyDated`, `MailTypesHold`: `LossNeverCounts`,
  `DatedPlausibly` and `MailTypeOK`. `ImportInv` says that the metadata of the row are
  those of the mail, and that the message, from the moment its dates are repaired,
  carries one that is within bounds or that of the file. What the text functions
  compute does not enter here.
- `RepairsEverything`: `RepairsWhatIsReported`. The rewritten header is clean: no NUL,
  no CR without LF, and an empty line at its end (`HeaderClean`), and of clean text the
  inspector reports nothing that could be repaired (`CleanIsRead`), wherever the window
  ends; and where the normalizer changes nothing there was nothing to report
  (`UnchangedIsRead`). That a mail is given up although a copy could have been made, or
  because the copy could not be written, is in the model. The exception is a byte order mark that NULs hid (`HiddenBom`): the NULs go and
  the mark stands at the start of the copy.
- `NothingIsLost`: `TextKept`. The lines of a text cover it one after the other
  (`LinesFollow`), rewriting a line keeps its words (`RewrittenWords`), so the new
  header has the words of the old one (`HeaderWords`); and what the inspector takes for
  the body is body for the normalizer, too (`BodyIsLater`).
- `TheSameFields`: `FieldsKept`. The lines of the copy are the lines that were kept,
  without their NULs (`CopyRows`), and lines that say the same are read alike
  (`SameReading`). The line at which the normalizer stops is no continuation of a
  field, so whatever the inspector reads behind it in the mail leaves the fields before
  it as they are (`FieldsFixed`).
- `CalendarCounts`: the day number of `DaysFromCivil` (years from March on, cycles of
  400 years) is that of counting leap years and days of months one by one, for every
  year, month and day.
- `TheDateOfTheMail`: `DateIsTheMails`, on the hypothesis that the words of the dates in
  the mails are read as what is meant by them (`DatesAreRead`): the words of a date and
  their meaning are constants of the model, and only an instance can relate them. That
  of the run does; MCMailImport states it for every form of a date as an assumption that
  TLC evaluates. The theorem adds the calendar, the offsets, the choice between
  Received, Date and file, and that this date is the one put on the message.

Several of these proofs are inductions over data (the lines of a text, the elements of
a set, the years of a span). The induction theorems of the library are out of reach of
the provers, but that a set of natural numbers has a least element is not (`Least`):
the arguments take the shortest counterexample and contradict it. For the same reason a
recursive function (the reading of a header, the joining of lines, a sum) is first
shown to exist (`ReadingExists`, `JoiningExists`, `SumsExist`).

TLC only: liveness (`EveryLaunchEnds`; fairness and ENABLED are out of TLAPS's reach
here), and that the date parser reads the words of a date as what is meant by them,
which a proof could only repeat, as no definition but the parser's own says what they
mean. The theorems about texts speak of characters as the model tells them apart.

## 5. Where the code and its own words disagree

Three runs expect a violation; the counterexample is a behaviour of the code, and
`PROJECT.json` quotes the line it contradicts.

- `fallback_twice`: recovery looks only into the target folder, so a fallback
  saved before a crash is saved again.
- `integrity_run`: a successful fallback resets the breaker, so a converter that
  never converts preserves every message instead of stopping the run.
- `scan_silent`: a subdirectory whose access is denied is passed over without a
  report, and the job is accepted without its mail.

Other behaviours of the code that the models contain, and that a reader of the
properties should know; each is a hazard without a property or an exception in one:

- "No engine ships unverified", says `mapi_environment.cpp:813`, and
  `mime_converter.cpp:229-230` that the self-test "still gates whatever this returns".
  But the session creates a converter of its own after the calibration. If the
  Click-to-Run dll that was verified cannot be loaded this time, it takes the object of
  the next dll or of the MAPI module, which nobody verified and which may only seem to
  convert; the integrity check of every message is what is left to notice. In Converters
  this is `EnsureConverter` with another place than that in `verified`, and the second
  part of `OnlyVerifiedEngine` says when it can happen.
- A crash between `SaveChanges` and the integrity gate leaves a message nobody
  checked; `AdoptOne` records it as imported.
- The state database is created before the PST, and `--overwrite` deletes only if
  the PST exists: a launch that never got to create it leaves a database that
  blocks a new job and `--overwrite` (a job row is there) and `--resume` (there is
  no PST).
- The sweep of "stale" profiles deletes also those of a worker that is running;
  before its `MAPILogonEx` nothing protects them.
- A folder named after a date ("2019-06-15 Wedding") counts as a recovery
  container and disappears from the path of its messages.
- The integrity check also refuses complete messages: a mail with an empty
  `Subject:`, and a `multipart/mixed` one without attachment. They are preserved
  as attachments.
- When Outlook's converter cannot be created at all, the calibration ends without
  trying the parser of Windows, which needs none (`FirstThatConverts` excepts it).
- What the parser of Windows does not deliver (a list of addresses, a body, the
  list of attachments) is missing in the message, which counts as imported
  (`passed` in `ImportIsWhole`).
- An entry of the source that cannot be examined, and a link the probe does not
  recognise, are passed over without a report, too (`lost`).
- When the probe fails on a reparse point that is no symlink or junction, the walk
  takes what is there, or descends; `NothingBehindLinks` speaks of symlinks and
  junctions.

## 6. What is not modelled

- The launcher: a decision over registry keys and a PE header, taken once before
  the worker starts; it shares no state with the rest.
- Reporting and logging: output only, no decision reads it.
- Addressing (one-off entry ids) and the common library (SHA-256, paths, UTF):
  functions without state; hashes are taken to be injective.
- The lexical checks of the command line; the models take accepted options.
- Cancellation beyond the first request: nobody reads the level.
- Of the state database and the validator what no decision reads (timestamps,
  attempt counts) or only a tampered PST reaches (SHA-256 of an attachment).
- Of the converters what Outlook and Windows do, which is external, and the
  loading of MAPI32; of the folder plan the list of renames and the output order.
- An error of the disk while the rest of a mail is copied: `write_normalized_copy`
  (`mime_converter.cpp:87-92`) takes it for the end of the file, and the second attempt
  reads a shorter mail.
- Case is one fold in the folder model, where the code has two (`towlower` and ASCII)
  and the PST a third.
- The characters of a date's words.
