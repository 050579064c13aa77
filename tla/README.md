# A TLA+ verification of starryeyes

starryeyes is a media conversion service: clients create a job, upload its
input in chunks, and fetch the transcoded output. One Go process
(`cmd/starryeyes`) serves the HTTP API, keeps job metadata in `jobs.sqlite`,
inputs under `DATA_DIR/spool`, outputs under `OUTPUT_DIR`, and runs FFmpeg in a
sandbox. This directory models the parts of it that are hard to test: what
several goroutines, a crash and a restart, a failing statement and a full disk
can do to the job table, the spool and the outputs; what becomes of a request on
its way to FFmpeg's command line; and the client script that uploads a
directory and may be stopped and started again at any time.

## Inventory

| component | state | operations | interacts with |
|---|---|---|---|
| creation | `jobs` row, `Idempotency-Key` | `create` (main.go:182) | starts `admitPending` |
| admission | `capacity` row, `jobs.reserved`, `reservations`, spool files | `admitPending`, `reservePending`, `ensureSpoolSpace`, `prepareInput` (590-722) | woken by create, release, expiry, recovery; under `admissionMu` |
| upload | `input.part`, `chunks` rows, `received`, `chunks` | `chunk`, `complete`, `listChunks` (262-448) | lifecycle and chunk locks; starts `finalize` |
| expiry | `expires_at` | `runUploadGC`, `expireUploads`, `expireUpload` (834-925) | holds `admissionMu`, takes lifecycle locks |
| finalisation | `input`, state `FINALIZING` .. `QUEUED` | `finalize`, `probeAndQueue` (449-524) | lifecycle lock; calls `schedule` |
| scheduling | `Server.sem`, state `STARTING` | `schedule` (1001) | `scheduleMu`; starts `run` |
| transcoding | cgroup, output directory, `manifest.json` | `run`, `makeCgroup`, `writeOutputManifest` | FFmpeg; `release`, `cleanupSpool`, `schedule` |
| failing and releasing | reservation, state, spool | `fail`, `release`, `cleanupSpool` (804, 1125-1147) | called by everyone; starts `admitPending` |
| recovery | everything persistent | `schema`, `recover`, `reconcileResumableUploads`, `cleanupTerminalSpools` | start-up, before the listener |
| backfill | outputs to rows | `runBackfill`, `importOutputManifest` (manifest.go) | run while the server is down |
| request normalisation | `jobs.spec` | `normalize`, `merge`, `compatible`, `crf` (1455-1660) | called by `create`; its result is looked up by `ffmpegCmdWithPlan` |
| planner | none (pure) | `autoCompressionPlan` (compression.go) | called by each `run`, on the stored probe |
| encoders | devices present, error texts | the encoder loop of `run`, `videoEncoders`, `ffmpegCmdWithPlan` (1054-1330), `boundedBuffer` (logging.go) | planner, FFmpeg |
| upload client | state file, lock file | `upload-directory.sh` | the HTTP API, with retries |

What makes it hard: `fail` and `release` run outside every lock and in
statements committed one by one; admission works on rows it read earlier; the
expiry of an upload races its chunks; files and rows are changed in separate
steps, so a crash can fall between any two; queued work is only found if
somebody scans for it; recovery has to make sense of whatever is left.

What would make it correct, component by component:

- *admission*: reservations never exceed the capacity or the disk; capacity is
  given back exactly once; whoever may upload has a file and room for all of
  it; jobs are admitted in the order they came; a job that fits is admitted.
- *upload*: a chunk that is reported verified is on disk, and stays as it is;
  an upload is complete exactly when all its chunks are.
- *processing*: never more than `MAX_ACTIVE_TRANSCODES` workers; a free slot is
  used; each complete upload is queued or fails; a finished job stays finished,
  its output stays intact, its input goes away.
- *recovery and backfill*: what was interrupted is resumed from where its files
  allow it; what was delivered survives.
- *normalisation and encoders*: what is accepted can be built, and asks FFmpeg
  for what the client asked; a failing encoder leads to the next one, with the
  same plan, and in the end to software.
- *planner*: the plan keeps to the bit budget, never upscales, and asks for
  dimensions encoders accept.
- *client*: whatever fails, running it again reaches the same job and uploads
  only what is missing; it reports success only of the file it was given.

`PROJECT.json` lists the hazards behind these at their lines, with the
properties that cover each.

## Modules

| module | what it is |
|---|---|
| `JobLifecycle` | the abstract specification: the stages of a job a client can see and the moves between them |
| `Admission` | creation, admission, expiry, failure, release, crash and recovery: the three tables, the spool, and every goroutine that moves capacity |
| `CreatedAt` | the text of `created_at` and its order in SQL, used by the instances of `Admission` |
| `MCAdmission` | instances of `Admission` |
| `AdmissionProofs` | the inductive invariant of `Admission`, its safety theorems and the exactness of its capacity |
| `AdmissionOrderProofs` | the order of `created_at` texts, FIFO order, removal of inputs, and the refinement of `JobLifecycle` |
| `Processing` | finalize, probe, schedule, run, manifest, crash, recovery and backfill |
| `MCProcessing` | instances of `Processing` |
| `ProcessingProofs` | the inductive invariant of `Processing`, its safety theorems, and the refinement of `JobLifecycle` |
| `Upload` | PUT chunk, complete, finalize and the expiry sweep under their locks, over the written and the durable input file |
| `MCUpload` | instances of `Upload` |
| `UploadProofs` | the inductive invariant of `Upload`, its safety theorems, and the refinement of `JobLifecycle` |
| `JobSpec` | normalisation: a request and a preset to a stored specification, or a refusal |
| `Compression` | the automatic compression planner |
| `Conversion` | a job from its request to FFmpeg's command lines, over encoders, devices and restarts; uses the two above |
| `MCConversion` | instances of `Conversion` |
| `ConversionProofs` | the inductive invariant of `Conversion` and the theorems about plans, encoders and error texts |
| `PlannerProofs` | the arithmetic of `Compression` and the frames of `Conversion`, for all sizes, rates and shapes |
| `ConversionRequestProofs` | what command lines owe to the request, by a stronger invariant and the arithmetic |
| `UploadClient` | runs of `upload-directory.sh` on one file, against the server as the script sees it |
| `MCUploadClient` | an instance of `UploadClient` |
| `UploadClientProofs` | the inductive invariant of `UploadClient` and its safety theorems |

`Admission` treats everything between the upload's completion and the job's end
as one state, `PROCESSING`; `Processing` starts where `Admission` hands a job
over, and leaves the reservation to it. `Upload` is a closer look at the part
between admission and the queue, where `Admission` has one step per request:
its handlers are broken up between any two locks, statements and system calls.
`Conversion` is a closer look at one step of `Processing`, the transcode: which
command lines it consists of. `UploadClient` is the other side of `Admission`
and `Upload`: it has their handlers by what they answer.
`Admission` implements `JobLifecycle`
through `StageOf`; `Processing` and `Upload` do so job by job.

### Admission

One step is one SQL statement or transaction, or one file operation: the
database has a single connection (main.go:143), so statements are atomic and
transactions exclude each other. `reservePending` calls `statfs` inside its
transaction, which is why its check and its reservation are one step.

- `state`, `reserved`, `rows`, `capReserved`, `capTotal`, `received`, `stamp`,
  `overdue` are columns of the database; sizes are counted in chunks.
  `overdue` abstracts `expires_at` to whether it has passed.
- `spool` and `written` are the job's directory and the blocks its sparse file
  occupies. `Cells` writes an amount per job as a set, so that a sum of amounts
  is the size of a set.
- `adm`, `gc` and `fin` are program counters of the goroutine in
  `admitPending`, of the one in `expireUploads`, and, per job, of the one in
  `fail` or at the end of `run`; `MuFree` is `admissionMu`; `scans` counts the
  `admitPending` goroutines that wait for it.
- `AdmScan`, `AdmReserve`, `AdmPrepare`, `AdmAdmit`, `AdmFailed` are the loop of
  `admitPending`; `GcStart`, `GcExpire`, `GcRemove`, `GcEnd`, `GcAbort` are
  `expireUploads`; `ReadJob`, `ReleaseJob`, `ReleaseCapacity`, `ReleaseRow`,
  `RecordFailed`, `CleanupSpool` are `fail`, `release` and `cleanupSpool`.
- `Fault` lets a statement or system call fail; `Crash` loses the process and
  any input file that was never synced; `Restart`, `Reconcile`, `Sweep`,
  `EndRecover` are `schema` and `recover`, the former with a capacity that may
  have been reconfigured.

### Processing

`pc[j]` is where job `j`'s goroutine stands, `finalize` or `run`; its values
follow the code from statement to statement. `schedule` has a program counter
of its own, `waiting` counts the calls that wait for `scheduleMu`, and `sem` is
the number of tokens in the semaphore channel. Hashing, ffprobe and FFmpeg are
their outcomes; the artifact is absent, partial or whole, and the manifest
matches it or does not. `Crash` kills the process and its children;
`LoseDatabase` and `Backfill` happen while the server is down.

### Upload

- `life` and `chunk` are the striped locks. A `sync.RWMutex` is a writer and a
  set of readers; `Announce` is `Lock` taking the place of the writer, after
  which `RLock` waits, and the writer goes on when the readers are gone
  (`Holds`). `LockOrder` is the order in which a PUT takes the two.
- `put[p]` is a PUT handler and the request it serves: `Lookup`, `Replay`,
  `OpenPart`, `WriteRest`, `Sync`, `Commit`, and `Unlock` with the answer;
  `PutFails` is any failing call in between. The two SELECTs of `Lookup` and
  the opening and the first write of `OpenPart` are one step each: the locks
  keep everybody away who could tell.
- `writer` says where the complete, the finalize and the expire call of a job
  are; `todo` is what the sweep has listed and not looked at yet.
- `cache` and `disk` are the chunks of the input file as `read` sees them and as
  a power failure leaves them; `Sync` copies the whole file, also what another
  PUT has half-written. `Crash` leaves each unsynced chunk old, new or torn,
  and may lose a file of which nothing was synced.
- `rows` has a content for the checksum of a chunk row; SHA-256 is taken to be
  injective. `received` stands for `received` and `chunks`, which one statement
  moves together.
- Requests with a wrong length or an unknown chunk are refused before anything
  changes and are left out. The steps of `fail` and of the probe are in
  `Processing`; here each is one. `FinalizeFails` is `fail` with what may fail in
  it: its UPDATE, whose error it ignores, so that the job stays what it was, and
  the removal of the directory, which is only logged (`CleanUp`), as in the sweep
  and in recovery.
- `STAGED` stands for STAGED, PROBING and VALIDATED; `writer` tells a job that is
  being probed (`probe`) from one that was left in these states. Only of the
  first, and of what is queued, does `QueuedInputWhole` say that the file is there.

### Compression, JobSpec, Conversion

- `Compression` has one operator per function of compression.go, with its name
  and its integer divisions. A probe is the list of streams ffprobe reports,
  with the rotations in the order the code looks at them; a size, a duration or
  a rate that cannot be parsed is 0, as in the code.
- `JobSpec` is `normalize`: presets and tables of containers, codecs, encoders
  and CRF ranges, `merge` field by field. A request's output is the function of
  its given fields, because an absent number and a zero differ only there.
- `Conversion` runs one job: `Create` normalises and stores the request, `Probe`
  validates what ffprobe reports, `Start(present)` is a run that finds the
  devices `present`, which may differ each time, and `Launch` is one turn of its
  encoder loop. `commands` collects the FFmpeg command lines built so far, each with its
  rates, quality, filter, audio, container and encoder. `Frame` is what FFmpeg's
  scale filter makes of the source: `force_original_aspect_ratio` and
  `force_divisible_by` by their definition in FFmpeg, mapped as external.
- `stderr` is the `boundedBuffer` that keeps the beginning of what FFmpeg writes:
  how much it holds, whether it says that more was written, and whether any
  write came back short.

### UploadClient

- A run is `upload_file`, a subshell of the main loop; `run[r].pc` is where it
  stands, and it holds the `flock` of its session from `Lock` until it ends. The
  session is the checksum of the content the run found.
- A state file is reduced to the idempotency key in it: `visible` is what a
  process reads, `durable` what a power failure leaves. `write_state` is
  `Write`, which syncs the file system and renames, and `Sync`, which syncs it
  again; a power failure keeps or undoes each rename that was not synced. Jobs are
  named by their keys; the id that is written beside the key is a function of it.
- `Create`, `Status`, `Remove`, `List`, `StartPut`, `AnswerPut`, `WaitPuts` and
  `Complete` are the functions of the script from `create_or_discover_job` to
  `complete_job`. Up to `UPLOAD_PARALLELISM` PUTs of a batch are in flight; each
  cuts its chunk from the file as it is then (`body`).
- A request is handled and answered in one step, or is left behind in `late`:
  the run was told that it failed (`PutFails`), or was killed (`Stop`,
  `PowerLoss`), or curl tries again (`Retry`), and the server may still get it
  later (`Deliver`). Losing the answer of a handled request is `Retry`, then the
  answer to the repetition.
- `Created`, `Stored` and `Taken` are the three handlers by what they make of a
  job; `Admit`, `Process`, `GiveUp` and `Expire` what else the server does.
  Waiting is PENDING, Receiving is ADMITTED and UPLOADING, Processing everything
  from FINALIZING to TRANSCODING.
- `adopted` remembers the one case in which a job can be lost from sight: a run
  is killed between the rename of a new state file and its sync, the next run
  finds the name and relies on it, and then the power fails. The script cannot
  tell such a file from one that is on disk.

## Runs

| run | question |
|---|---|
| `AdmissionCrash` | the safety of capacity, disk, spool, order and lifecycle, with a crash, a failing call and a changed configuration |
| `AdmissionLive` | is the first waiting job admitted when it fits? |
| `AdmissionTight` | ... also on a disk without spare room? No: see the first finding |
| `AdmissionLeak` | does all capacity come back after a crash? No |
| `ProcessingCrash` | slots, outputs, inputs and finished jobs, through two crashes or lost databases and a failing call |
| `ProcessingSlots` | is a free slot used, and does a complete upload settle? |
| `ProcessingStuck` | ... also after a crash? No |
| `UploadCrash` | what happens to a chunk and to the whole input, with overlapping, repeated and differing PUTs, failing calls and a power failure |
| `UploadLive` | is every request answered, and does every finalize and sweep end? |
| `Conversion` | can every accepted request be built, does each command line ask for what request and plan say, and does the plan keep its budget and frame? |
| `ConversionEnlarge` | does a fit without `upscale` leave small sources alone? No |
| `UploadClient` | is a job found again after kills, power failures and late requests, is nothing verified sent twice, is success true, and does starting the script again end the upload? |

**Bounds.** Two jobs, one a chunk long and one two, are the least that compete:
on a capacity or disk of two either fits alone and they do not fit together.
`Stamps` gives each creation a different instant. `MaxScans` 2 bounds the
goroutines waiting for `admissionMu`; a waiter starts its scan after everything
that woke it, so more waiters find nothing that two do not. One crash and one
fault per behaviour can fall on any step, also the fault on a step of the
recovery after the crash. `ProcessingCrash` allows two incidents so that a job
can be interrupted, run again and be interrupted or forgotten again.
`ProcessingSlots` has three jobs for two slots.
`UploadCrash` has two handlers, the least that overlap, on a job of two chunks,
so that one chunk is synced while the other is half-written; the bodies are the
declared one, a damaged one and another with a checksum of its own, and a client
may send any of them again and again. There is one complete call at a time: a
second one waits for the same lock. Jobs share nothing but stripes, and a
stripe only makes them wait like the requests of one job, so one job is enough.
`UploadLive` has the same handlers and writers on a job of one chunk. What these bounds
could still hide of the safety of `Admission`, `Processing`, `Upload` and
`UploadClient` is covered by the proofs, which have none.
`Conversion` is checked on requests that use each field alone, and every codec,
quality and frame against two presets; on sizes at the floors of the budget, at
the tiers and at the ceiling; and on frames of either orientation, odd, square,
very long, rotated or empty. `FramesFit`, an assumption of its instance,
compares the planner's frame and FFmpeg's for every pair of sides around the
boundaries. Durations are eight seconds, so that a size is a rate. One restart
is enough to change the devices; `StderrLimit` 2 is met exactly, inside a write
and after it.
`UploadClient` has two runs, a file of three chunks sent two at a time, so that
there is a second batch; four keys, one more than expiries and power failures
can use up; two faults of any kind, and one request nobody waits for. Its two
contents have the same size; runs of different sessions share nothing but the
file, so that runs at the same time have one session there (`Overlap`).

Deadlock is checked in `UploadClient`, whose script can always be started again,
and not in the others: when no client asks for anything and every job is
over, the server has nothing to do.

**Fairness.** `Admission` assumes weak fairness of the goroutines that are
inside `admitPending`, `expireUploads`, `fail` and recovery: nothing blocks
them but the database. Starting to hold `admissionMu` is strongly fair: another
goroutine may take the mutex in between, but a Go mutex hands over to a waiter
that starves. `GcStart` is included because the ticker keeps firing. Clients,
the clock, FFmpeg and whoever restarts a crashed server owe nothing.
`Upload` assumes that a begun handler goes on: statements and system calls
return, and `ReadTimeout` ends every body (main.go:153). `RLock`, `Lock` and the
chunk lock are strongly fair, as Go's mutexes hand over to a waiter that starves
and an RWMutex lets neither side overtake the other for ever. That finalize ends
includes that ffprobe does.
`UploadClient` assumes that the script is started again and again, which
is what README.md of the repository tells its user to do; that a run which has its lock goes
on, and that some run which waits for a lock gets it (nothing more: `flock` has
no queue); that the server admits, verifies and transcodes. Every fault counts
against a bound, so that from some point on there are none.
`Processing` assumes the same of `schedule`, `finalize`, `run` and `fail`.
That FFmpeg and ffprobe end is no assumption of `FairSpec`, as no timeout of
main.go ends them: it appears where a property needs it, in
`SettlesUninterrupted` and, with a supervisor that restarts the server, in
`EndingSpec`. The fair runs have no failing statements: admission and
scheduling give up on a failing SELECT and are not started again until
something else happens.

**What the violations show.**

1. `AdmissionTight`: `fail` and `run` release the reservation, and so start
   `admitPending`, before they remove the input (main.go:1131, 1028). The scan
   can find the disk still full; the removal wakes nobody. `AdmissionLive`
   shows that a disk with room for such inputs is enough.
2. `AdmissionLeak`: `release` commits its three statements one by one
   (main.go:1136-1143). A crash after the first leaves capacity reserved that
   no job holds, and nothing recomputes it.
3. `ProcessingStuck`: `recover` resumes `FINALIZING`, `STARTING` and
   `TRANSCODING`; a job interrupted in `STAGED`, `PROBING` or `VALIDATED` stays
   there, with its reservation (main.go:737).
4. `ConversionEnlarge`: `scaleFilter` expresses a fit without `upscale` by
   `force_original_aspect_ratio=decrease` alone (main.go:1602). In FFmpeg that
   keeps the shape of the source within the box, and scales a smaller source up
   to it; api.go:121 says that enlarging defaults to false. The automatic
   resolution does not have this: its planner fits the frame itself (`AutoFrame`).

**Divergences without a run.** Met while modelling; each is a consequence of the
lines named, and none needs an interleaving to show.

- `normalize` compares a size with the configured capacity, `reservePending`
  with the stored one, which `schema` replaces only when nothing is reserved
  (main.go:161, 1471): after the capacity was raised under load an accepted job
  may be larger than what admission gives.
- `makeCgroup` refuses a directory that is already there (main.go:1446), so a
  requeued job fails when the cgroup of its interrupted run was not removed with
  the process.
- `ORDER BY created_at` compares texts from which RFC3339Nano has dropped
  trailing zeros, so `...0.5Z` sorts after `...0.55Z` (main.go:244, 634).
  `CreatedAt` models it. Two instants are misordered exactly when they lie within
  the digits dropped from the earlier one: `MCAdmission` checks it for two digits
  as an assumption, `TextOrder` proves it for up to nine. `FifoAdmission` is checked
  for instants whose texts sort as they do; `FifoUpToDropped` is what holds for all.
- Below about 320 kbps in all the floors of audio and video exceed the budget,
  and can exceed the source (compression.go:155-181, README.md:9 of the
  repository); `AutoBudget` says from where on it is kept (`BudgetSuffices`).
- An automatic resolution together with an explicit quality keeps the source's
  size (main.go:1193); api.go:110 describes the tiers without that condition.
- `force_divisible_by` works only with `force_original_aspect_ratio`: with
  `upscale: true`, or mode `source`, odd sides reach encoders of 4:2:0 video
  (main.go:1590). Sources of one or two pixels, or longer than 320:1, make
  frames without a side; `TargetWidth` may differ by a few pixels from FFmpeg's.
- `ffmpegCmd` and `fallbackAutoCompressionPlan` are called by tests only.
- README.md:190 of the repository says that the state is removed after
  COMPLETED; upload-directory.sh:300-303 keeps it.
- SIGINT and SIGTERM run the script's `cleanup` without an exit
  (upload-directory.sh:376): the main loop goes on without its work directory,
  and every further file gets a job whose creation is reported as failed. For
  each file that is a run that is stopped at its create request.
- `fail` ignores an error of its UPDATE and removes the input all the same
  (main.go:1130-1131). A job may then stay in a working state without its file:
  one that is FINALIZING fails at the next start, one that is STARTING or
  TRANSCODING is queued then and fails when it runs, and one that is STAGED,
  PROBING or VALIDATED stays so, as after a crash there (`ProcessingStuck`).
- A database that is lost and rebuilt by backfill has no idempotency keys, so
  that a script that is started again makes a second job.

## Proofs

Constants are arbitrary: any finite sets of jobs, handlers, runs and chunks, any
sizes, capacities, contents and bounds that satisfy the assumptions in the
modules.

*Safety* (`AdmissionProofs`). `CapacityCovers`, `NoOvercommit` and
`UploadNeedsSpool` are not inductive alone. The invariant carried through every
step is

    IInv == TypeOK /\ Discipline /\ CapacityCovers /\ NoOvercommit
              /\ UploadNeedsSpool /\ AdmitHasSpool

`Discipline` says who can be at work on what: one holder of `admissionMu`;
`fail` and `release` only for a job that is processed, over, or handed over by
`admitPending`, which waits for them. Without it a reservation could be
released and expired at once. `CapacityCovers` counts `Held`: what rows
reserve, and what `release` has taken from a row and not yet from the capacity.
Each step moves cells between these sets, and the lemmas about `Cells` bound
the sizes. `AdmitHasSpool` connects `prepareInput` to the publication of the job.
The theorems are `Typing`, `CapacitySafe`, `DiskSafe`, `UploadsBacked`.
`CapacityExact` adds `ExactCapacity` to the invariant: each step takes from the
capacity row as many cells as it takes from `Held`, and the bound of
`CapacityCovers` shows that SQL's `MAX(..,0)` never cuts anything off.

*Processing* (`ProcessingProofs`), for any jobs and slots, and any number of
crashes, lost databases and failing statements. The invariant is

    IInv == TypeOK /\ (\A j \in Jobs : JobKnown(j))
              /\ ActiveBound /\ TokenKept /\ NobodyDown

`JobKnown` reads off the program counter of a job's goroutine which states the
row can have (`RowKnown`), what of the artifact and the manifest is there
(`OutputKnown`), and where the input is (`InputKnown`). Without the first, a
`schedule` could take a job whose goroutine is still at work. `ActiveBound` counts
the tokens by the jobs whose goroutine holds one; `TokenKept` says that
the slot `schedule` has seen free is free until it takes it. The theorems are
`WellFormed`, `TokensTrue`, `DeliveredKept`, `Repeatable`, and for steps
`NeverTwice` and `FinalForGood`. `ClientsSeeLifecycle` implements `JobLifecycle`
(see below): `RowKnown` says from which states a statement without a condition on
the state, such as `fail`'s, can move a row. It is about steps with the server up
before or after; a lost database and backfill, with the server down, make jobs
vanish and reappear.

*Upload* (`UploadProofs`), for any handlers, jobs, chunks, contents and stripes.
The invariant is the types and, for each PUT, what it may rely on at its program
counter: which locks it holds (`LocksKnown`), what it has read of its chunk's row
and what it has written of the chunk (`ChunkKnown`), and that job and file are
still what they were when it took the lock (`FileKnown`); for each job the same
of complete, finalize and expire (`JobKnown`); and `VerifiedDurable` and
`CountersAgree`, which need all of this. What `JobKnown` says of the file depends on
who is at work: `finalize` finds it from its rename on, and so does whoever takes a
job from the queue, but no state before QUEUED promises it, since `fail` may
remove it and leave the state. That a PUT and a writer of one job are
never both past their locks, and two PUTs of one chunk neither, carries the
argument. The theorems are `WellFormed`, `ChunksDurable`, `CountersTrue`,
`WritesInside`, `WholeQueued`, `AckedKept`, and for steps `QuietExpires`.
`ClientsSeeLifecycle` implements `JobLifecycle`, all steps included.

*Conversion* (`ConversionProofs`), for any requests and probes, whatever devices each
start finds, and for any limits. The stored specification is one that `normalize` accepts and nothing
changes it, and the plan is computed again from the same probe; so every command
line in `commands` is the same but for its encoder (`CommandKnown`). The encoders
tried so far are a prefix of a list that ends in software. The theorems are
`NothingUnbuildable`, `SoftwareTried`, `OnePlan` and `StderrBounded`.

*Planner* (`PlannerProofs`), about the operators alone. The provers know a
quotient by two inequalities (`Quotient`), so every rounding is bounded by what
it can lose. `WithinBudget`: for any size, any duration of whole seconds and
any audio rate a request may have, a plan that encodes, as its command line
rounds it, stays with its audio and the container's overhead within 85% of the
source on average, 95% at most, and within the ceiling, wherever the target has
room for the floors; and audio is cut only as far as video needs its own.
`FrameFitted`: for a source of any shape that can be
scaled down at all and any total, the frame FFmpeg makes in the planner's bounds
lies within source and box, and comes close to one of them. Its cases are the
source that is kept, the box met at its short side and the box met at its long
side; in the last two FFmpeg rounds a bound that the planner has rounded
before, to a neighbouring even number at most.

*Requests* (`ConversionRequestProofs`), for any requests, reports of ffprobe,
limits, devices and restarts. `AsRequested` compares command lines, field by
field, with the request, which `run` does not read: it has `jobs.spec` and what
it computes. The invariant adds to that of `ConversionProofs` what connects the
two,

    AskedInv == IInv /\ RequestKnown /\ ListKnownAsked /\ OutcomeKnown
                  /\ \A c \in commands : CommandAsked(c)

`RequestKnown` says that the stored specification is the normal form of an
accepted request, and that what is queued or has been run has a probe that was
validated; `ListKnownAsked` that every encoder of a run's list is one the
specification allows, and that copying is on the list only of a plan that
copies; `CommandAsked` what follows for a command line. `AskedInvariance` proves
it, `WellFormed` and `Obeyed` follow; `BudgetSafe`, `FrameSafe` and `CopySafe` follow
with the arithmetic of `PlannerProofs`. The proofs assume that a request's size
is an integer, and a report's streams are a list of names, integer sides and
rotations, as the types guarantee that `json.Unmarshal` fills; and that durations
are whole seconds, which is the model's (`ConversionAssumption`). Sides may be
zero or negative.

*Upload client* (`UploadClientProofs`), for any runs, contents, chunks, keys and
parallelism, any number of faults and of late requests, and with runs of
different sessions at the same time. The invariant is

    IInv == Typing /\ Exclusive /\ RunsKnow /\ LateKnown
              /\ JobsNamed /\ CompletedWhole /\ AckedKept

`Exclusive`: runs of one session do not hold its lock together. `RunsKnow` says
what the holder of the lock may rely on: the state file has its key, durably
once a job can exist for it (`FileKnown`); its job has its checksum, and what
was listed as missing or is in flight includes what is still missing
(`JobKnown`). `LateKnown` says the same of requests nobody waits for, without
which a create that arrives late could make a second job. `JobsNamed` is
`Rediscovered`. That other processes do not spoil what a run knows is one lemma
(`Bystander`), from the fact that jobs only become more (`Grows`). The theorems
are `WellFormed`, `KeysRediscovered`, `CompleteAsked`, and for steps `DoneIsDone`
and `NeverResent`.

*Order, clean-up, refinement* (`AdmissionOrderProofs`). FIFO rests on `Order`: who
was seen waiting has the smaller instant, and the text of the job being admitted
sorts first among those still waiting. From that `FifoByText` has for any texts
that no job is admitted over one that was seen waiting and sorts before it. What
the texts make of it is a chain of lemmas about digits: an instant is what its
printed digits say, times the weight of the last (`KeptWhole`), the first place where two
instants differ orders them (`FirstDifference`), and the character after the last
digit printed decides when they agree so far (`SortsSwapped`). `TextOrder` puts
them together: texts sort like instants t < u exactly when u - t is at least
`Grain(t)`, the weight of t's last printed digit, and the other way round
otherwise. So `FifoUpToDropped` has FIFO order for any instants that far apart,
and `SecondsApart` says that instants of different seconds always are. `Fifo` is
`FifoAdmission` itself, under `InTimeOrder`, which says that the instants are ones
whose texts sort as they do. `InputsRemoved` rests on `Swept`: a file of
a job that is over has a goroutine about to remove it, or the server is not up
yet. `Refinement` maps every step to a step or a stutter of `JobLifecycle`. There a
step moves one job at most, since `Admission` has recovery job by job; in
`Processing` and `Upload` a restart moves all of them at once, so that each job
by itself is mapped to a `JobLifecycle` of one job. These two start with jobs that
are being received, and have the steps of the lifecycle from there on.

Only model-checked: the liveness properties (`NoStarvation`, `SlotsUsed`,
`SettlesUninterrupted`, `Answered`, `Delivered`), which are out of the prover's
reach. Every other property of a passing run is stated by a theorem.

## Not modelled

- The lifecycle locks in `Admission`: `expireUpload` and the upload handlers
  are single transactions there, and their steps are in `Upload`. The wait of
  the sweep for a lifecycle lock while it holds `admissionMu` is in neither:
  `admitPending` takes no lifecycle lock, so the two cannot form a cycle.
- A rename or removal that a power failure undoes: `Upload` assumes that the
  file system keeps it once a later transaction is durable.
- Power loss that takes an artifact's unsynced data; `Crash` is a crash of the
  process, except that it may lose input files.
- Outputs on the spool's file system, or other programs using that disk;
  manifests or spool files edited by hand.
- The capacity that `importOutputManifest` gives back for an unfinished job.
- `fail` of two goroutines for one job at once: finalize and run exclude each
  other by the job's state, and admitPending only fails PENDING jobs.
- The walk of the upload script over its directory: files are independent, and
  a failing file does not stop the others. The server's loss of its database
  under a client.
- Fractions of a second in a duration: `inputTotalBitrate` divides in floating point,
  the model whole numbers.
- What FFmpeg does with a command line, except the frame its scale filter makes
  and whether it fails; `validateFilename` and the digits of checksums, which
  are one Boolean of a request.
- The parsing of environment variables; read handlers; the routing of log
  records; the API documentation and its generator; the demo client; the sandbox
  launchers and the deployment scripts: no state that interacts.

## Plan

1. The capacity that `importOutputManifest` gives back, and a power failure
   that takes an artifact's unsynced data, in `Processing`.
2. A composition of `Admission` with `Processing`, which have the capacity and the
   single statements of a run apart.
