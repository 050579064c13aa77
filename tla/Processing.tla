------------------------------ MODULE Processing ------------------------------
(***************************************************************************)
(* What happens to an upload once it is complete: finalize, probeAndQueue, *)
(* schedule and run of main.go, the output directory they fill, the crash  *)
(* and recovery of all that, and the backfill command of manifest.go that  *)
(* rebuilds job rows from output manifests while the server is down.       *)
(*                                                                         *)
(* Every job has at most one goroutine at work, finalize or run; pc says   *)
(* where it is.  fail()'s release of the reservation is in Admission.      *)
(***************************************************************************)
EXTENDS Naturals, FiniteSets

CONSTANTS
  Jobs,          \* jobs whose input is completely uploaded
  NoJob,         \* no job
  CreatedRank,   \* order of the jobs by created_at
  Active,        \* MAX_ACTIVE_TRANSCODES
  MaxEncoders,   \* longest list videoEncoders can return
  UsesCgroup,    \* CGROUP_ROOT is set
  MaxIncidents,  \* bound on crashes and lost databases
  MaxFaults      \* bound on statements and system calls that fail

ASSUME ProcessingAssumption ==
  /\ IsFiniteSet(Jobs) /\ NoJob \notin Jobs /\ CreatedRank \in [Jobs -> Nat]
  /\ Active \in Nat \ {0} /\ MaxEncoders \in Nat \ {0} /\ UsesCgroup \in BOOLEAN
  /\ MaxIncidents \in Nat /\ MaxFaults \in Nat

VARIABLES
  \* survive a crash
  state,      \* jobs.state (ABSENT: no row)
  spool,      \* the job's input file: "part", renamed to "input", or "none"
  output,     \* the artifact under OUTPUT_DIR: "none", "partial", "whole"
  manifest,   \* manifest.json: "none", or whether it "matches" the artifact or "differs"
  cgroup,     \* the directory job-<id>: "none", "mine" (of the current run), "left"
  \* the process: lost in a crash
  phase,      \* "up" or "down"
  pc,         \* where the job's goroutine is
  left,       \* encoders run() has not ruled out yet
  sched,      \* the schedule() call holding scheduleMu
  waiting,    \* schedule() calls waiting for scheduleMu
  sem,        \* tokens in Server.sem
  \* environment
  delivered,  \* history: the job was COMPLETED at some time
  incidents, faults

files   == <<spool, output, manifest, cgroup>>
process == <<phase, pc, left, sched, waiting, sem>>
env     == <<delivered, incidents, faults>>
vars    == <<state, files, process, env>>

Terminal == {"COMPLETED", "FAILED", "EXPIRED"}

InProcess == {"FINALIZING", "STAGED", "PROBING", "VALIDATED", "QUEUED", "STARTING", "TRANSCODING"}

IdleSched == [pc |-> "idle", job |-> NoJob]

At(j, p)   == pc[j] = p
GoTo(j, p) == pc' = [pc EXCEPT ![j] = p]

\* One statement or system call fails.
Fault == faults < MaxFaults /\ faults' = faults + 1

\* UPDATE jobs SET state=to WHERE id=j AND state=from; nobody looks at the
\* number of rows.
UpdateWhere(j, from, to) == state' = IF state[j] = from THEN [state EXCEPT ![j] = to] ELSE state

RemoveSpool(j) == spool' = [spool EXCEPT ![j] = "none"]

\* The manifest describes an artifact that is being written or removed.
Outdate(j) == manifest' = [manifest EXCEPT ![j] = IF @ = "none" THEN "none" ELSE "differs"]

-----------------------------------------------------------------------------
(* finalize and probeAndQueue, under the job's lifecycle lock *)

\* POST complete: the row moves and finalize starts.
Complete(j) ==
  /\ phase = "up" /\ state[j] = "UPLOADING"
  /\ state' = [state EXCEPT ![j] = "FINALIZING"]
  /\ GoTo(j, "rename")
  /\ UNCHANGED <<files, phase, left, sched, waiting, sem, env>>

\* input.part becomes input, unless an interrupted finalize renamed it.
Rename(j) ==
  /\ At(j, "rename")
  /\ \/ /\ spool[j] # "none"
        /\ spool' = [spool EXCEPT ![j] = "input"]
        /\ GoTo(j, "hash") /\ UNCHANGED faults
     \/ spool[j] = "none" /\ GoTo(j, "giveUp") /\ UNCHANGED <<spool, faults>>
     \/ Fault /\ GoTo(j, "giveUp") /\ UNCHANGED spool
  /\ UNCHANGED <<state, output, manifest, cgroup, phase, left, sched, waiting, sem,
                 delivered, incidents>>

\* The row is read (an error leaves the job as it is), the file is hashed; it
\* may not be the declared input.
Hash(j) ==
  /\ At(j, "hash")
  /\ \/ UpdateWhere(j, "FINALIZING", "STAGED") /\ GoTo(j, "toProbing") /\ UNCHANGED faults
     \/ GoTo(j, "giveUp") /\ UNCHANGED <<state, faults>>
     \/ Fault /\ GoTo(j, "idle") /\ UNCHANGED state
  /\ UNCHANGED <<files, phase, left, sched, waiting, sem, delivered, incidents>>

\* An UPDATE of the pipeline; when it fails the job does.
Advance(j, from, to, at, next) ==
  /\ At(j, at)
  /\ \/ UpdateWhere(j, from, to) /\ GoTo(j, next) /\ UNCHANGED faults
     \/ Fault /\ GoTo(j, "giveUp") /\ UNCHANGED state
  /\ UNCHANGED <<files, phase, left, sched, sem, delivered, incidents>>

ToProbing(j) ==
  Advance(j, "STAGED", "PROBING", "toProbing", "probe") /\ UNCHANGED waiting

\* Mistake: a rejected report is not recorded.
ProbeUnreported(j) ==
  /\ At(j, "probe")
  /\ GoTo(j, "toValidated") \/ GoTo(j, "idle")
  /\ UNCHANGED <<state, files, phase, left, sched, waiting, sem, env>>

\* ffprobe: its report is accepted or not.
Probe(j) ==
  /\ At(j, "probe")
  /\ GoTo(j, "toValidated") \/ GoTo(j, "giveUp")
  /\ UNCHANGED <<state, files, phase, left, sched, waiting, sem, env>>

ToValidated(j) ==
  Advance(j, "PROBING", "VALIDATED", "toValidated", "toQueued") /\ UNCHANGED waiting

\* Queued; then schedule() is called.
ToQueued(j) ==
  /\ Advance(j, "VALIDATED", "QUEUED", "toQueued", "idle")
  /\ waiting' = IF pc'[j] = "idle" THEN waiting + 1 ELSE waiting

-----------------------------------------------------------------------------
(* schedule: one call at a time, under scheduleMu *)

SchedStart ==
  /\ waiting > 0 /\ sched = IdleSched
  /\ waiting' = waiting - 1
  /\ sched' = [IdleSched EXCEPT !.pc = "scan"]
  /\ UNCHANGED <<state, files, phase, pc, left, sem, env>>

Queued == {j \in Jobs : state[j] = "QUEUED"}

\* SELECT id ... WHERE state=QUEUED ORDER BY created_at LIMIT 1
First(Q) == {j \in Q : \A k \in Q : CreatedRank[j] <= CreatedRank[k]}

\* Mistake: one worker too many.
SlotMiscounted == sem <= Active

SlotFree == sem < Active

SchedScan ==
  /\ sched.pc = "scan"
  /\ \/ \E j \in First(Queued) : SlotFree /\ sched' = [pc |-> "claim", job |-> j] /\ UNCHANGED faults
     \/ (Queued = {} \/ ~SlotFree) /\ sched' = IdleSched /\ UNCHANGED faults
     \/ SlotFree /\ Fault /\ sched' = IdleSched
  /\ UNCHANGED <<state, files, phase, pc, left, waiting, sem, delivered, incidents>>

\* Mistake: the claim is not recorded in the row.
ClaimUnrecorded ==
  /\ sched.pc = "claim"
  /\ sem' = sem + 1
  /\ GoTo(sched.job, "load")
  /\ sched' = [IdleSched EXCEPT !.pc = "scan"]
  /\ UNCHANGED <<state, files, phase, left, waiting, env>>

\* UPDATE ... WHERE state=QUEUED, a token, and go run(job).
SchedClaim ==
  /\ sched.pc = "claim"
  /\ LET j == sched.job IN
       \/ /\ state[j] = "QUEUED"
          /\ state' = [state EXCEPT ![j] = "STARTING"]
          /\ sem' = sem + 1
          /\ GoTo(j, "load")
          /\ sched' = [IdleSched EXCEPT !.pc = "scan"]
          /\ UNCHANGED faults
       \/ Fault /\ sched' = IdleSched /\ UNCHANGED <<state, sem, pc>>
  /\ UNCHANGED <<files, phase, left, waiting, delivered, incidents>>

-----------------------------------------------------------------------------
(* run: one worker per token *)

\* The row is read; if that fails the worker leaves, and the row stays STARTING.
RunLoad(j) ==
  /\ At(j, "load")
  /\ \/ GoTo(j, "cgroup") /\ UNCHANGED faults
     \/ Fault /\ GoTo(j, "leave")
  /\ UNCHANGED <<state, files, phase, left, sched, waiting, sem, delivered, incidents>>

\* makeCgroup: Mkdir refuses a directory that is already there.
MakeCgroup(j) ==
  /\ At(j, "cgroup")
  /\ \/ ~UsesCgroup /\ GoTo(j, "mark") /\ UNCHANGED <<cgroup, faults>>
     \/ /\ UsesCgroup /\ cgroup[j] = "none"
        /\ cgroup' = [cgroup EXCEPT ![j] = "mine"] /\ GoTo(j, "mark")
        /\ UNCHANGED faults
     \/ UsesCgroup /\ cgroup[j] = "left" /\ GoTo(j, "fail") /\ UNCHANGED <<cgroup, faults>>
     \/ /\ UsesCgroup /\ cgroup[j] = "none" /\ Fault        \* after Mkdir
        /\ cgroup' = [cgroup EXCEPT ![j] = "left"] /\ GoTo(j, "fail")
  /\ UNCHANGED <<state, spool, output, manifest, phase, left, sched, waiting, sem,
                 delivered, incidents>>

\* UPDATE jobs SET state=TRANSCODING, whatever it was.
MarkTranscoding(j) ==
  /\ At(j, "mark")
  /\ \/ state' = [state EXCEPT ![j] = "TRANSCODING"] /\ GoTo(j, "plan") /\ UNCHANGED faults
     \/ Fault /\ GoTo(j, "fail") /\ UNCHANGED state
  /\ UNCHANGED <<files, phase, left, sched, waiting, sem, delivered, incidents>>

\* The encoders to try: all but the last are hardware encoders.  No plan, or a
\* requested device that is missing, fails the job.
Plan(j) ==
  /\ At(j, "plan")
  /\ \/ GoTo(j, "encode") /\ \E n \in 1 .. MaxEncoders : left' = [left EXCEPT ![j] = n]
     \/ GoTo(j, "fail") /\ UNCHANGED left
  /\ UNCHANGED <<state, files, phase, sched, waiting, sem, env>>

\* FFmpeg, which finds no input if the file has not been renamed or is gone.
EncodeSucceeds(j) ==
  /\ At(j, "encode") /\ spool[j] = "input"
  /\ output' = [output EXCEPT ![j] = "whole"]
  /\ Outdate(j)
  /\ GoTo(j, "manifest")
  /\ UNCHANGED <<state, spool, cgroup, phase, left, sched, waiting, sem, env>>

\* Mistake: one encoder more than the list has.
HasNextOffByOne(j) == left[j] >= 1

HasNext(j) == left[j] > 1

\* It fails before or after it has begun the artifact; a hardware encoder has
\* a successor in the list.
EncodeFails(j) ==
  /\ At(j, "encode")
  /\ \/ output' = [output EXCEPT ![j] = "partial"] /\ Outdate(j)
     \/ UNCHANGED <<output, manifest>>
  /\ left' = [left EXCEPT ![j] = @ - 1]
  /\ GoTo(j, IF HasNext(j) THEN "fallback" ELSE "fail")
  /\ UNCHANGED <<state, spool, cgroup, phase, sched, waiting, sem, env>>

Fallback(j) ==
  /\ At(j, "fallback")
  /\ \/ /\ output' = [output EXCEPT ![j] = "none"] /\ Outdate(j)
        /\ GoTo(j, "encode") /\ UNCHANGED faults
     \/ Fault /\ GoTo(j, "fail") /\ UNCHANGED <<output, manifest>>
  /\ UNCHANGED <<state, spool, cgroup, phase, left, sched, waiting, sem, delivered, incidents>>

\* writeOutputManifest: when it fails the new file may be in place already.
WriteManifest(j) ==
  /\ At(j, "manifest")
  /\ \/ /\ manifest' = [manifest EXCEPT ![j] = "matches"]
        /\ GoTo(j, "record") /\ UNCHANGED faults
     \/ /\ Fault /\ GoTo(j, "fail")
        /\ manifest' = [manifest EXCEPT ![j] = "matches"] \/ UNCHANGED manifest
  /\ UNCHANGED <<state, spool, output, cgroup, phase, left, sched, waiting, sem,
                 delivered, incidents>>

Deliver(j) == delivered' = [delivered EXCEPT ![j] = TRUE]

\* UPDATE jobs SET state=COMPLETED, whatever it was.
RecordCompleted(j) ==
  /\ At(j, "record")
  /\ \/ /\ state' = [state EXCEPT ![j] = "COMPLETED"] /\ Deliver(j)
        /\ GoTo(j, "uncgroup") /\ UNCHANGED faults
     \/ Fault /\ GoTo(j, "fail") /\ UNCHANGED <<state, delivered>>
  /\ UNCHANGED <<files, phase, left, sched, waiting, sem, incidents>>

\* Deferred in run: cgroup.cleanup, cleanupSpool, the token, schedule().
RemoveCgroup(j) ==
  /\ At(j, "uncgroup")
  /\ \/ /\ cgroup' = [cgroup EXCEPT ![j] = IF @ = "mine" THEN "none" ELSE @]
        /\ UNCHANGED faults
     \/ /\ cgroup[j] = "mine" /\ Fault
        /\ cgroup' = [cgroup EXCEPT ![j] = "left"]
  /\ GoTo(j, "cleanup")
  /\ UNCHANGED <<state, spool, output, manifest, phase, left, sched, waiting, sem,
                 delivered, incidents>>

\* Mistake: the next job is not looked for.
LeaveQuietly(j) ==
  /\ At(j, "leave")
  /\ GoTo(j, "idle")
  /\ sem' = sem - 1
  /\ UNCHANGED <<state, files, phase, left, sched, waiting, env>>

Leave(j) ==
  /\ At(j, "leave")
  /\ GoTo(j, "idle")
  /\ sem' = sem - 1
  /\ waiting' = waiting + 1
  /\ UNCHANGED <<state, files, phase, left, sched, env>>

-----------------------------------------------------------------------------
(* fail(), called by finalize ("giveUp") and by run ("fail"), and cleanupSpool *)

\* An error of the UPDATE is ignored.
RecordFailed(j) ==
  /\ pc[j] \in {"giveUp", "fail"}
  /\ \/ /\ state' = IF state[j] \in {"COMPLETED", "FAILED"} THEN state
                    ELSE [state EXCEPT ![j] = "FAILED"]
        /\ UNCHANGED faults
     \/ Fault /\ UNCHANGED state
  /\ GoTo(j, IF At(j, "giveUp") THEN "drop" ELSE "dropInput")
  /\ UNCHANGED <<files, phase, left, sched, waiting, sem, delivered, incidents>>

AfterCleanup == [drop |-> "idle", dropInput |-> "uncgroup", cleanup |-> "leave"]

CleanupSpool(j) ==
  /\ pc[j] \in DOMAIN AfterCleanup
  /\ \/ RemoveSpool(j) /\ UNCHANGED faults
     \/ Fault /\ UNCHANGED spool
  /\ GoTo(j, AfterCleanup[pc[j]])
  /\ UNCHANGED <<state, output, manifest, cgroup, phase, left, sched, waiting, sem,
                 delivered, incidents>>

-----------------------------------------------------------------------------
(* Crash, recovery, backfill *)

Incident == incidents < MaxIncidents /\ incidents' = incidents + 1

\* The process dies and FFmpeg with it.  Whether cgroup directories outlive
\* the restart is up to the supervisor.
Crash ==
  /\ phase = "up" /\ Incident
  /\ phase' = "down"
  /\ pc' = [j \in Jobs |-> "idle"] /\ left' = [j \in Jobs |-> 0]
  /\ sched' = IdleSched /\ waiting' = 0 /\ sem' = 0
  /\ \E kept \in SUBSET {j \in Jobs : cgroup[j] # "none"} :
       cgroup' = [j \in Jobs |-> IF j \in kept THEN "left" ELSE "none"]
  /\ UNCHANGED <<state, spool, output, manifest, delivered, faults>>

\* Mistake: failed jobs are tried again.
InterruptedOrFailed == {"STARTING", "TRANSCODING", "FAILED"}

Interrupted == {"STARTING", "TRANSCODING"}

\* Mistake: a transcode that starts over is thought to need no input.
RemovableAll == Terminal \cup Interrupted \cup {"ABSENT"}

\* Jobs whose spool directory cleanupTerminalSpools removes.
Removable == Terminal \cup {"ABSENT"}

\* recover(): inputs of jobs that are over, or unknown, are removed;
\* interrupted transcodes are queued again, finalize starts over, and the
\* queue is looked at.
Restart ==
  /\ phase = "down"
  /\ phase' = "up"
  /\ \/ /\ spool' = [j \in Jobs |-> IF state[j] \in Removable THEN "none" ELSE spool[j]]
        /\ UNCHANGED faults
     \/ Fault /\ UNCHANGED spool
  /\ state' = [j \in Jobs |-> IF state[j] \in Interrupted THEN "QUEUED" ELSE state[j]]
  /\ pc' = [j \in Jobs |-> IF state[j] = "FINALIZING" THEN "rename" ELSE "idle"]
  /\ waiting' = waiting + 1
  /\ UNCHANGED <<output, manifest, cgroup, left, sched, sem, delivered, incidents>>

\* jobs.sqlite is lost.
LoseDatabase ==
  /\ phase = "down" /\ Incident
  /\ state' = [j \in Jobs |-> "ABSENT"]
  /\ UNCHANGED <<files, process, delivered, faults>>

\* Mistake: the checksum of the artifact is not verified.
HasManifest(j) == manifest[j] # "none"

\* validateManifestArtifact
Valid(j) == manifest[j] = "matches"

\* backfill imports a manifest: a row that is not COMPLETED is inserted or
\* overwritten, whatever its state.
Backfill(j) ==
  /\ phase = "down" /\ Valid(j) /\ state[j] # "COMPLETED"
  /\ state' = [state EXCEPT ![j] = "COMPLETED"]
  /\ Deliver(j)
  /\ UNCHANGED <<files, process, incidents, faults>>

-----------------------------------------------------------------------------
Init ==
  /\ state    = [j \in Jobs |-> "UPLOADING"]
  /\ spool    = [j \in Jobs |-> "part"]
  /\ output   = [j \in Jobs |-> "none"]
  /\ manifest = [j \in Jobs |-> "none"]
  /\ cgroup   = [j \in Jobs |-> "none"]
  /\ phase    = "up"
  /\ pc       = [j \in Jobs |-> "idle"]
  /\ left     = [j \in Jobs |-> 0]
  /\ sched    = IdleSched
  /\ waiting = 0 /\ sem = 0
  /\ delivered = [j \in Jobs |-> FALSE]
  /\ incidents = 0 /\ faults = 0

FinalizeStep(j) == Rename(j) \/ Hash(j) \/ ToProbing(j) \/ ToValidated(j) \/ ToQueued(j)

SchedStep == SchedStart \/ SchedScan \/ SchedClaim

RunStep(j) ==
  \/ RunLoad(j) \/ MakeCgroup(j) \/ MarkTranscoding(j) \/ Plan(j) \/ Fallback(j)
  \/ WriteManifest(j) \/ RecordCompleted(j) \/ RemoveCgroup(j) \/ Leave(j)

FailStep(j) == RecordFailed(j) \/ CleanupSpool(j)

\* FFmpeg and ffprobe
Encode(j) == EncodeSucceeds(j) \/ EncodeFails(j)

Next ==
  \/ SchedStep \/ Crash \/ Restart \/ LoseDatabase
  \/ \E j \in Jobs : \/ Complete(j) \/ FinalizeStep(j) \/ Probe(j) \/ RunStep(j)
                     \/ Encode(j) \/ FailStep(j) \/ Backfill(j)

Spec == Init /\ [][Next]_vars

(* Goroutines that can take a step take it.  FFmpeg and ffprobe are other  *)
(* processes, which no timeout of main.go ends, and a restart is the       *)
(* supervisor's: what they owe is stated apart.                            *)
Fairness ==
  /\ WF_vars(SchedStep)
  /\ \A j \in Jobs : WF_vars(FinalizeStep(j)) /\ WF_vars(RunStep(j)) /\ WF_vars(FailStep(j))

FairSpec == Spec /\ Fairness

\* ... with tools that end and a supervisor that restarts the server.
ToolsEnd == /\ WF_vars(Restart)
            /\ \A j \in Jobs : WF_vars(Probe(j)) /\ WF_vars(Encode(j))

EndingSpec == FairSpec /\ ToolsEnd
-----------------------------------------------------------------------------
(* Correctness *)

AtRun == {"load", "cgroup", "mark", "plan", "encode", "fallback", "manifest", "record",
          "fail", "dropInput", "uncgroup", "cleanup", "leave"}
AtFinalize == {"rename", "hash", "toProbing", "probe", "toValidated", "toQueued",
               "giveUp", "drop"}

Running == {j \in Jobs : pc[j] \in AtRun}

\* Types of the variables.
TypeOK ==
  /\ state \in [Jobs -> InProcess \cup Terminal \cup {"UPLOADING", "ABSENT"}]
  /\ spool \in [Jobs -> {"part", "input", "none"}]
  /\ output \in [Jobs -> {"none", "partial", "whole"}]
  /\ manifest \in [Jobs -> {"none", "matches", "differs"}]
  /\ cgroup \in [Jobs -> {"none", "mine", "left"}]
  /\ phase \in {"up", "down"}
  /\ pc \in [Jobs -> AtRun \cup AtFinalize \cup {"idle"}]
  /\ left \in [Jobs -> 0 .. MaxEncoders]
  /\ sched \in [pc : {"idle", "scan", "claim"}, job : Jobs \cup {NoJob}]
  /\ sched.pc = "claim" => sched.job \in Jobs
  /\ waiting \in Nat /\ sem \in Nat
  /\ delivered \in [Jobs -> BOOLEAN]
  /\ incidents \in Nat /\ faults \in Nat

(* Tokens in Server.sem are workers at work, never more than                *)
(* MAX_ACTIVE_TRANSCODES: no return path of run() keeps one, no restart     *)
(* loses one, and requeued jobs do not overlap their earlier runs.          *)
ActiveBound == Cardinality(Running) = sem /\ sem <= Active

(* A job that was COMPLETED once keeps a whole artifact and the manifest    *)
(* that describes it ("a completed artifact always has the metadata needed  *)
(* to restore it", README:217): no later run, failure, crash, recovery or   *)
(* backfill touches them, also when the database is lost.                   *)
Deliverable ==
  \A j \in Jobs : delivered[j] => output[j] = "whole" /\ manifest[j] = "matches"

(* As long as no statement fails, the input of a job that is not over is on *)
(* disk, so that the run can be repeated from the beginning after a crash.  *)
InputKept ==
  faults = 0 => \A j \in Jobs :
    /\ state[j] = "FINALIZING" => spool[j] # "none"
    /\ state[j] \in InProcess \ {"FINALIZING"} => spool[j] = "input"

(* A goroutine is started for a job only when none is at work for it:       *)
(* schedule, complete and recover never give one job to two.                *)
OneGoroutine ==
  [][\A j \in Jobs : (pc'[j] # pc[j] /\ pc'[j] \in {"load", "rename"}) => pc[j] = "idle"]_vars

(* A job that is over stays as it is, whoever still works for it; only      *)
(* backfill completes a failed one, only losing the database forgets one.   *)
OverIsOver ==
  [][\A j \in Jobs : (state[j] \in Terminal /\ state'[j] # state[j]) =>
        phase = "down" /\ state'[j] \in {"COMPLETED", "ABSENT"}]_vars

(* A free slot and a queued job do not stay together: whichever of the      *)
(* scans, the worker leaving and the job arriving comes last sees both.     *)
IdleSlot == phase = "up" /\ SlotFree /\ Queued # {}
SlotsUsed == IdleSlot ~> ~IdleSlot

(* "The server verifies the whole input SHA-256, runs sandboxed ffprobe,    *)
(* validates media limits, and queues the job" (README:239): an upload that *)
(* is complete does not stay short of the queue for ever.                   *)
Verifying == {"FINALIZING", "STAGED", "PROBING", "VALIDATED"}
Settles == \A j \in Jobs : state[j] \in Verifying ~> state[j] \notin Verifying

(* The same, where ffprobe ends and nothing interrupts the server.          *)
SettlesUninterrupted ==
  (\A j \in Jobs : WF_vars(Probe(j))) => Settles
=============================================================================
