---------------------------- MODULE UploadClient ----------------------------
(***************************************************************************)
(* scripts/upload-directory.sh on one file: several runs of the script, on *)
(* a file that may change under them, with the state files through which a *)
(* later run finds the job of an earlier one, against the server of        *)
(* main.go reduced to the answers the script acts upon.                    *)
(*                                                                         *)
(* A run is upload_file(), a subshell: the main script continues with the  *)
(* next file however it ends.  A state file holds, of what the script      *)
(* reads back, an idempotency key; the server's job is named by its key.   *)
(***************************************************************************)
EXTENDS Naturals, FiniteSets

CONSTANTS
  Runs,         \* processes that run the script on the file
  Contents,     \* what the file can be: each has its checksum, and so its session
  Original,     \* what it is at first
  Chunks,       \* chunk numbers
  Parallelism,  \* UPLOAD_PARALLELISM
  Keys,         \* idempotency keys
  None,         \* no key, no chunk, no job
  MaxFaults,    \* bound on killed runs, failing calls, power failures, expiries and
                \* changes of the file
  MaxLate,      \* bound on requests under way that nobody waits for
  Overlap       \* bound: do runs of different sessions overlap?

\* What the server has of a job, as far as the script can tell
Jobs == [sha    : Contents,
         stage  : {"Waiting", "Receiving", "Processing", "Completed", "Failed", "Expired"},
         chunks : [Chunks -> Contents \cup {None}]]

ASSUME UploadClientAssumption ==
  /\ Chunks \subseteq Nat /\ IsFiniteSet(Chunks) /\ Chunks # {}
  /\ Original \in Contents /\ Parallelism \in Nat \ {0} /\ None \notin Contents \cup Keys \cup Jobs
  /\ {MaxFaults, MaxLate} \subseteq Nat /\ Overlap \in BOOLEAN

VARIABLES
  \* the client's host
  file,      \* the content of the file
  visible,   \* the key in the state file of a session, or None
  durable,   \* the same, as a power failure leaves it
  run,       \* the runs of the script
  \* the server
  jobs,      \* the job of a key, or None
  late,      \* requests under way whose run was told they failed, or is gone
  \* history
  acked,     \* <<key, chunk>> answered with 200
  adopted,   \* a run relied on a state file that was not durable
  faults

disk    == <<visible, durable>>
history == <<acked, adopted, faults>>
vars    == <<file, disk, run, jobs, late, history>>

Idle == [pc |-> "idle"]
Done == [pc |-> "done"]

At(r, l) == run[r].pc = l

Goto(r, l) == run' = [run EXCEPT ![r].pc = l]

\* exit 1
Exit(r) == run' = [run EXCEPT ![r] = Idle]

Working(r) == run[r].pc \notin {"idle", "done"}

Session(r) == run[r].session
Key(r)     == run[r].key

-----------------------------------------------------------------------------
(* The server *)

\* Mistake: the request does not state the input's checksum.
Undeclared(c) == None

\* The checksum in the request.
Payload(c) == c

NewJob(sha) == [sha |-> sha, stage |-> "Waiting", chunks |-> [n \in Chunks |-> None]]

Verified(job) == {n \in Chunks : job.chunks[n] # None}

\* The same key creates no second job;
Created(m) == IF jobs[m.key] = None THEN NewJob(m.sha) ELSE jobs[m.key]

\* a chunk is kept once;
Stored(m) ==
  LET job == jobs[m.key] IN
  IF job.stage = "Receiving" /\ job.chunks[m.chunk] = None
  THEN [job EXCEPT !.chunks[m.chunk] = m.body] ELSE job

\* a complete upload is taken once.
Taken(m) ==
  LET job == jobs[m.key] IN
  IF job.stage = "Receiving" /\ Verified(job) = Chunks
  THEN [job EXCEPT !.stage = "Processing"] ELSE job

\* What a request makes of the job of its key
After(m) ==
  CASE m.kind = "create"   -> Created(m)
    [] m.kind = "put"      -> Stored(m)
    [] m.kind = "complete" -> Taken(m)

Handle(m) == jobs' = [jobs EXCEPT ![m.key] = After(m)]

\* 201, 200, 202; anything else is a refusal.
Accepted(m) ==
  CASE m.kind = "create"   -> After(m).sha = m.sha
    [] m.kind = "put"      -> After(m).chunks[m.chunk] = m.body
    [] m.kind = "complete" -> After(m).stage \in {"Processing", "Completed"}

-----------------------------------------------------------------------------
(* A run, up to its job *)

\* Mistake: runs do not exclude each other.
Unlocked(c) == TRUE

\* The flock of the session; a run holds it until it ends.
LockFree(c) == \A r \in Runs : ~(Working(r) /\ ~At(r, "lock") /\ Session(r) = c)

\* Unless they overlap, runs at the same time have the same session.  Those of
\* different sessions share no lock, no state file and no job.
OneSession == \A r \in Runs : Working(r) => Session(r) = file

\* The file's checksum names the session.
Begin(r) ==
  /\ ~Working(r) /\ (Overlap \/ OneSession)
  /\ run' = [run EXCEPT ![r] = [pc |-> "lock", session |-> file, key |-> None, created |-> FALSE,
                                todo |-> {}, flying |-> {}, batch |-> 0, failed |-> FALSE]]
  /\ UNCHANGED <<file, disk, jobs, late, history>>

\* Keys not met before: the random ones that will be made.
Unused == {k \in Keys : /\ jobs[k] = None
                        /\ \A c \in Contents : k \notin {visible[c], durable[c]}
                        /\ \A r \in Runs : Working(r) => Key(r) # k
                        /\ \A m \in late : m.key # k}

\* new_idempotency_key
Fresh == CHOOSE k \in Unused : TRUE

\* flock, load_or_create_state: the key of the session's state file, if there
\* is one.
Lock(r) ==
  LET k == visible[Session(r)] IN
  /\ At(r, "lock") /\ LockFree(Session(r))
  /\ IF k # None
     THEN /\ run' = [run EXCEPT ![r].pc = "create", ![r].key = k]
          /\ adopted' = (adopted \/ durable[Session(r)] # k)
     ELSE /\ Unused # {}
          /\ run' = [run EXCEPT ![r].pc = "write", ![r].key = Fresh]
          /\ UNCHANGED adopted
  /\ UNCHANGED <<file, disk, jobs, late, acked, faults>>

\* write_state: a temporary file is written, synced with all that was written
\* before to that file system, and renamed;
Write(r) ==
  /\ At(r, "write")
  /\ durable' = visible
  /\ visible' = [visible EXCEPT ![Session(r)] = Key(r)]
  /\ Goto(r, "sync")
  /\ UNCHANGED <<file, jobs, late, history>>

AfterSync(r) == IF run[r].created THEN "status" ELSE "create"

\* Mistake: the directory is not synced.
SyncForgotten(r) ==
  /\ At(r, "sync")
  /\ Goto(r, AfterSync(r))
  /\ UNCHANGED <<file, disk, jobs, late, history>>

\* then the directory is synced.
Sync(r) ==
  /\ At(r, "sync")
  /\ durable' = visible
  /\ Goto(r, AfterSync(r))
  /\ UNCHANGED <<file, visible, jobs, late, history>>

CreateMsg(r) == [kind |-> "create", key |-> Key(r), sha |-> Payload(Session(r))]

\* create_or_discover_job; write_state again, with the job's id.
Create(r) ==
  /\ At(r, "create")
  /\ Handle(CreateMsg(r))
  /\ IF Accepted(CreateMsg(r))
     THEN run' = [run EXCEPT ![r].pc = "write", ![r].created = TRUE]
     ELSE Exit(r)
  /\ UNCHANGED <<file, disk, late, history>>

-----------------------------------------------------------------------------
(* resume_workflow *)

\* The job's state is asked for, again and again while the server works.
Status(r) ==
  LET stage == jobs[Key(r)].stage IN
  /\ At(r, "status")
  /\ \/ stage = "Receiving" /\ Goto(r, "list")
     \/ stage = "Completed" /\ run' = [run EXCEPT ![r] = Done]
     \/ stage = "Expired" /\ Goto(r, "remove")
     \/ stage = "Failed" /\ Exit(r)
  /\ UNCHANGED <<file, disk, jobs, late, history>>

\* Mistake: an expired job's state file is kept.
RemoveNothing(r) ==
  /\ At(r, "remove")
  /\ Exit(r)
  /\ UNCHANGED <<file, disk, jobs, late, history>>

\* The state file of an expired job is removed (not synced), exit 1.
Remove(r) ==
  /\ At(r, "remove")
  /\ visible' = [visible EXCEPT ![Session(r)] = None]
  /\ Exit(r)
  /\ UNCHANGED <<file, durable, jobs, late, history>>

\* Mistake: everything is sent.
AllChunks(job) == Chunks

\* The chunks the server has no VERIFIED row for.
Missing(job) == Chunks \ Verified(job)

\* GET chunks
List(r) ==
  /\ At(r, "list")
  /\ run' = [run EXCEPT ![r].pc = "upload", ![r].todo = Missing(jobs[Key(r)])]
  /\ UNCHANGED <<file, disk, jobs, late, history>>

\* Mistake: one subshell too many is started.
BatchFullLate(r) == run[r].batch > Parallelism

\* UPLOAD_PARALLELISM subshells were started since the last wait.
BatchFull(r) == run[r].batch >= Parallelism

\* upload_one_chunk in a subshell: the chunk is cut from the file as it is now.
StartPut(r) ==
  /\ At(r, "upload") /\ run[r].todo # {} /\ ~BatchFull(r)
  /\ \E n \in run[r].todo :
       /\ \A k \in run[r].todo : n <= k
       /\ run' = [run EXCEPT ![r].todo = @ \ {n}, ![r].batch = @ + 1,
                             ![r].flying = @ \cup {[chunk |-> n, body |-> file]}]
  /\ UNCHANGED <<file, disk, jobs, late, history>>

PutMsg(r, f) == [kind |-> "put", key |-> Key(r), chunk |-> f.chunk, body |-> f.body]

\* A PUT is answered.
AnswerPut(r) ==
  \E f \in IF Working(r) THEN run[r].flying ELSE {} :
    /\ Handle(PutMsg(r, f))
    /\ run' = [run EXCEPT ![r].flying = @ \ {f},
                          ![r].failed = @ \/ ~Accepted(PutMsg(r, f))]
    /\ acked' = IF Accepted(PutMsg(r, f)) THEN acked \cup {<<Key(r), f.chunk>>} ELSE acked
    /\ UNCHANGED <<file, disk, late, adopted, faults>>

\* Mistake: the subshells' exit codes are not looked at.
NeverFailed(r) == FALSE

\* wait said that one of the PUTs failed.
AnyFailed(r) == run[r].failed

\* All of a batch have ended, the last one included.
WaitPuts(r) ==
  /\ At(r, "upload") /\ run[r].flying = {} /\ (BatchFull(r) \/ run[r].todo = {})
  /\ \/ AnyFailed(r) /\ Exit(r)
     \/ ~AnyFailed(r) /\ run[r].todo # {} /\ run' = [run EXCEPT ![r].batch = 0]
     \/ /\ ~AnyFailed(r) /\ run[r].todo = {}
        /\ run' = [run EXCEPT ![r].pc = "complete", ![r].batch = 0]
  /\ UNCHANGED <<file, disk, jobs, late, history>>

CompleteMsg(r) == [kind |-> "complete", key |-> Key(r)]

\* complete_job: with 202 as with 409 the loop asks for the state again.
Complete(r) ==
  /\ At(r, "complete")
  /\ Handle(CompleteMsg(r))
  /\ Goto(r, "status")
  /\ UNCHANGED <<file, disk, late, history>>

RunStep(r) ==
  \/ Write(r) \/ Sync(r) \/ Create(r) \/ Status(r) \/ Remove(r)
  \/ List(r) \/ StartPut(r) \/ AnswerPut(r) \/ WaitPuts(r) \/ Complete(r)

-----------------------------------------------------------------------------
(* What goes wrong on the client's side *)

\* The requests a run waits for.
UnderWay(r) ==
  IF ~Working(r) THEN {}
  ELSE {PutMsg(r, f) : f \in run[r].flying}
       \cup (IF At(r, "create") THEN {CreateMsg(r)} ELSE {})
       \cup (IF At(r, "complete") THEN {CompleteMsg(r)} ELSE {})

\* The server may still get any of these.
Strand(msgs) == \E s \in SUBSET msgs : late' = late \cup s /\ Cardinality(late') <= MaxLate

Fault == faults < MaxFaults /\ faults' = faults + 1

\* The connection is lost and curl tries again.
Retry(r) ==
  /\ UnderWay(r) \ late # {}
  /\ Strand(UnderWay(r)) /\ late' # late
  /\ UNCHANGED <<file, disk, run, jobs, history>>

\* A PUT fails for good, or its chunk cannot be read.
PutFails(r) ==
  \E f \in IF Working(r) THEN run[r].flying ELSE {} :
    /\ Fault
    /\ run' = [run EXCEPT ![r].flying = @ \ {f}, ![r].failed = TRUE]
    /\ Strand({PutMsg(r, f)})
    /\ UNCHANGED <<file, disk, jobs, acked, adopted>>

\* A run and its subshells are killed, or a command or another request fails.
Stop(r) ==
  /\ Working(r) /\ Fault
  /\ Exit(r) /\ Strand(UnderWay(r))
  /\ UNCHANGED <<file, disk, jobs, acked, adopted>>

\* The client's host loses power: a rename that was not synced may be undone.
PowerLoss ==
  /\ Fault
  /\ Strand(UNION {UnderWay(r) : r \in Runs})
  /\ run' = [r \in Runs |-> Idle]
  /\ visible' \in {v \in [Contents -> Keys \cup {None}] :
                     \A c \in Contents : v[c] \in {visible[c], durable[c]}}
  /\ durable' = visible'
  /\ UNCHANGED <<file, jobs, acked, adopted>>

\* The file changes while runs are at work.
Edit ==
  /\ Fault
  /\ file' \in Contents \ {file}
  /\ UNCHANGED <<disk, run, jobs, late, acked, adopted>>

-----------------------------------------------------------------------------
(* What the server does meanwhile *)

\* A request nobody waits for is handled.
Deliver ==
  \E m \in late :
    /\ Handle(m) /\ late' = late \ {m}
    /\ UNCHANGED <<file, disk, run, history>>

JobIn(k, stages) == jobs[k] # None /\ jobs[k].stage \in stages

ToStage(k, stage) ==
  /\ jobs' = [jobs EXCEPT ![k].stage = stage]
  /\ UNCHANGED <<file, disk, run, late, history>>

Admit(k) == JobIn(k, {"Waiting"}) /\ ToStage(k, "Receiving")

\* The SHA-256 of the whole input is the one that was declared.
Matches(k) == jobs[k].sha # None => \A n \in Chunks : jobs[k].chunks[n] = jobs[k].sha

\* Verification, probe and transcode end.
Process(k) ==
  /\ JobIn(k, {"Processing"})
  /\ (Matches(k) /\ ToStage(k, "Completed")) \/ ToStage(k, "Failed")

\* Admission fails, or recovery does not find the upload.
GiveUp(k) == JobIn(k, {"Waiting", "Receiving"}) /\ ToStage(k, "Failed")

\* UPLOAD_RETENTION passes: the chunk rows go.
Expire(k) ==
  /\ JobIn(k, {"Waiting", "Receiving"})
  /\ Fault
  /\ jobs' = [jobs EXCEPT ![k].stage = "Expired", ![k].chunks = [n \in Chunks |-> None]]
  /\ acked' = {a \in acked : a[1] # k}
  /\ UNCHANGED <<file, disk, run, late, adopted>>

-----------------------------------------------------------------------------
Init ==
  /\ file = Original
  /\ visible = [c \in Contents |-> None] /\ durable = visible
  /\ run = [r \in Runs |-> Idle]
  /\ jobs = [k \in Keys |-> None] /\ late = {}
  /\ acked = {} /\ adopted = FALSE /\ faults = 0

Next ==
  \/ \E r \in Runs : \/ Begin(r) \/ Lock(r) \/ RunStep(r)
                    \/ Retry(r) \/ PutFails(r) \/ Stop(r)
  \/ \E k \in Keys : Admit(k) \/ Process(k) \/ GiveUp(k) \/ Expire(k)
  \/ PowerLoss \/ Edit \/ Deliver

Spec == Init /\ [][Next]_vars

\* The script is started again and again, requests that do not fail are
\* answered, and the server admits, verifies and transcodes.  One of the runs
\* that wait for a lock gets it.
FairSpec ==
  /\ Spec
  /\ \A r \in Runs : WF_vars(Begin(r)) /\ WF_vars(RunStep(r))
  /\ WF_vars(\E r \in Runs : Lock(r))
  /\ \A k \in Keys : WF_vars(Admit(k)) /\ WF_vars(Process(k))

-----------------------------------------------------------------------------
(* Properties *)

Steps == {"lock", "write", "sync", "create", "status", "remove",
             "list", "upload", "complete"}

Messages ==
  [kind : {"create"}, key : Keys, sha : Contents]
  \cup [kind : {"put"}, key : Keys, chunk : Chunks, body : Contents]
  \cup [kind : {"complete"}, key : Keys]

TypeOK ==
  /\ file \in Contents
  /\ visible \in [Contents -> Keys \cup {None}] /\ durable \in [Contents -> Keys \cup {None}]
  /\ \A r \in Runs :
       \/ run[r] \in {Idle, Done}
       \/ /\ run[r] \in [pc : Steps, session : Contents, key : Keys \cup {None},
                         created : BOOLEAN, todo : SUBSET Chunks,
                         flying : SUBSET [chunk : Chunks, body : Contents],
                         batch : 0 .. Parallelism, failed : BOOLEAN]
          /\ At(r, "upload") \/ run[r].flying = {}
  /\ jobs \in [Keys -> Jobs \cup {None}]
  /\ late \subseteq Messages /\ acked \subseteq Keys \X Chunks

(* "The key rediscovers the same job" (README:190): as long as a job is not *)
(* expired its key is in the state file of its content, so that no later    *)
(* run, after a crash or a power failure, creates a second job for it.  The *)
(* one way out: a run was killed between the rename and the sync of a new   *)
(* state file, and the next one relied on it (upload-directory.sh:84-157).  *)
Rediscovered ==
  \A k \in Keys : JobIn(k, {"Waiting", "Receiving", "Processing", "Completed", "Failed"}) =>
     \A c \in Contents : jobs[k].sha = c =>
        adopted \/ (visible[c] = k /\ durable[c] = k)

(* A run says "completed" only of a job that is completed and was made of   *)
(* the file as it was when the run took its checksum, also if the file was  *)
(* changed before its chunks were cut (upload-directory.sh:176, 300, 328).  *)
DoneMeansDone ==
  [][\A r \in Runs : (~At(r, "done") /\ run'[r] = Done) =>
       /\ jobs[Key(r)].stage = "Completed"
       /\ \A n \in Chunks : jobs[Key(r)].chunks[n] = Session(r)]_vars

(* complete is asked for only when the server has every chunk, whichever    *)
(* runs sent them and whatever failed in between, unless the job has ended: *)
(* a 409 never means that the run forgot a chunk (upload-directory.sh:229,  *)
(* 287).                                                                    *)
CompleteWhenVerified ==
  \A r \in Runs : (At(r, "complete") /\ JobIn(Key(r), {"Receiving"})) =>
     Verified(jobs[Key(r)]) = Chunks

(* "Only missing chunks are sent" (README:190): a chunk that was answered   *)
(* with 200 is not sent again by this run or another one.                   *)
NotResent ==
  [][\A r \in Runs : (At(r, "upload") /\ run'[r].pc = "upload") =>
       \A f \in run'[r].flying \ run[r].flying : <<Key(r), f.chunk>> \notin acked]_vars

\* The content has a job that has come to its end.
Settled(c) == \E k \in Keys : JobIn(k, {"Completed", "Failed"}) /\ jobs[k].sha = c

(* "Run the same command again" (README:190): whatever was killed, lost,    *)
(* expired or left behind, running the script again brings the file, once   *)
(* it no longer changes, to a job that completes or fails.                  *)
Delivered == <>[]Settled(file)
=============================================================================
