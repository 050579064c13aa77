------------------------- MODULE UploadClientProofs -------------------------
(***************************************************************************)
(* Theorems about UploadClient, for any runs, contents, chunks and keys,   *)
(* and any number of faults and of requests left behind.                   *)
(*                                                                         *)
(* The argument: the runs of one session exclude each other, so that a run *)
(* which has its session's lock knows the state file; a job is created     *)
(* only for the key of a durable state file; and what a run has learnt of  *)
(* its job only ever becomes more.                                         *)
(***************************************************************************)
EXTENDS UploadClient, TLAPS

\* The records of runs at work
RunRecord == [pc : Steps, session : Contents, key : Keys \cup {None}, created : BOOLEAN,
              todo : SUBSET Chunks, flying : SUBSET [chunk : Chunks, body : Contents],
              batch : 0 .. Parallelism, failed : BOOLEAN]

Typing ==
  /\ file \in Contents
  /\ visible \in [Contents -> Keys \cup {None}]
  /\ durable \in [Contents -> Keys \cup {None}]
  /\ run \in [Runs -> {Idle, Done} \cup RunRecord]
  /\ \A r \in Runs : Working(r) => At(r, "upload") \/ run[r].flying = {}
  /\ jobs \in [Keys -> Jobs \cup {None}]
  /\ late \subseteq Messages
  /\ acked \subseteq Keys \X Chunks
  /\ adopted \in BOOLEAN

\* The run has its session's lock, and a key.
Held(r) == Working(r) /\ ~At(r, "lock")

Exclusive ==
  \A r, s \in Runs : Held(r) /\ Held(s) /\ Session(r) = Session(s) => r = s

\* The state file on disk is the one everybody reads, or nobody looks any more.
Durable(c, k) == adopted \/ (visible[c] = k /\ durable[c] = k)

\* A run with a new key, before its state file has its name
Unnamed(r) == At(r, "write") /\ ~run[r].created

\* What the holder of a lock knows of the state file
FileKnown(r) ==
  /\ Key(r) \in Keys
  /\ visible[Session(r)] = IF Unnamed(r) THEN None ELSE Key(r)
  /\ run[r].created \/ At(r, "create") => adopted \/ durable[Session(r)] = Key(r)
  /\ run[r].pc \in {"status", "remove", "list", "upload", "complete"} => run[r].created

\* The chunks on their way
Flying(r) == {f.chunk : f \in run[r].flying}

\* What it knows of its job
JobKnown(r) ==
  run[r].created =>
    LET job == jobs[Key(r)] IN
    /\ job # None /\ job.sha = Session(r)
    /\ At(r, "remove") => job.stage = "Expired"
    /\ run[r].pc \in {"list", "upload", "complete"} => job.stage # "Waiting"
    /\ run[r].pc \in {"upload", "complete"} /\ ~run[r].failed /\ job.stage = "Receiving" =>
         \A n \in Chunks : job.chunks[n] # None \/ n \in run[r].todo \/ n \in Flying(r)
    /\ At(r, "complete") => ~run[r].failed /\ run[r].todo = {}
    /\ At(r, "upload") => \A n \in run[r].todo : n \notin Flying(r) /\ <<Key(r), n>> \notin acked

RunsKnow ==
  \A r \in Runs : /\ At(r, "lock") => ~run[r].created
                  /\ Held(r) => FileKnown(r) /\ JobKnown(r)

\* A request that is still under way creates a job for a durable state file
\* only, and belongs to a job otherwise.
LateKnown ==
  \A m \in late : jobs[m.key] = None => m.kind = "create" /\ Durable(m.sha, m.key)

JobsNamed == \A k \in Keys : jobs[k] # None /\ jobs[k].stage # "Expired" => Durable(jobs[k].sha, k)

CompletedWhole ==
  \A k \in Keys : JobIn(k, {"Completed"}) => \A n \in Chunks : jobs[k].chunks[n] = jobs[k].sha

AckedKept == \A a \in acked : jobs[a[1]] # None /\ jobs[a[1]].chunks[a[2]] # None

IInv == /\ Typing /\ Exclusive /\ RunsKnow /\ LateKnown
        /\ JobsNamed /\ CompletedWhole /\ AckedKept

-----------------------------------------------------------------------------
(* The server's jobs *)

\* A job stays the job it is, and never goes back to a stage.
Grows(k) ==
  jobs[k] # None =>
    /\ jobs'[k] # None /\ jobs'[k].sha = jobs[k].sha
    /\ jobs[k].stage # "Waiting" => jobs'[k].stage # "Waiting"
    /\ jobs[k].stage = "Expired" => jobs'[k].stage = "Expired"
    /\ jobs'[k].stage = "Receiving" /\ jobs[k].stage # "Waiting" =>
         /\ jobs[k].stage = "Receiving"
         /\ \A n \in Chunks : jobs[k].chunks[n] # None => jobs'[k].chunks[n] # None

\* A request to which the server may be exposed
Expected(m) == jobs[m.key] = None => m.kind = "create" /\ Durable(m.sha, m.key)

\* What the server makes of an expected request is a job, and the one it was.
LEMMA AfterIsJob ==
  ASSUME Typing, NEW m \in Messages, Expected(m)
  PROVE  /\ m.key \in Keys /\ After(m) \in Jobs
         /\ jobs[m.key] = None => m.sha \in Contents /\ After(m) = NewJob(m.sha)
         /\ jobs[m.key] # None =>
              /\ After(m).sha = jobs[m.key].sha
              /\ After(m).stage = jobs[m.key].stage
                 \/ (jobs[m.key].stage = "Receiving" /\ After(m).stage = "Processing")
              /\ \A n \in Chunks : jobs[m.key].chunks[n] # None =>
                                   After(m).chunks[n] = jobs[m.key].chunks[n]
              /\ jobs[m.key].stage # "Receiving" => After(m) = jobs[m.key]
<1> DEFINE job == jobs[m.key]
<1>1. m.key \in Keys /\ job \in Jobs \cup {None} /\ m.kind \in {"create", "put", "complete"}
  BY DEF Typing, Messages
<1>2. job # None => job \in Jobs /\ job.sha \in Contents
                    /\ job.chunks \in [Chunks -> Contents \cup {None}]
  BY <1>1 DEF Jobs
<1>3. CASE m.kind = "create"
  <2>1. m.sha \in Contents
    BY <1>3 DEF Messages
  <2>2. NewJob(m.sha) \in Jobs
    BY <2>1 DEF NewJob, Jobs
  <2>3. After(m) = IF job = None THEN NewJob(m.sha) ELSE job
    BY <1>3 DEF After, Created
  <2>4. QED
    BY <1>1, <1>2, <2>1, <2>2, <2>3
<1>4. CASE m.kind = "put"
  <2>1. m.chunk \in Chunks /\ m.body \in Contents
    BY <1>4 DEF Messages
  <2>2. job # None
    BY <1>4 DEF Expected
  <2>3. After(m) = IF job.stage = "Receiving" /\ job.chunks[m.chunk] = None
                   THEN [job EXCEPT !.chunks[m.chunk] = m.body] ELSE job
    BY <1>4 DEF After, Stored
  <2>4. [job EXCEPT !.chunks[m.chunk] = m.body] \in Jobs
    BY <1>2, <2>1, <2>2 DEF Jobs
  <2>5. QED
    BY <1>1, <1>2, <2>1, <2>2, <2>3, <2>4 DEF Jobs
<1>5. CASE m.kind = "complete"
  <2>1. job # None
    BY <1>5 DEF Expected
  <2>2. After(m) = IF job.stage = "Receiving" /\ Verified(job) = Chunks
                   THEN [job EXCEPT !.stage = "Processing"] ELSE job
    BY <1>5 DEF After, Taken
  <2>3. [job EXCEPT !.stage = "Processing"] \in Jobs
    BY <1>2, <2>1 DEF Jobs
  <2>4. QED
    BY <1>1, <1>2, <2>1, <2>2, <2>3 DEF Jobs
<1>6. QED
  BY <1>1, <1>3, <1>4, <1>5

\* The handling of an expected request
LEMMA HandleKeeps ==
  ASSUME IInv, NEW m \in Messages, Expected(m), Handle(m), UNCHANGED <<disk, adopted>>
  PROVE  /\ jobs' \in [Keys -> Jobs \cup {None}]
         /\ \A k \in Keys : Grows(k)
         /\ JobsNamed' /\ CompletedWhole'
         /\ \A a \in acked : jobs'[a[1]] # None /\ jobs'[a[1]].chunks[a[2]] # None
<1>1. Typing
  BY DEF IInv
<1>2. jobs' = [jobs EXCEPT ![m.key] = After(m)]
  BY DEF Handle
<1>3. m.key \in Keys /\ After(m) \in Jobs /\ After(m) # None
  BY <1>1, AfterIsJob, UploadClientAssumption
<1>4. jobs' \in [Keys -> Jobs \cup {None}] /\ jobs'[m.key] = After(m)
      /\ \A k \in Keys : k # m.key => jobs'[k] = jobs[k]
  BY <1>1, <1>2, <1>3 DEF Typing
<1>5. \A k \in Keys : Grows(k)
  <2>1. Grows(m.key)
    BY <1>1, <1>3, <1>4, AfterIsJob DEF Grows
  <2>2. \A k \in Keys : k # m.key => Grows(k)
    BY <1>4 DEF Grows
  <2>3. QED
    BY <2>1, <2>2
<1>6. JobsNamed'
  <2>1. SUFFICES ASSUME NEW k \in Keys, jobs'[k] # None, jobs'[k].stage # "Expired"
                 PROVE  Durable(jobs[k].sha, k)'
    BY DEF JobsNamed
  <2>2. Durable(jobs'[k].sha, k)
    <3>1. CASE k = m.key /\ jobs[k] = None
      BY <1>1, <1>4, <3>1, AfterIsJob DEF Expected, NewJob
    <3>2. CASE k = m.key /\ jobs[k] # None
      BY <1>1, <1>4, <2>1, <3>2, AfterIsJob DEF IInv, JobsNamed
    <3>3. CASE k # m.key
      BY <1>4, <2>1, <3>3 DEF IInv, JobsNamed
    <3>4. QED
      BY <3>1, <3>2, <3>3
  <2>3. QED
    BY <2>2 DEF Durable, disk
<1>7. CompletedWhole'
  <2>1. SUFFICES ASSUME NEW k \in Keys, jobs'[k] # None, jobs'[k].stage = "Completed"
                 PROVE  \A n \in Chunks : jobs'[k].chunks[n] = jobs'[k].sha
    BY DEF CompletedWhole, JobIn
  <2>2. jobs[k] # None /\ jobs[k].stage = "Completed" /\ jobs'[k] = jobs[k]
    BY <1>1, <1>4, <2>1, AfterIsJob DEF NewJob
  <2>3. QED
    BY <2>2 DEF IInv, CompletedWhole, JobIn
<1>8. ASSUME NEW a \in acked PROVE jobs'[a[1]] # None /\ jobs'[a[1]].chunks[a[2]] # None
  <2>1. a[1] \in Keys /\ a[2] \in Chunks /\ jobs[a[1]] # None /\ jobs[a[1]].chunks[a[2]] # None
    BY DEF IInv, Typing, AckedKept
  <2>2. QED
    BY <1>1, <1>3, <1>4, <2>1, AfterIsJob
<1>9. QED
  BY <1>4, <1>5, <1>6, <1>7, <1>8

-----------------------------------------------------------------------------
(* Runs that do not move *)

\* What a run knows stays true while others work.
LEMMA Bystander ==
  ASSUME IInv, NEW s \in Runs, Held(s), run'[s] = run[s], Grows(Key(s)),
         visible'[Session(s)] = visible[Session(s)],
         durable'[Session(s)] \in {durable[Session(s)], visible[Session(s)]},
         adopted => adopted',
         run[s].created => \A n \in Chunks : <<Key(s), n>> \in acked' => <<Key(s), n>> \in acked
  PROVE  FileKnown(s)' /\ JobKnown(s)'
<1>1. FileKnown(s) /\ JobKnown(s) /\ Typing
  BY DEF IInv, RunsKnow
<1>2. FileKnown(s)'
  BY <1>1 DEF FileKnown, Unnamed, At, Session, Key
<1>3. JobKnown(s)'
  <2>1. run[s] \in RunRecord
    BY <1>1 DEF Typing, Held, Working, Idle, Done
  <2>2. run[s].todo \subseteq Chunks
    BY <2>1 DEF RunRecord
  <2>3. CASE run[s].created
    BY <1>1, <2>2, <2>3 DEF JobKnown, Grows, At, Session, Key, Flying
  <2>4. CASE ~run[s].created
    BY <2>4 DEF JobKnown
  <2>5. QED
    BY <2>3, <2>4
<1>4. QED
  BY <1>2, <1>3

\* A request a run waits for is expected.
LEMMA UnderWayExpected ==
  ASSUME IInv, NEW r \in Runs, NEW m \in UnderWay(r)
  PROVE  m \in Messages /\ Expected(m)
<1>1. Working(r) /\ run[r] \in RunRecord /\ Typing
  BY DEF IInv, Typing, UnderWay, Working, Idle, Done
<1>2. CASE \E f \in run[r].flying : m = PutMsg(r, f)
  <2>1. PICK f \in run[r].flying : m = PutMsg(r, f)
    BY <1>2
  <2>2. f \in [chunk : Chunks, body : Contents]
    BY <1>1 DEF RunRecord
  <2>3. At(r, "upload") /\ Held(r)
    BY <1>1 DEF Typing, Held, At
  <2>4. Key(r) \in Keys /\ jobs[Key(r)] # None
    BY <2>3 DEF IInv, RunsKnow, FileKnown, JobKnown, At
  <2>5. QED
    BY <2>1, <2>2, <2>4 DEF PutMsg, Messages, Expected
<1>3. CASE At(r, "create") /\ m = CreateMsg(r)
  <2>1. Held(r) /\ ~Unnamed(r) /\ Session(r) \in Contents
    BY <1>1, <1>3 DEF Held, At, Unnamed, RunRecord, Session
  <2>2. Key(r) \in Keys /\ Durable(Session(r), Key(r))
    BY <1>3, <2>1 DEF IInv, RunsKnow, FileKnown, Durable
  <2>3. QED
    BY <1>3, <2>1, <2>2 DEF CreateMsg, Payload, Messages, Expected
<1>4. CASE At(r, "complete") /\ m = CompleteMsg(r)
  <2>1. Key(r) \in Keys /\ jobs[Key(r)] # None
    BY <1>1, <1>4 DEF Held, IInv, RunsKnow, FileKnown, JobKnown, At
  <2>2. QED
    BY <1>4, <2>1 DEF CompleteMsg, Messages, Expected
<1>5. QED
  BY <1>1, <1>2, <1>3, <1>4 DEF UnderWay

\* Requests left behind, then, are expected.
LEMMA LateExpected ==
  ASSUME IInv, NEW m \in late
  PROVE  m \in Messages /\ Expected(m)
BY DEF IInv, Typing, LateKnown, Expected

\* They stay so as long as state files and jobs are kept.
LEMMA LateKept ==
  ASSUME IInv, \A k \in Keys : Grows(k), adopted => adopted',
         \A m \in late' : m \in Messages /\ Expected(m),
         \A m \in late' : jobs[m.key] = None /\ ~adopted' =>
            visible'[m.sha] = m.key /\ durable'[m.sha] = m.key
  PROVE  LateKnown'
<1>1. SUFFICES ASSUME NEW m \in late', jobs'[m.key] = None
               PROVE  m.kind = "create" /\ Durable(m.sha, m.key)'
  BY DEF LateKnown
<1>2. m.key \in Keys
  BY DEF Messages
<1>3. jobs[m.key] = None
  BY <1>1, <1>2 DEF Grows
<1>4. QED
  BY <1>3 DEF Expected, Durable

-----------------------------------------------------------------------------
(* Steps *)

\* A step of run r leaves the other runs what they know.
LEMMA RunMoves ==
  ASSUME IInv, NEW r \in Runs, NEW rec \in {Idle, Done} \cup RunRecord,
         run' = [run EXCEPT ![r] = rec],
         Working(r)' => At(r, "upload")' \/ rec.flying = {},
         At(r, "lock")' => ~rec.created,
         Held(r)' => \/ Held(r) /\ rec.session = Session(r)
                     \/ \A s \in Runs : Held(s) => Session(s) # rec.session,
         Held(r)' => FileKnown(r)' /\ JobKnown(r)',
         \A k \in Keys : Grows(k), adopted => adopted',
         \A s \in Runs : s # r /\ Held(s) =>
            /\ visible'[Session(s)] = visible[Session(s)]
            /\ durable'[Session(s)] \in {durable[Session(s)], visible[Session(s)]},
         \A a \in acked' : a \in acked \/ (Held(r) /\ run[r].created /\ a[1] = Key(r))
  PROVE  /\ run' \in [Runs -> {Idle, Done} \cup RunRecord]
         /\ \A s \in Runs : Working(s)' => At(s, "upload")' \/ run'[s].flying = {}
         /\ Exclusive' /\ RunsKnow'
<1>1. Typing /\ Exclusive /\ RunsKnow
  BY DEF IInv
<1>2. run' \in [Runs -> {Idle, Done} \cup RunRecord]
  BY <1>1 DEF Typing
<1>3. run'[r] = rec /\ \A s \in Runs : s # r => run'[s] = run[s]
  BY <1>1 DEF Typing
<1>4. \A s \in Runs : Working(s)' => At(s, "upload")' \/ run'[s].flying = {}
  BY <1>1, <1>3 DEF Typing, Working, At
<1>5. \A s \in Runs : s # r => (Held(s)' <=> Held(s)) /\ Session(s)' = Session(s)
  BY <1>3 DEF Held, Working, At, Session
<1>6. Exclusive'
  BY <1>1, <1>3, <1>5 DEF Exclusive, Session
<1>7. RunsKnow'
  <2>1. SUFFICES ASSUME NEW s \in Runs, Held(s)', s # r PROVE FileKnown(s)' /\ JobKnown(s)'
    BY <1>1, <1>3 DEF RunsKnow, At
  <2>2. Held(s) /\ run'[s] = run[s]
    BY <1>3, <1>5, <2>1
  <2>3. Key(s) \in Keys
    BY <1>1, <2>2 DEF RunsKnow, FileKnown
  <2>4. ASSUME run[s].created, NEW n \in Chunks, <<Key(s), n>> \in acked'
        PROVE  <<Key(s), n>> \in acked
    <3>1. CASE Held(r) /\ run[r].created /\ Key(s) = Key(r)
      <4>1. Session(s) = Session(r)
        BY <1>1, <2>2, <2>4, <3>1 DEF RunsKnow, JobKnown
      <4>2. QED
        BY <1>1, <2>1, <2>2, <3>1, <4>1 DEF Exclusive
    <3>2. QED
      BY <2>4, <3>1
  <2>5. QED
    BY <2>1, <2>2, <2>3, <2>4, Bystander
<1>8. QED
  BY <1>2, <1>4, <1>6, <1>7

\* A step that leaves the jobs alone and gives up no state file
LEMMA JobsKept ==
  ASSUME IInv, UNCHANGED <<jobs, acked>>,
         \A c \in Contents, k \in Keys : Durable(c, k) => Durable(c, k)',
         \A m \in late' : m \in Messages /\ Expected(m)
  PROVE  /\ jobs' \in [Keys -> Jobs \cup {None}] /\ late' \subseteq Messages
         /\ acked' \subseteq Keys \X Chunks
         /\ LateKnown' /\ JobsNamed' /\ CompletedWhole' /\ AckedKept'
         /\ \A k \in Keys : Grows(k)
<1>1. Typing
  BY DEF IInv
<1>2. LateKnown'
  <2>1. SUFFICES ASSUME NEW m \in late', jobs'[m.key] = None
                 PROVE  m.kind = "create" /\ Durable(m.sha, m.key)'
    BY DEF LateKnown
  <2>2. m.kind = "create" /\ Durable(m.sha, m.key)
    BY <2>1 DEF Expected
  <2>3. m.sha \in Contents /\ m.key \in Keys
    BY <2>2 DEF Messages
  <2>4. QED
    BY <2>2, <2>3
<1>3. JobsNamed'
  <2>1. SUFFICES ASSUME NEW k \in Keys, jobs'[k] # None, jobs'[k].stage # "Expired"
                 PROVE  Durable(jobs[k].sha, k)'
    BY DEF JobsNamed
  <2>2. jobs[k] # None /\ jobs[k].stage # "Expired" /\ jobs[k].sha \in Contents
    BY <1>1, <2>1 DEF Typing, Jobs
  <2>3. Durable(jobs[k].sha, k)
    BY <2>2 DEF IInv, JobsNamed
  <2>4. Durable(jobs[k].sha, k)'
    <3> DEFINE c == jobs[k].sha
    <3>1. Durable(c, k)'
      BY <2>2, <2>3
    <3>2. QED
      BY <3>1 DEF Durable
  <2>5. QED
    BY <2>4
<1>4. CompletedWhole' /\ AckedKept'
  BY DEF IInv, CompletedWhole, AckedKept, JobIn
<1>5. \A k \in Keys : Grows(k)
  BY DEF Grows
<1>6. QED
  BY <1>1, <1>2, <1>3, <1>4, <1>5 DEF Typing

\* Nothing but a run moves.
LEMMA DiskKept ==
  ASSUME UNCHANGED <<disk, adopted>>
  PROVE  \A c \in Contents, k \in Keys : Durable(c, k) => Durable(c, k)'
BY DEF Durable, disk

\* The records of runs at work
LEMMA Records ==
  ASSUME IInv, NEW r \in Runs, Working(r)
  PROVE  /\ run[r] \in RunRecord /\ Session(r) \in Contents
         /\ Idle \in {Idle, Done} \cup RunRecord
         /\ \A pc \in Steps : [run[r] EXCEPT !.pc = pc] \in RunRecord
BY DEF IInv, Typing, Working, Idle, Done, RunRecord, Session

\* A run begins, and has no key yet.
LEMMA BeginStep ==
  ASSUME IInv, NEW r \in Runs, Begin(r)
  PROVE  IInv'
<1> DEFINE rec == [pc |-> "lock", session |-> file, key |-> None, created |-> FALSE,
                   todo |-> {}, flying |-> {}, batch |-> 0, failed |-> FALSE]
<1>1. Typing /\ UNCHANGED <<file, disk, jobs, late, acked, adopted>>
      /\ run' = [run EXCEPT ![r] = rec]
  BY DEF IInv, Begin, history
<1>2. rec \in RunRecord
  BY <1>1, UploadClientAssumption DEF Typing, RunRecord, Steps
<1>3. ~Held(r)' /\ rec.flying = {} /\ ~rec.created
  BY <1>1, <1>2 DEF Typing, Held, At
<1>4. \A c \in Contents, k \in Keys : Durable(c, k) => Durable(c, k)'
  BY <1>1, DiskKept
<1>5. \A m \in late' : m \in Messages /\ Expected(m)
  BY <1>1, LateExpected
<1>6. /\ jobs' \in [Keys -> Jobs \cup {None}] /\ late' \subseteq Messages
      /\ acked' \subseteq Keys \X Chunks
      /\ LateKnown' /\ JobsNamed' /\ CompletedWhole' /\ AckedKept'
      /\ \A k \in Keys : Grows(k)
  BY <1>1, <1>4, <1>5, JobsKept
<1>7. /\ run' \in [Runs -> {Idle, Done} \cup RunRecord]
      /\ \A s \in Runs : Working(s)' => At(s, "upload")' \/ run'[s].flying = {}
      /\ Exclusive' /\ RunsKnow'
  <2>1. /\ rec \in {Idle, Done} \cup RunRecord
        /\ visible' = visible /\ durable' = durable
    BY <1>1, <1>2 DEF disk
  <2>2. QED
    BY <1>1, <1>3, <1>6, <2>1, RunMoves
<1>8. QED
  BY <1>1, <1>6, <1>7 DEF IInv, Typing, disk

\* A run that holds its lock moves, and nothing else.
LEMMA QuietMove ==
  ASSUME IInv, NEW r \in Runs, Held(r), NEW rec \in {Idle, Done} \cup RunRecord,
         run' = [run EXCEPT ![r] = rec], UNCHANGED <<file, disk, jobs, late, acked, adopted>>,
         Working(r)' => /\ rec.pc # "lock" /\ rec.session = Session(r)
                        /\ rec.pc = "upload" \/ rec.flying = {},
         Held(r)' => FileKnown(r)' /\ JobKnown(r)'
  PROVE  IInv'
<1>1. Typing
  BY DEF IInv
<1>2. run'[r] = rec
  BY <1>1 DEF Typing
<1>3. \A c \in Contents, k \in Keys : Durable(c, k) => Durable(c, k)'
  BY DiskKept
<1>4. \A m \in late' : m \in Messages /\ Expected(m)
  BY LateExpected
<1>5. /\ jobs' \in [Keys -> Jobs \cup {None}] /\ late' \subseteq Messages
      /\ acked' \subseteq Keys \X Chunks
      /\ LateKnown' /\ JobsNamed' /\ CompletedWhole' /\ AckedKept'
      /\ \A k \in Keys : Grows(k)
  BY <1>3, <1>4, JobsKept
<1>6. /\ run' \in [Runs -> {Idle, Done} \cup RunRecord]
      /\ \A s \in Runs : Working(s)' => At(s, "upload")' \/ run'[s].flying = {}
      /\ Exclusive' /\ RunsKnow'
  <2>1. /\ visible' = visible /\ durable' = durable
        /\ At(r, "lock")' => ~rec.created
        /\ Working(r)' => At(r, "upload")' \/ rec.flying = {}
        /\ Held(r)' => rec.session = Session(r)
    BY <1>2 DEF disk, Held, At, Working, Idle, Done
  <2>2. QED
    BY <1>2, <1>5, <2>1, RunMoves
<1>7. QED
  BY <1>1, <1>5, <1>6 DEF IInv, Typing, disk

\* The run that gets the lock takes the key of the state file, or a new one.
LEMMA LockStep ==
  ASSUME IInv, NEW r \in Runs, Lock(r)
  PROVE  IInv'
<1> DEFINE k == visible[Session(r)]
<1>1. Typing /\ Working(r) /\ run[r] \in RunRecord /\ Session(r) \in Contents
      /\ ~run[r].created /\ run[r].flying = {} /\ At(r, "lock")
  BY Records DEF IInv, Lock, Working, At, Typing, RunsKnow
<1>2. UNCHANGED <<file, disk, jobs, late, acked>>
  BY DEF Lock
<1>3. \A s \in Runs : Held(s) => Session(s) # Session(r)
  BY DEF Lock, LockFree, Held
<1>4. adopted' \in BOOLEAN /\ (adopted => adopted')
  BY <1>1 DEF Typing, Lock
<1>5. PICK rec \in RunRecord :
        /\ run' = [run EXCEPT ![r] = rec]
        /\ rec.session = Session(r) /\ ~rec.created /\ rec.flying = {}
        /\ \/ /\ rec.pc = "create" /\ rec.key = k /\ k \in Keys
              /\ adopted' \/ durable[Session(r)] = k
           \/ rec.pc = "write" /\ rec.key \in Keys /\ k = None
  <2>1. CASE k # None
    <3> DEFINE rec == [run[r] EXCEPT !.pc = "create", !.key = k]
    <3>1. k \in Keys
      BY <1>1, <2>1 DEF Typing
    <3>2. rec \in RunRecord /\ rec.session = Session(r) /\ ~rec.created /\ rec.flying = {}
          /\ rec.pc = "create" /\ rec.key = k
      BY <1>1, <3>1 DEF RunRecord, Steps, Session
    <3>3. run' = [run EXCEPT ![r] = rec] /\ adopted' = (adopted \/ durable[Session(r)] # k)
      BY <1>1, <2>1 DEF Lock, Typing
    <3>4. QED
      BY <3>1, <3>2, <3>3
  <2>2. CASE k = None
    <3> DEFINE rec == [run[r] EXCEPT !.pc = "write", !.key = Fresh]
    <3>1. Unused # {}
      BY <2>2 DEF Lock
    <3>2. Fresh \in Keys
      BY <3>1 DEF Fresh, Unused
    <3>3. rec \in RunRecord /\ rec.session = Session(r) /\ ~rec.created /\ rec.flying = {}
          /\ rec.pc = "write" /\ rec.key = Fresh
      BY <1>1, <3>2 DEF RunRecord, Steps, Session
    <3>4. run' = [run EXCEPT ![r] = rec]
      BY <1>1, <2>2 DEF Lock, Typing
    <3>5. QED
      BY <2>2, <3>2, <3>3, <3>4
  <2>3. QED
    BY <2>1, <2>2
<1>6. \A c \in Contents, q \in Keys : Durable(c, q) => Durable(c, q)'
  BY <1>2, <1>4 DEF Durable, disk
<1>7. \A m \in late' : m \in Messages /\ Expected(m)
  BY <1>2, LateExpected
<1>8. /\ jobs' \in [Keys -> Jobs \cup {None}] /\ late' \subseteq Messages
      /\ acked' \subseteq Keys \X Chunks
      /\ LateKnown' /\ JobsNamed' /\ CompletedWhole' /\ AckedKept'
      /\ \A q \in Keys : Grows(q)
  BY <1>2, <1>6, <1>7, JobsKept
<1>9. run'[r] = rec /\ visible' = visible /\ durable' = durable
  BY <1>1, <1>2, <1>5 DEF Typing, disk
<1>10. FileKnown(r)' /\ JobKnown(r)'
  <2>1. FileKnown(r)'
    BY <1>5, <1>9 DEF FileKnown, Unnamed, At, Session, Key
  <2>2. JobKnown(r)'
    BY <1>5, <1>9 DEF JobKnown
  <2>3. QED
    BY <2>1, <2>2
<1>11. /\ run' \in [Runs -> {Idle, Done} \cup RunRecord]
       /\ \A s \in Runs : Working(s)' => At(s, "upload")' \/ run'[s].flying = {}
       /\ Exclusive' /\ RunsKnow'
  BY <1>2, <1>3, <1>4, <1>5, <1>8, <1>9, <1>10, RunMoves
<1>12. QED
  BY <1>1, <1>2, <1>4, <1>8, <1>9, <1>11 DEF IInv, Typing

\* write_state's rename: what was on disk is synced, and one name changes.
LEMMA WriteStep ==
  ASSUME IInv, NEW r \in Runs, Write(r)
  PROVE  IInv'
<1> DEFINE S == Session(r)
<1>1. Typing /\ Held(r) /\ run[r] \in RunRecord /\ S \in Contents
      /\ run[r].pc = "write" /\ run[r].flying = {}
  BY Records DEF IInv, Write, Held, Working, At, Typing
<1>2. FileKnown(r) /\ JobKnown(r) /\ Exclusive
  BY <1>1 DEF IInv, RunsKnow
<1>3. PICK rec \in RunRecord :
        /\ rec.pc = "sync" /\ rec.session = S /\ rec.key = Key(r)
        /\ rec.created = run[r].created /\ rec.flying = {}
        /\ run' = [run EXCEPT ![r] = rec]
  <2> DEFINE rec == [run[r] EXCEPT !.pc = "sync"]
  <2>1. /\ rec \in RunRecord /\ rec.pc = "sync" /\ rec.session = S /\ rec.key = Key(r)
        /\ rec.created = run[r].created /\ rec.flying = {}
    BY <1>1 DEF RunRecord, Steps, Session, Key
  <2>2. run' = [run EXCEPT ![r] = rec]
    BY DEF Write, Goto
  <2>3. QED
    BY <2>1, <2>2
<1>4. /\ UNCHANGED <<file, jobs, late, acked, adopted>>
      /\ durable' = visible /\ visible' = [visible EXCEPT ![S] = Key(r)]
  BY DEF Write, history
<1>5. /\ run'[r] = rec /\ visible'[S] = Key(r) /\ Key(r) \in Keys
      /\ \A c \in Contents : c # S => visible'[c] = visible[c]
      /\ visible' \in [Contents -> Keys \cup {None}] /\ durable' \in [Contents -> Keys \cup {None}]
  BY <1>1, <1>2, <1>3, <1>4 DEF Typing, FileKnown
<1>6. \A c \in Contents, k \in Keys : Durable(c, k) => Durable(c, k)'
  <2>1. \A k \in Keys : visible[S] = k => Key(r) = k
    BY <1>2, UploadClientAssumption DEF FileKnown
  <2>2. QED
    BY <1>4, <1>5, <2>1 DEF Durable
<1>7. \A m \in late' : m \in Messages /\ Expected(m)
  BY <1>4, LateExpected
<1>8. /\ jobs' \in [Keys -> Jobs \cup {None}] /\ late' \subseteq Messages
      /\ acked' \subseteq Keys \X Chunks
      /\ LateKnown' /\ JobsNamed' /\ CompletedWhole' /\ AckedKept'
      /\ \A k \in Keys : Grows(k)
  BY <1>4, <1>6, <1>7, JobsKept
<1>9. FileKnown(r)' /\ JobKnown(r)'
  <2>1. FileKnown(r)'
    BY <1>1, <1>2, <1>3, <1>4, <1>5 DEF FileKnown, Unnamed, At, Session, Key
  <2>2. JobKnown(r)'
    BY <1>1, <1>2, <1>3, <1>4, <1>5 DEF JobKnown, At, Session, Key
  <2>3. QED
    BY <2>1, <2>2
<1>10. /\ run' \in [Runs -> {Idle, Done} \cup RunRecord]
       /\ \A s \in Runs : Working(s)' => At(s, "upload")' \/ run'[s].flying = {}
       /\ Exclusive' /\ RunsKnow'
  <2>1. \A s \in Runs : s # r /\ Held(s) => Session(s) \in Contents /\ Session(s) # S
    BY <1>1, <1>2, Records DEF Exclusive, Held
  <2>2. ~At(r, "lock")'
    BY <1>3, <1>5 DEF At
  <2>3. QED
    BY <1>1, <1>3, <1>4, <1>5, <1>8, <1>9, <2>1, <2>2, RunMoves
<1>11. QED
  BY <1>1, <1>4, <1>5, <1>8, <1>10 DEF IInv, Typing

\* write_state's sync of the directory
LEMMA SyncStep ==
  ASSUME IInv, NEW r \in Runs, Sync(r)
  PROVE  IInv'
<1> DEFINE S == Session(r)
<1>1. Typing /\ Held(r) /\ run[r] \in RunRecord /\ S \in Contents
      /\ run[r].pc = "sync" /\ run[r].flying = {}
  BY Records DEF IInv, Sync, Held, Working, At, Typing
<1>2. FileKnown(r) /\ JobKnown(r) /\ Exclusive
  BY <1>1 DEF IInv, RunsKnow
<1>3. PICK rec \in RunRecord :
        /\ rec.session = S /\ rec.key = Key(r)
        /\ rec.pc = (IF run[r].created THEN "status" ELSE "create")
        /\ rec.created = run[r].created /\ rec.flying = {}
        /\ run' = [run EXCEPT ![r] = rec]
  <2> DEFINE rec == [run[r] EXCEPT !.pc = AfterSync(r)]
  <2>1. /\ rec \in RunRecord /\ rec.session = S /\ rec.key = Key(r)
        /\ rec.pc = (IF run[r].created THEN "status" ELSE "create")
        /\ rec.created = run[r].created /\ rec.flying = {}
    BY <1>1 DEF RunRecord, Steps, Session, Key, AfterSync
  <2>2. run' = [run EXCEPT ![r] = rec]
    BY DEF Sync, Goto
  <2>3. QED
    BY <2>1, <2>2
<1>4. UNCHANGED <<file, visible, jobs, late, acked, adopted>> /\ durable' = visible
  BY DEF Sync, history
<1>5. run'[r] = rec /\ visible[S] = Key(r) /\ Key(r) \in Keys
  BY <1>1, <1>2, <1>3, <1>4 DEF Typing, FileKnown, Unnamed, At
<1>6. \A c \in Contents, k \in Keys : Durable(c, k) => Durable(c, k)'
  BY <1>4 DEF Durable
<1>7. \A m \in late' : m \in Messages /\ Expected(m)
  BY <1>4, LateExpected
<1>8. /\ jobs' \in [Keys -> Jobs \cup {None}] /\ late' \subseteq Messages
      /\ acked' \subseteq Keys \X Chunks
      /\ LateKnown' /\ JobsNamed' /\ CompletedWhole' /\ AckedKept'
      /\ \A k \in Keys : Grows(k)
  BY <1>4, <1>6, <1>7, JobsKept
<1>9. FileKnown(r)' /\ JobKnown(r)'
  <2>1. FileKnown(r)'
    BY <1>3, <1>4, <1>5 DEF FileKnown, Unnamed, At, Session, Key
  <2>2. JobKnown(r)'
    BY <1>2, <1>3, <1>4, <1>5 DEF JobKnown, At, Session, Key
  <2>3. QED
    BY <2>1, <2>2
<1>10. /\ run' \in [Runs -> {Idle, Done} \cup RunRecord]
       /\ \A s \in Runs : Working(s)' => At(s, "upload")' \/ run'[s].flying = {}
       /\ Exclusive' /\ RunsKnow'
  <2>1. ~At(r, "lock")'
    BY <1>3, <1>5 DEF At
  <2>2. QED
    BY <1>1, <1>3, <1>4, <1>8, <1>9, <2>1, RunMoves
<1>11. QED
  BY <1>1, <1>4, <1>8, <1>10 DEF IInv, Typing

\* The server's answer to a run's request: the job becomes more, and so does
\* what this run knows of it.
LEMMA RequestMove ==
  ASSUME IInv, NEW r \in Runs, Held(r), NEW m \in UnderWay(r), Handle(m),
         UNCHANGED <<file, disk, late, adopted>>,
         NEW rec \in {Idle, Done} \cup RunRecord, run' = [run EXCEPT ![r] = rec],
         Working(r)' => /\ rec.pc # "lock" /\ rec.session = Session(r)
                        /\ rec.pc = "upload" \/ rec.flying = {},
         Held(r)' => FileKnown(r)' /\ JobKnown(r)',
         acked' \subseteq Keys \X Chunks,
         \A a \in acked' : a \in acked \/ ( /\ run[r].created /\ a[1] = Key(r)
                                            /\ jobs'[a[1]] # None
                                            /\ jobs'[a[1]].chunks[a[2]] # None)
  PROVE  IInv'
<1>1. Typing
  BY DEF IInv
<1>2. m \in Messages /\ Expected(m)
  BY UnderWayExpected
<1>3. /\ jobs' \in [Keys -> Jobs \cup {None}]
      /\ \A k \in Keys : Grows(k)
      /\ JobsNamed' /\ CompletedWhole'
      /\ \A a \in acked : jobs'[a[1]] # None /\ jobs'[a[1]].chunks[a[2]] # None
  BY <1>2, HandleKeeps
<1>4. run'[r] = rec /\ visible' = visible /\ durable' = durable
  BY <1>1 DEF Typing, disk
<1>5. AckedKept'
  BY <1>3 DEF AckedKept
<1>6. LateKnown'
  <2>1. \A q \in late' : q \in Messages /\ Expected(q)
    BY LateExpected
  <2>2. \A q \in late' : jobs[q.key] = None /\ ~adopted' =>
           visible'[q.sha] = q.key /\ durable'[q.sha] = q.key
    BY <1>4, <2>1 DEF Expected, Durable
  <2>3. QED
    BY <1>3, <2>1, <2>2, LateKept
<1>7. /\ run' \in [Runs -> {Idle, Done} \cup RunRecord]
      /\ \A s \in Runs : Working(s)' => At(s, "upload")' \/ run'[s].flying = {}
      /\ Exclusive' /\ RunsKnow'
  <2>1. /\ At(r, "lock")' => ~rec.created
        /\ Working(r)' => At(r, "upload")' \/ rec.flying = {}
        /\ Held(r)' => rec.session = Session(r)
    BY <1>4 DEF Held, At, Working, Idle, Done
  <2>2. QED
    BY <1>3, <1>4, <2>1, RunMoves
<1>8. QED
  BY <1>1, <1>3, <1>4, <1>5, <1>6, <1>7 DEF IInv, Typing

\* create_or_discover_job
LEMMA CreateStep ==
  ASSUME IInv, NEW r \in Runs, Create(r)
  PROVE  IInv'
<1> DEFINE m == CreateMsg(r)
<1>1. Typing /\ Held(r) /\ run[r] \in RunRecord /\ Working(r) /\ At(r, "create")
      /\ run[r].flying = {} /\ FileKnown(r)
  BY Records DEF IInv, Create, Held, Working, At, Typing, RunsKnow
<1>2. m \in UnderWay(r) /\ Handle(m)
  BY <1>1 DEF UnderWay, Create
<1>3. UNCHANGED <<file, disk, late, adopted, acked>>
  BY DEF Create, history
<1>4. CASE Accepted(m)
  <2>1. PICK rec \in RunRecord :
          /\ rec.pc = "write" /\ rec.session = Session(r) /\ rec.key = Key(r)
          /\ rec.created /\ rec.flying = {}
          /\ run' = [run EXCEPT ![r] = rec]
    <3> DEFINE rec == [run[r] EXCEPT !.pc = "write", !.created = TRUE]
    <3>1. /\ rec \in RunRecord /\ rec.pc = "write" /\ rec.session = Session(r)
          /\ rec.key = Key(r) /\ rec.created /\ rec.flying = {}
      BY <1>1 DEF RunRecord, Steps, Session, Key
    <3>2. run' = [run EXCEPT ![r] = rec]
      BY <1>1, <1>4 DEF Create, Typing
    <3>3. QED
      BY <3>1, <3>2
  <2>2. run'[r] = rec /\ visible' = visible /\ durable' = durable
    BY <1>1, <1>3, <2>1 DEF Typing, disk
  <2>3. FileKnown(r)'
    BY <1>1, <1>3, <2>1, <2>2 DEF FileKnown, Unnamed, At, Session, Key
  <2>4. JobKnown(r)'
    <3>1. m \in Messages /\ Expected(m) /\ m.key = Key(r) /\ m.sha = Session(r)
      BY <1>2, UnderWayExpected DEF CreateMsg, Payload
    <3>2. Key(r) \in Keys /\ jobs'[Key(r)] = After(m) /\ After(m) \in Jobs
      BY <1>1, <1>2, <3>1, AfterIsJob DEF Typing, Handle
    <3>3. After(m).sha = Session(r)
      BY <1>4, <3>1 DEF Accepted, CreateMsg
    <3>4. jobs'[Key(r)] # None /\ jobs'[Key(r)].sha = Session(r)
      BY <3>2, <3>3, UploadClientAssumption
    <3>5. QED
      BY <2>1, <2>2, <3>4 DEF JobKnown, At, Session, Key
  <2>5. QED
    BY <1>1, <1>2, <1>3, <2>1, <2>2, <2>3, <2>4, RequestMove DEF Typing
<1>5. CASE ~Accepted(m)
  <2>1. run' = [run EXCEPT ![r] = Idle]
    BY <1>5 DEF Create, Exit
  <2>2. ~Working(r)' /\ ~Held(r)'
    BY <1>1, <2>1 DEF Typing, Working, Held, Idle
  <2>3. QED
    BY <1>1, <1>2, <1>3, <2>1, <2>2, RequestMove DEF Typing
<1>6. QED
  BY <1>4, <1>5

\* complete_job
LEMMA CompleteStep ==
  ASSUME IInv, NEW r \in Runs, Complete(r)
  PROVE  IInv'
<1> DEFINE m == CompleteMsg(r)
<1>1. Typing /\ Held(r) /\ run[r] \in RunRecord /\ Working(r) /\ At(r, "complete")
      /\ run[r].flying = {} /\ FileKnown(r) /\ JobKnown(r)
  BY Records DEF IInv, Complete, Held, Working, At, Typing, RunsKnow
<1>2. m \in UnderWay(r) /\ Handle(m)
  BY <1>1 DEF UnderWay, Complete
<1>3. UNCHANGED <<file, disk, late, adopted, acked>>
  BY DEF Complete, history
<1>4. PICK rec \in RunRecord :
        /\ rec.pc = "status" /\ rec.session = Session(r) /\ rec.key = Key(r)
        /\ rec.created = run[r].created /\ rec.flying = {}
        /\ run' = [run EXCEPT ![r] = rec]
  <2> DEFINE rec == [run[r] EXCEPT !.pc = "status"]
  <2>1. /\ rec \in RunRecord /\ rec.pc = "status" /\ rec.session = Session(r)
        /\ rec.key = Key(r) /\ rec.created = run[r].created /\ rec.flying = {}
    BY <1>1 DEF RunRecord, Steps, Session, Key
  <2>2. run' = [run EXCEPT ![r] = rec]
    BY DEF Complete, Goto
  <2>3. QED
    BY <2>1, <2>2
<1>5. run'[r] = rec /\ visible' = visible /\ durable' = durable
  BY <1>1, <1>3, <1>4 DEF Typing, disk
<1>6. FileKnown(r)'
  BY <1>1, <1>3, <1>4, <1>5 DEF FileKnown, Unnamed, At, Session, Key
<1>7. JobKnown(r)'
  <2>1. m \in Messages /\ Expected(m)
    BY <1>2, UnderWayExpected
  <2>2. Key(r) \in Keys /\ Grows(Key(r))
    BY <1>1, <1>2, <1>3, <2>1, HandleKeeps DEF FileKnown
  <2>3. QED
    BY <1>1, <1>4, <1>5, <2>2 DEF JobKnown, Grows, At, Session, Key
<1>8. QED
  BY <1>1, <1>2, <1>3, <1>4, <1>5, <1>6, <1>7, RequestMove DEF Typing

\* A PUT is answered: its chunk is verified, or the run will end.
LEMMA AnswerPutStep ==
  ASSUME IInv, NEW r \in Runs, AnswerPut(r)
  PROVE  IInv'
<1>1. PICK f \in run[r].flying :
        /\ Working(r) /\ Handle(PutMsg(r, f))
        /\ run' = [run EXCEPT ![r].flying = @ \ {f},
                              ![r].failed = @ \/ ~Accepted(PutMsg(r, f))]
        /\ acked' = IF Accepted(PutMsg(r, f)) THEN acked \cup {<<Key(r), f.chunk>>} ELSE acked
        /\ UNCHANGED <<file, disk, late, adopted>>
  BY DEF AnswerPut
<1> DEFINE m == PutMsg(r, f)
<1>2. Typing /\ run[r] \in RunRecord /\ At(r, "upload") /\ Held(r)
  BY <1>1, Records DEF IInv, Held, At, Typing
<1>3. /\ FileKnown(r) /\ JobKnown(r) /\ run[r].created /\ Key(r) \in Keys
      /\ f.chunk \in Chunks /\ f.body \in Contents
  BY <1>1, <1>2 DEF IInv, RunsKnow, FileKnown, RunRecord, At
<1>4. m \in UnderWay(r) /\ m.key = Key(r) /\ m.chunk = f.chunk /\ m.body = f.body
      /\ m.kind = "put" /\ m \in Messages /\ Expected(m)
  <2>1. m \in UnderWay(r)
    BY <1>1 DEF UnderWay
  <2>2. m \in Messages /\ Expected(m)
    BY <2>1, UnderWayExpected
  <2>3. QED
    BY <2>1, <2>2 DEF PutMsg
<1>5. PICK rec \in RunRecord :
        /\ rec.pc = "upload" /\ rec.session = Session(r) /\ rec.key = Key(r)
        /\ rec.created = run[r].created /\ rec.flying = run[r].flying \ {f}
        /\ rec.todo = run[r].todo /\ rec.failed = (run[r].failed \/ ~Accepted(m))
        /\ run' = [run EXCEPT ![r] = rec]
  <2> DEFINE rec == [run[r] EXCEPT !.flying = @ \ {f}, !.failed = @ \/ ~Accepted(m)]
  <2>1. (run[r].failed \/ ~Accepted(m)) \in BOOLEAN
    OBVIOUS
  <2>2. /\ rec \in RunRecord /\ rec.pc = "upload" /\ rec.session = Session(r)
        /\ rec.key = Key(r) /\ rec.created = run[r].created
        /\ rec.flying = run[r].flying \ {f} /\ rec.todo = run[r].todo
        /\ rec.failed = (run[r].failed \/ ~Accepted(m))
    BY <1>2, <2>1 DEF RunRecord, Session, Key, At
  <2>3. run' = [run EXCEPT ![r] = rec]
    BY <1>1, <1>2 DEF Typing
  <2>4. QED
    BY <2>2, <2>3
<1>6. run'[r] = rec /\ visible' = visible /\ durable' = durable
  BY <1>1, <1>2, <1>5 DEF Typing, disk
<1>7. Grows(Key(r)) /\ jobs' \in [Keys -> Jobs \cup {None}]
      /\ jobs'[Key(r)] = After(m) /\ After(m) # None
  <2>1. Grows(Key(r)) /\ jobs' \in [Keys -> Jobs \cup {None}]
    BY <1>1, <1>3, <1>4, HandleKeeps
  <2>2. jobs'[Key(r)] = After(m) /\ After(m) # None
    BY <1>1, <1>2, <1>3, <1>4, AfterIsJob, UploadClientAssumption DEF Handle, Typing
  <2>3. QED
    BY <2>1, <2>2
<1>8. Accepted(m) => jobs'[Key(r)].chunks[f.chunk] # None
  BY <1>3, <1>4, <1>7, UploadClientAssumption DEF Accepted
<1>9. FileKnown(r)'
  BY <1>1, <1>3, <1>5, <1>6 DEF FileKnown, Unnamed, At, Session, Key
<1>10. JobKnown(r)'
  <2> DEFINE job == jobs'[Key(r)]
  <2>1. job # None /\ job.sha = Session(r) /\ job.stage # "Waiting"
    BY <1>2, <1>3, <1>7 DEF JobKnown, Grows, At
  <2>2. ASSUME ~rec.failed, job.stage = "Receiving", NEW n \in Chunks
        PROVE  job.chunks[n] # None \/ n \in rec.todo \/ n \in {g.chunk : g \in rec.flying}
    <3>1. /\ jobs[Key(r)].stage = "Receiving"
          /\ jobs[Key(r)].chunks[n] # None => job.chunks[n] # None
      BY <1>2, <1>3, <1>7, <2>2 DEF JobKnown, Grows, At
    <3>2. jobs[Key(r)].chunks[n] # None \/ n \in run[r].todo \/ n \in Flying(r)
      BY <1>2, <1>3, <1>5, <2>2, <3>1 DEF JobKnown, At
    <3>3. CASE n \in Flying(r)
      <4>1. PICK g \in run[r].flying : n = g.chunk
        BY <3>3 DEF Flying
      <4>2. CASE g = f
        BY <1>5, <1>8, <2>2, <4>1, <4>2
      <4>3. CASE g # f
        BY <1>5, <4>1, <4>3
      <4>4. QED
        BY <4>2, <4>3
    <3>4. QED
      BY <1>5, <3>1, <3>2, <3>3
  <2>3. ASSUME NEW n \in rec.todo
        PROVE  n \notin {g.chunk : g \in rec.flying} /\ <<Key(r), n>> \notin acked'
    <3>1. n \in run[r].todo /\ n \notin Flying(r) /\ <<Key(r), n>> \notin acked
      BY <1>2, <1>3, <1>5, <2>3 DEF JobKnown
    <3>2. n # f.chunk /\ n \notin {g.chunk : g \in rec.flying}
      BY <1>5, <3>1 DEF Flying
    <3>3. QED
      BY <1>1, <3>1, <3>2
  <2>4. QED
    BY <1>5, <1>6, <2>1, <2>2, <2>3 DEF JobKnown, Flying, At, Session, Key
<1>11. acked' \subseteq Keys \X Chunks
  BY <1>1, <1>2, <1>3 DEF Typing
<1>12. \A a \in acked' : a \in acked \/ ( /\ run[r].created /\ a[1] = Key(r)
                                          /\ jobs'[a[1]] # None
                                          /\ jobs'[a[1]].chunks[a[2]] # None)
  BY <1>1, <1>3, <1>7, <1>8
<1>13. QED
  BY <1>1, <1>2, <1>4, <1>5, <1>6, <1>9, <1>10, <1>11, <1>12, RequestMove

\* A run asks for its job's state, and goes where the answer sends it.
LEMMA StatusStep ==
  ASSUME IInv, NEW r \in Runs, Status(r)
  PROVE  IInv'
<1>1. Typing /\ Held(r) /\ run[r] \in RunRecord /\ At(r, "status") /\ run[r].flying = {}
      /\ FileKnown(r) /\ JobKnown(r) /\ run[r].created
  BY Records DEF IInv, Status, Held, Working, At, Typing, RunsKnow, FileKnown
<1>2. UNCHANGED <<file, disk, jobs, late, acked, adopted>>
  BY DEF Status, history
<1>3. ASSUME NEW pc \in {"list", "remove"}, Goto(r, pc),
             jobs[Key(r)].stage = IF pc = "list" THEN "Receiving" ELSE "Expired"
      PROVE  IInv'
  <2>1. PICK rec \in RunRecord :
          /\ rec.pc = pc /\ rec.session = Session(r) /\ rec.key = Key(r)
          /\ rec.created /\ rec.flying = {}
          /\ run' = [run EXCEPT ![r] = rec]
    <3> DEFINE rec == [run[r] EXCEPT !.pc = pc]
    <3>1. /\ rec \in RunRecord /\ rec.pc = pc /\ rec.session = Session(r)
          /\ rec.key = Key(r) /\ rec.created /\ rec.flying = {}
      BY <1>1 DEF RunRecord, Steps, Session, Key
    <3>2. run' = [run EXCEPT ![r] = rec]
      BY <1>3 DEF Goto
    <3>3. QED
      BY <3>1, <3>2
  <2>2. run'[r] = rec /\ visible' = visible /\ durable' = durable
    BY <1>1, <1>2, <2>1 DEF Typing, disk
  <2>3. FileKnown(r)'
    BY <1>1, <1>2, <2>1, <2>2 DEF FileKnown, Unnamed, At, Session, Key
  <2>4. JobKnown(r)'
    BY <1>1, <1>2, <1>3, <2>1, <2>2 DEF JobKnown, At, Session, Key
  <2>5. QED
    BY <1>1, <1>2, <1>3, <2>1, <2>3, <2>4, QuietMove
<1>4. ASSUME NEW rec \in {Idle, Done}, run' = [run EXCEPT ![r] = rec] PROVE IInv'
  <2>1. ~Working(r)' /\ ~Held(r)'
    BY <1>1, <1>4 DEF Typing, Working, Held, Idle, Done
  <2>2. QED
    BY <1>1, <1>2, <1>4, <2>1, QuietMove
<1>5. QED
  BY <1>3, <1>4 DEF Status, Exit

\* The missing chunks are listed.
LEMMA ListStep ==
  ASSUME IInv, NEW r \in Runs, List(r)
  PROVE  IInv'
<1>1. Typing /\ Held(r) /\ run[r] \in RunRecord /\ At(r, "list") /\ run[r].flying = {}
      /\ FileKnown(r) /\ JobKnown(r) /\ run[r].created /\ Key(r) \in Keys
  BY Records DEF IInv, List, Held, Working, At, Typing, RunsKnow, FileKnown
<1>2. UNCHANGED <<file, disk, jobs, late, acked, adopted>>
  BY DEF List, history
<1>3. PICK rec \in RunRecord :
        /\ rec.pc = "upload" /\ rec.session = Session(r) /\ rec.key = Key(r)
        /\ rec.created /\ rec.flying = {}
        /\ rec.todo = {n \in Chunks : jobs[Key(r)].chunks[n] = None}
        /\ run' = [run EXCEPT ![r] = rec]
  <2> DEFINE rec == [run[r] EXCEPT !.pc = "upload", !.todo = Missing(jobs[Key(r)])]
  <2>1. Missing(jobs[Key(r)]) = {n \in Chunks : jobs[Key(r)].chunks[n] = None}
    BY DEF Missing, Verified
  <2>2. /\ rec \in RunRecord /\ rec.pc = "upload" /\ rec.session = Session(r)
        /\ rec.key = Key(r) /\ rec.created /\ rec.flying = {}
        /\ rec.todo = {n \in Chunks : jobs[Key(r)].chunks[n] = None}
    BY <1>1, <2>1 DEF RunRecord, Steps, Session, Key
  <2>3. run' = [run EXCEPT ![r] = rec]
    BY <1>1 DEF List, Typing
  <2>4. QED
    BY <2>2, <2>3
<1>4. run'[r] = rec /\ visible' = visible /\ durable' = durable
  BY <1>1, <1>2, <1>3 DEF Typing, disk
<1>5. FileKnown(r)'
  BY <1>1, <1>2, <1>3, <1>4 DEF FileKnown, Unnamed, At, Session, Key
<1>6. JobKnown(r)'
  <2>1. \A n \in rec.todo : <<Key(r), n>> \notin acked
    BY <1>1, <1>3 DEF IInv, AckedKept
  <2>2. QED
    BY <1>1, <1>2, <1>3, <1>4, <2>1 DEF JobKnown, Flying, At, Session, Key
<1>7. QED
  BY <1>1, <1>2, <1>3, <1>5, <1>6, QuietMove

\* A chunk is cut and sent.
LEMMA StartPutStep ==
  ASSUME IInv, NEW r \in Runs, StartPut(r)
  PROVE  IInv'
<1>1. Typing /\ Held(r) /\ run[r] \in RunRecord /\ At(r, "upload") /\ ~BatchFull(r)
      /\ FileKnown(r) /\ JobKnown(r) /\ run[r].created
  BY Records DEF IInv, StartPut, Held, Working, At, Typing, RunsKnow, FileKnown
<1>2. UNCHANGED <<file, disk, jobs, late, acked, adopted>>
  BY DEF StartPut, history
<1>3. PICK n \in run[r].todo, f \in [chunk : Chunks, body : Contents] :
        /\ f.chunk = n
        /\ run' = [run EXCEPT ![r].todo = @ \ {n}, ![r].batch = @ + 1, ![r].flying = @ \cup {f}]
  <2>1. PICK n \in run[r].todo :
          run' = [run EXCEPT ![r].todo = @ \ {n}, ![r].batch = @ + 1,
                             ![r].flying = @ \cup {[chunk |-> n, body |-> file]}]
    BY DEF StartPut
  <2>2. [chunk |-> n, body |-> file] \in [chunk : Chunks, body : Contents]
    BY <1>1 DEF RunRecord, Typing
  <2>3. QED
    BY <2>1, <2>2
<1>4. PICK rec \in RunRecord :
        /\ rec.pc = "upload" /\ rec.session = Session(r) /\ rec.key = Key(r)
        /\ rec.created /\ rec.flying = run[r].flying \cup {f}
        /\ rec.todo = run[r].todo \ {n} /\ rec.failed = run[r].failed
        /\ run' = [run EXCEPT ![r] = rec]
  <2> DEFINE rec == [run[r] EXCEPT !.todo = @ \ {n}, !.batch = @ + 1, !.flying = @ \cup {f}]
  <2>1. run[r].batch + 1 \in 0 .. Parallelism
    BY <1>1, UploadClientAssumption DEF BatchFull, RunRecord
  <2>2. n \in Chunks
    BY <1>1 DEF RunRecord
  <2>3. /\ rec \in RunRecord /\ rec.pc = "upload" /\ rec.session = Session(r)
        /\ rec.key = Key(r) /\ rec.created /\ rec.flying = run[r].flying \cup {f}
        /\ rec.todo = run[r].todo \ {n} /\ rec.failed = run[r].failed
    BY <1>1, <1>3, <2>1, <2>2 DEF RunRecord, Session, Key, At
  <2>4. run' = [run EXCEPT ![r] = rec]
    BY <1>1, <1>3 DEF Typing
  <2>5. QED
    BY <2>3, <2>4
<1>5. run'[r] = rec /\ visible' = visible /\ durable' = durable
  BY <1>1, <1>2, <1>4 DEF Typing, disk
<1>6. FileKnown(r)'
  BY <1>1, <1>2, <1>4, <1>5 DEF FileKnown, Unnamed, At, Session, Key
<1>7. JobKnown(r)'
  <2>1. {g.chunk : g \in rec.flying} = Flying(r) \cup {n}
    BY <1>3, <1>4 DEF Flying
  <2>2. /\ jobs[Key(r)] # None /\ jobs[Key(r)].sha = Session(r)
        /\ jobs[Key(r)].stage # "Waiting"
        /\ ~rec.failed /\ jobs[Key(r)].stage = "Receiving" =>
             \A q \in Chunks : jobs[Key(r)].chunks[q] # None \/ q \in run[r].todo \/ q \in Flying(r)
        /\ \A q \in run[r].todo : q \notin Flying(r) /\ <<Key(r), q>> \notin acked
    BY <1>1, <1>4 DEF JobKnown, At
  <2>3. \A q \in run[r].todo : q \in rec.todo \/ q \in {g.chunk : g \in rec.flying}
    BY <1>4, <2>1
  <2>4. \A q \in rec.todo : q \in run[r].todo /\ q \notin {g.chunk : g \in rec.flying}
    BY <1>4, <2>1, <2>2
  <2>5. QED
    BY <1>2, <1>4, <1>5, <2>1, <2>2, <2>3, <2>4 DEF JobKnown, Flying, At, Session, Key
<1>8. QED
  BY <1>1, <1>2, <1>4, <1>6, <1>7, QuietMove

\* A run that begins the next batch knows of its job what it knew before.
LEMMA NextBatch ==
  ASSUME NEW r \in Runs, JobKnown(r), run[r].pc = "upload", run[r].flying = {},
         run'[r].pc = "upload", run'[r].created = run[r].created,
         run'[r].key = run[r].key, run'[r].session = run[r].session,
         run'[r].todo = run[r].todo, run'[r].flying = run[r].flying,
         run'[r].failed = run[r].failed, jobs' = jobs, acked' = acked
  PROVE  JobKnown(r)'
BY DEF JobKnown, Flying, Key, Session, At

\* A batch has ended.
LEMMA WaitPutsStep ==
  ASSUME IInv, NEW r \in Runs, WaitPuts(r)
  PROVE  IInv'
<1>1. Typing /\ Held(r) /\ run[r] \in RunRecord /\ At(r, "upload") /\ run[r].flying = {}
      /\ FileKnown(r) /\ JobKnown(r) /\ run[r].created
  BY Records DEF IInv, WaitPuts, Held, Working, At, Typing, RunsKnow, FileKnown
<1>2. UNCHANGED <<file, disk, jobs, late, acked, adopted>>
  BY DEF WaitPuts, history
<1>3. CASE Exit(r)
  <2>1. run' = [run EXCEPT ![r] = Idle] /\ ~Working(r)' /\ ~Held(r)'
    BY <1>1, <1>3 DEF Exit, Typing, Working, Held, Idle
  <2>2. QED
    BY <1>1, <1>2, <2>1, QuietMove
<1>4. ASSUME NEW pc \in {"upload", "complete"}, ~run[r].failed,
             pc = "complete" => run[r].todo = {},
             run' = [run EXCEPT ![r].pc = pc, ![r].batch = 0]
      PROVE  IInv'
  <2>1. PICK rec \in RunRecord :
          /\ rec.pc = pc /\ rec.session = Session(r) /\ rec.key = Key(r)
          /\ rec.created /\ rec.flying = {} /\ rec.todo = run[r].todo
          /\ rec.failed = run[r].failed
          /\ run' = [run EXCEPT ![r] = rec]
    <3> DEFINE rec == [run[r] EXCEPT !.pc = pc, !.batch = 0]
    <3>1. 0 \in 0 .. Parallelism
      BY UploadClientAssumption
    <3>2. rec \in RunRecord
      BY <1>1, <3>1 DEF RunRecord, Steps
    <3>3. /\ rec.pc = pc /\ rec.session = Session(r)
          /\ rec.key = Key(r) /\ rec.created /\ rec.flying = {} /\ rec.todo = run[r].todo
          /\ rec.failed = run[r].failed
      BY <1>1 DEF RunRecord, Session, Key
    <3>4. run' = [run EXCEPT ![r] = rec]
      BY <1>1, <1>4 DEF Typing
    <3>5. QED
      BY <3>2, <3>3, <3>4
  <2>2. run'[r] = rec /\ visible' = visible /\ durable' = durable
    BY <1>1, <1>2, <2>1 DEF Typing, disk
  <2>3. FileKnown(r)'
    BY <1>1, <1>2, <2>1, <2>2 DEF FileKnown, Unnamed, At, Session, Key
  <2>4. JobKnown(r)'
    <3>0. Flying(r)' = {} /\ Key(r)' = Key(r) /\ Session(r)' = Session(r)
      BY <2>1, <2>2 DEF Flying, Key, Session
    <3>1. /\ jobs[Key(r)] # None /\ jobs[Key(r)].sha = Session(r)
          /\ jobs[Key(r)].stage # "Waiting"
          /\ jobs[Key(r)].stage = "Receiving" =>
               \A n \in Chunks : jobs[Key(r)].chunks[n] # None \/ n \in rec.todo
          /\ \A n \in rec.todo : <<Key(r), n>> \notin acked
      BY <1>1, <1>4, <2>1 DEF JobKnown, Flying, At
    <3>4. CASE pc = "upload"
      <4>1. /\ run[r].pc = "upload" /\ run[r].flying = {} /\ run[r].created
            /\ run[r].key = Key(r) /\ run[r].session = Session(r)
        BY <1>1 DEF At, Key, Session
      <4>2. /\ rec.pc = "upload" /\ rec.created /\ rec.key = run[r].key
            /\ rec.session = run[r].session /\ rec.todo = run[r].todo
            /\ rec.flying = run[r].flying /\ rec.failed = run[r].failed
        BY <2>1, <3>4, <4>1
      <4>3. run'[r] = rec /\ jobs' = jobs /\ acked' = acked
        BY <1>2, <2>2
      <4>4. JobKnown(r)
        BY <1>1
      <4>5. /\ run'[r].pc = "upload" /\ run'[r].created = run[r].created
            /\ run'[r].key = run[r].key /\ run'[r].session = run[r].session
            /\ run'[r].todo = run[r].todo /\ run'[r].flying = run[r].flying
            /\ run'[r].failed = run[r].failed
        BY <4>1, <4>2, <4>3
      <4>6. QED
        BY <4>1, <4>3, <4>4, <4>5, NextBatch
    <3>5. CASE pc = "complete"
      <4>1. /\ run'[r].pc = "complete" /\ run'[r].todo = {} /\ run[r].todo = {}
            /\ ~run'[r].failed
        BY <1>4, <2>1, <2>2, <3>5
      <4>2. jobs' = jobs
        BY <1>2
      <4>3. jobs[Key(r)].stage = "Receiving" =>
              \A n \in Chunks : jobs[Key(r)].chunks[n] # None
        BY <2>1, <3>1, <4>1
      <4>4. /\ jobs[Key(r)] # None /\ jobs[Key(r)].sha = Session(r)
            /\ jobs[Key(r)].stage # "Waiting"
        BY <3>1
      <4>5. Key(r)' = Key(r) /\ Session(r)' = Session(r)
        BY <3>0
      <4>6. QED
        BY <4>1, <4>2, <4>3, <4>4, <4>5 DEF JobKnown, At
    <3>6. QED
      BY <3>4, <3>5
  <2>5. QED
    BY <1>1, <1>2, <1>4, <2>1, <2>3, <2>4, QuietMove
<1>5. CASE /\ ~AnyFailed(r) /\ run[r].todo # {} /\ run' = [run EXCEPT ![r].batch = 0]
  <2>1. run' = [run EXCEPT ![r].pc = "upload", ![r].batch = 0]
    <3>1. [run[r] EXCEPT !.batch = 0] = [run[r] EXCEPT !.pc = "upload", !.batch = 0]
      BY <1>1 DEF At, RunRecord
    <3>2. run' = [run EXCEPT ![r] = [run[r] EXCEPT !.batch = 0]]
      BY <1>5
    <3>3. run' = [run EXCEPT ![r] = [run[r] EXCEPT !.pc = "upload", !.batch = 0]]
      BY <3>1, <3>2
    <3>4. QED
      BY <3>3
  <2>2. QED
    BY <1>4, <1>5, <2>1 DEF AnyFailed
<1>6. QED
  BY <1>3, <1>4, <1>5 DEF WaitPuts, AnyFailed

\* The state file of an expired job is removed.
LEMMA RemoveStep ==
  ASSUME IInv, NEW r \in Runs, Remove(r)
  PROVE  IInv'
<1> DEFINE S == Session(r)
<1>1. Typing /\ Held(r) /\ S \in Contents /\ At(r, "remove") /\ Exclusive
      /\ FileKnown(r) /\ JobKnown(r) /\ run[r].created
  BY Records DEF IInv, Remove, Held, Working, At, RunsKnow, FileKnown
<1>2. UNCHANGED <<file, durable, jobs, late, acked, adopted>>
      /\ visible' = [visible EXCEPT ![S] = None] /\ run' = [run EXCEPT ![r] = Idle]
  BY DEF Remove, Exit, history
<1>3. /\ visible[S] = Key(r) /\ Key(r) \in Keys
      /\ jobs[Key(r)] # None /\ jobs[Key(r)].stage = "Expired"
  BY <1>1 DEF FileKnown, JobKnown, Unnamed, At
<1>4. \A c \in Contents, k \in Keys : Durable(c, k) /\ k # Key(r) => Durable(c, k)'
  BY <1>1, <1>2, <1>3 DEF Typing, Durable
<1>5. /\ visible' \in [Contents -> Keys \cup {None}]
      /\ \A c \in Contents : c # S => visible'[c] = visible[c]
  BY <1>1, <1>2 DEF Typing
<1>6. \A k \in Keys : Grows(k)
  BY <1>2 DEF Grows
<1>7. LateKnown'
  <2>1. SUFFICES ASSUME NEW m \in late', jobs'[m.key] = None
                 PROVE  m.kind = "create" /\ Durable(m.sha, m.key)'
    BY DEF LateKnown
  <2>2. m \in Messages /\ m.kind = "create" /\ Durable(m.sha, m.key) /\ m.key # Key(r)
    BY <1>2, <1>3, <2>1, LateExpected DEF Expected
  <2>3. m.sha \in Contents /\ m.key \in Keys
    BY <2>2 DEF Messages
  <2>4. QED
    BY <1>4, <2>2, <2>3
<1>8. JobsNamed'
  <2>1. SUFFICES ASSUME NEW k \in Keys, jobs'[k] # None, jobs'[k].stage # "Expired"
                 PROVE  Durable(jobs[k].sha, k)'
    BY DEF JobsNamed
  <2>2. PICK c \in Contents : c = jobs[k].sha /\ jobs'[k].sha = c /\ Durable(c, k) /\ k # Key(r)
    BY <1>1, <1>2, <1>3, <2>1 DEF Typing, Jobs, IInv, JobsNamed
  <2>3. Durable(c, k)'
    BY <1>4, <2>2
  <2>4. QED
    BY <2>2, <2>3 DEF Durable
<1>9. CompletedWhole' /\ AckedKept'
  BY <1>2 DEF IInv, CompletedWhole, AckedKept, JobIn
<1>10. /\ run' \in [Runs -> {Idle, Done} \cup RunRecord]
       /\ \A s \in Runs : Working(s)' => At(s, "upload")' \/ run'[s].flying = {}
       /\ Exclusive' /\ RunsKnow'
  <2>1. ~Working(r)' /\ ~Held(r)' /\ ~At(r, "lock")'
    BY <1>1, <1>2 DEF Typing, Working, Held, At, Idle
  <2>2. \A s \in Runs : s # r /\ Held(s) => Session(s) \in Contents /\ Session(s) # S
    BY <1>1, Records DEF Exclusive, Held
  <2>3. QED
    BY <1>2, <1>5, <1>6, <2>1, <2>2, RunMoves
<1>11. QED
  BY <1>1, <1>2, <1>5, <1>7, <1>8, <1>9, <1>10 DEF IInv, Typing

-----------------------------------------------------------------------------
(* Steps in which no run moves, or runs end *)

\* Requests that are left behind were under way.
LEMMA Stranded ==
  ASSUME IInv, NEW msgs, Strand(msgs), \A m \in msgs : \E r \in Runs : m \in UnderWay(r)
  PROVE  \A m \in late' : m \in Messages /\ Expected(m)
BY UnderWayExpected, LateExpected DEF Strand

\* No run moves; jobs may.
LEMMA NobodyMoves ==
  ASSUME IInv, UNCHANGED <<run, disk>>, adopted' = adopted, acked' \subseteq acked,
         \A k \in Keys : Grows(k)
  PROVE  /\ run' \in [Runs -> {Idle, Done} \cup RunRecord]
         /\ \A s \in Runs : Working(s)' => At(s, "upload")' \/ run'[s].flying = {}
         /\ Exclusive' /\ RunsKnow'
<1>1. Typing
  BY DEF IInv
<1>2. \A s \in Runs : Working(s)' => At(s, "upload")' \/ run'[s].flying = {}
  BY <1>1 DEF Typing, Working, At
<1>3. Exclusive'
  BY DEF IInv, Exclusive, Held, Working, At, Session
<1>4. RunsKnow'
  <2>1. SUFFICES ASSUME NEW s \in Runs, Held(s)' PROVE FileKnown(s)' /\ JobKnown(s)'
    BY DEF IInv, RunsKnow, At
  <2>2. Held(s) /\ run'[s] = run[s] /\ visible' = visible /\ durable' = durable
    BY <2>1 DEF Held, Working, At, disk
  <2>3. Key(s) \in Keys
    BY <2>2 DEF IInv, RunsKnow, FileKnown
  <2>4. QED
    BY <2>2, <2>3, Bystander
<1>5. QED
  BY <1>1, <1>2, <1>3, <1>4 DEF Typing

\* curl tries again.
LEMMA RetryStep ==
  ASSUME IInv, NEW r \in Runs, Retry(r)
  PROVE  IInv'
<1>1. UNCHANGED <<file, disk, run, jobs, acked, adopted>> /\ Strand(UnderWay(r))
  BY DEF Retry, history
<1>2. \A m \in late' : m \in Messages /\ Expected(m)
  BY <1>1, Stranded
<1>3. \A c \in Contents, k \in Keys : Durable(c, k) => Durable(c, k)'
  BY <1>1, DiskKept
<1>4. /\ jobs' \in [Keys -> Jobs \cup {None}] /\ late' \subseteq Messages
      /\ acked' \subseteq Keys \X Chunks
      /\ LateKnown' /\ JobsNamed' /\ CompletedWhole' /\ AckedKept'
      /\ \A k \in Keys : Grows(k)
  BY <1>1, <1>2, <1>3, JobsKept
<1>5. /\ run' \in [Runs -> {Idle, Done} \cup RunRecord]
      /\ \A s \in Runs : Working(s)' => At(s, "upload")' \/ run'[s].flying = {}
      /\ Exclusive' /\ RunsKnow'
  BY <1>1, <1>4, NobodyMoves
<1>6. QED
  BY <1>1, <1>4, <1>5 DEF IInv, Typing, disk

\* A run moves to rec without an answer, or ends, and leaves requests behind.
LEMMA MovesOn ==
  ASSUME IInv, NEW r \in Runs, Working(r), NEW rec \in {Idle, Done} \cup RunRecord,
         run' = [run EXCEPT ![r] = rec], UNCHANGED <<file, disk, jobs, acked, adopted>>,
         NEW msgs \in SUBSET UnderWay(r), Strand(msgs),
         Working(r)' => /\ rec.session = Session(r) /\ rec.pc = "upload" /\ Held(r)
                        /\ FileKnown(r)' /\ JobKnown(r)'
  PROVE  IInv'
<1>1. Typing
  BY DEF IInv
<1>2. run'[r] = rec /\ visible' = visible /\ durable' = durable
  BY <1>1 DEF Typing, disk
<1>3. \A m \in late' : m \in Messages /\ Expected(m)
  BY Stranded
<1>4. \A c \in Contents, k \in Keys : Durable(c, k) => Durable(c, k)'
  BY DiskKept
<1>5. /\ jobs' \in [Keys -> Jobs \cup {None}] /\ late' \subseteq Messages
      /\ acked' \subseteq Keys \X Chunks
      /\ LateKnown' /\ JobsNamed' /\ CompletedWhole' /\ AckedKept'
      /\ \A k \in Keys : Grows(k)
  BY <1>3, <1>4, JobsKept
<1>6. /\ run' \in [Runs -> {Idle, Done} \cup RunRecord]
      /\ \A s \in Runs : Working(s)' => At(s, "upload")' \/ run'[s].flying = {}
      /\ Exclusive' /\ RunsKnow'
  <2>1. /\ At(r, "lock")' => ~rec.created
        /\ Working(r)' => At(r, "upload")' \/ rec.flying = {}
        /\ Held(r)' => Held(r) /\ rec.session = Session(r) /\ FileKnown(r)' /\ JobKnown(r)'
    BY <1>2 DEF Held, At, Working, Idle, Done
  <2>2. QED
    BY <1>2, <1>5, <2>1, RunMoves
<1>7. QED
  BY <1>1, <1>2, <1>5, <1>6 DEF IInv, Typing

\* A PUT fails for good: the run will end, and claims nothing of its chunks.
LEMMA PutFailsStep ==
  ASSUME IInv, NEW r \in Runs, PutFails(r)
  PROVE  IInv'
<1>1. PICK f \in run[r].flying :
        /\ Working(r) /\ run' = [run EXCEPT ![r].flying = @ \ {f}, ![r].failed = TRUE]
        /\ Strand({PutMsg(r, f)}) /\ UNCHANGED <<file, disk, jobs, acked, adopted>>
  BY DEF PutFails
<1>2. Typing /\ run[r] \in RunRecord /\ At(r, "upload") /\ Held(r)
  BY <1>1, Records DEF IInv, Held, At, Typing
<1>3. FileKnown(r) /\ JobKnown(r) /\ run[r].created
  BY <1>2 DEF IInv, RunsKnow, FileKnown, At
<1>4. PICK rec \in RunRecord :
        /\ rec.pc = "upload" /\ rec.session = Session(r) /\ rec.key = Key(r)
        /\ rec.created /\ rec.flying = run[r].flying \ {f} /\ rec.failed
        /\ rec.todo = run[r].todo /\ run' = [run EXCEPT ![r] = rec]
  <2> DEFINE rec == [run[r] EXCEPT !.flying = @ \ {f}, !.failed = TRUE]
  <2>1. /\ rec \in RunRecord /\ rec.pc = "upload" /\ rec.session = Session(r)
        /\ rec.key = Key(r) /\ rec.created /\ rec.flying = run[r].flying \ {f} /\ rec.failed
        /\ rec.todo = run[r].todo
    BY <1>2, <1>3 DEF RunRecord, Session, Key, At
  <2>2. run' = [run EXCEPT ![r] = rec]
    BY <1>1, <1>2 DEF Typing
  <2>3. QED
    BY <2>1, <2>2
<1>5. run'[r] = rec /\ visible' = visible /\ durable' = durable
  BY <1>1, <1>2, <1>4 DEF Typing, disk
<1>6. FileKnown(r)'
  BY <1>1, <1>3, <1>4, <1>5 DEF FileKnown, Unnamed, At, Session, Key
<1>7. JobKnown(r)'
  <2>1. \A n \in rec.todo : n \notin {g.chunk : g \in rec.flying} /\ <<Key(r), n>> \notin acked
    BY <1>2, <1>3, <1>4 DEF JobKnown, Flying
  <2>2. QED
    BY <1>1, <1>2, <1>3, <1>4, <1>5, <2>1 DEF JobKnown, Flying, At, Session, Key
<1>8. {PutMsg(r, f)} \in SUBSET UnderWay(r)
  BY <1>1 DEF UnderWay
<1>9. QED
  BY <1>1, <1>2, <1>4, <1>6, <1>7, <1>8, MovesOn

\* A run ends where it is.
LEMMA StopStep ==
  ASSUME IInv, NEW r \in Runs, Stop(r)
  PROVE  IInv'
<1>1. /\ Working(r) /\ run' = [run EXCEPT ![r] = Idle]
      /\ Strand(UnderWay(r)) /\ UNCHANGED <<file, disk, jobs, acked, adopted>>
  BY DEF Stop, Exit
<1>2. ~Working(r)'
  BY <1>1 DEF IInv, Typing, Working, Idle
<1>3. QED
  BY <1>1, <1>2, MovesOn

\* A power failure cannot undo the name of a state file that somebody's job has.
LEMMA PowerLossStep ==
  ASSUME IInv, PowerLoss
  PROVE  IInv'
<1>1. /\ UNCHANGED <<file, jobs, acked, adopted>> /\ run' = [s \in Runs |-> Idle]
      /\ visible' \in [Contents -> Keys \cup {None}] /\ durable' = visible'
      /\ \A c \in Contents : visible'[c] \in {visible[c], durable[c]}
      /\ Strand(UNION {UnderWay(s) : s \in Runs})
  BY DEF PowerLoss
<1>2. Typing
  BY DEF IInv
<1>3. \A m \in late' : m \in Messages /\ Expected(m)
  BY <1>1, Stranded
<1>4. \A c \in Contents, k \in Keys : Durable(c, k) => Durable(c, k)'
  BY <1>1 DEF Durable
<1>5. /\ jobs' \in [Keys -> Jobs \cup {None}] /\ late' \subseteq Messages
      /\ acked' \subseteq Keys \X Chunks
      /\ LateKnown' /\ JobsNamed' /\ CompletedWhole' /\ AckedKept'
  BY <1>1, <1>3, <1>4, JobsKept
<1>6. \A s \in Runs : ~Working(s)' /\ ~Held(s)' /\ ~At(s, "lock")'
  BY <1>1 DEF Working, Held, At, Idle
<1>7. run' \in [Runs -> {Idle, Done} \cup RunRecord]
  BY <1>1
<1>8. Exclusive' /\ RunsKnow'
  BY <1>6 DEF Exclusive, RunsKnow
<1>9. QED
  BY <1>1, <1>2, <1>5, <1>6, <1>7, <1>8 DEF IInv, Typing

\* The file changes; what is in flight, and on the server, does not.
LEMMA EditStep ==
  ASSUME IInv, Edit
  PROVE  IInv'
<1>1. UNCHANGED <<disk, run, jobs, late, acked, adopted>> /\ file' \in Contents
  BY DEF Edit
<1>2. \A m \in late' : m \in Messages /\ Expected(m)
  BY <1>1, LateExpected
<1>3. \A c \in Contents, k \in Keys : Durable(c, k) => Durable(c, k)'
  BY <1>1, DiskKept
<1>4. /\ jobs' \in [Keys -> Jobs \cup {None}] /\ late' \subseteq Messages
      /\ acked' \subseteq Keys \X Chunks
      /\ LateKnown' /\ JobsNamed' /\ CompletedWhole' /\ AckedKept'
      /\ \A k \in Keys : Grows(k)
  BY <1>1, <1>2, <1>3, JobsKept
<1>5. /\ run' \in [Runs -> {Idle, Done} \cup RunRecord]
      /\ \A s \in Runs : Working(s)' => At(s, "upload")' \/ run'[s].flying = {}
      /\ Exclusive' /\ RunsKnow'
  BY <1>1, <1>4, NobodyMoves
<1>6. QED
  BY <1>1, <1>4, <1>5 DEF IInv, Typing, disk

\* A request nobody waits for is handled.
LEMMA DeliverStep ==
  ASSUME IInv, Deliver
  PROVE  IInv'
<1>1. PICK m \in late : /\ Handle(m) /\ late' = late \ {m}
                        /\ UNCHANGED <<file, disk, run, acked, adopted>>
  BY DEF Deliver, history
<1>2. m \in Messages /\ Expected(m) /\ Typing
  BY LateExpected DEF IInv
<1>3. /\ jobs' \in [Keys -> Jobs \cup {None}]
      /\ \A k \in Keys : Grows(k)
      /\ JobsNamed' /\ CompletedWhole'
      /\ \A a \in acked : jobs'[a[1]] # None /\ jobs'[a[1]].chunks[a[2]] # None
  BY <1>1, <1>2, HandleKeeps
<1>4. AckedKept'
  BY <1>1, <1>3 DEF AckedKept
<1>5. LateKnown'
  <2>1. \A q \in late' : q \in Messages /\ Expected(q)
    BY <1>1, LateExpected
  <2>2. \A q \in late' : jobs[q.key] = None /\ ~adopted' =>
           visible'[q.sha] = q.key /\ durable'[q.sha] = q.key
    BY <1>1, <2>1 DEF Expected, Durable, disk
  <2>3. QED
    BY <1>1, <1>3, <2>1, <2>2, LateKept
<1>6. /\ run' \in [Runs -> {Idle, Done} \cup RunRecord]
      /\ \A s \in Runs : Working(s)' => At(s, "upload")' \/ run'[s].flying = {}
      /\ Exclusive' /\ RunsKnow'
  BY <1>1, <1>3, NobodyMoves
<1>7. QED
  BY <1>1, <1>2, <1>3, <1>4, <1>5, <1>6 DEF IInv, Typing, disk

\* The server moves a job on.
LEMMA JobMoves ==
  ASSUME IInv, NEW k \in Keys, NEW job \in Jobs, jobs' = [jobs EXCEPT ![k] = job],
         jobs[k] # None, jobs[k].stage # "Expired", job.sha = jobs[k].sha,
         job.stage # "Waiting", job.stage = "Receiving" => jobs[k].stage = "Waiting",
         job.stage = "Completed" => \A n \in Chunks : job.chunks[n] = job.sha,
         acked' \subseteq acked,
         \A a \in acked' : a[1] = k => job.chunks[a[2]] # None,
         UNCHANGED <<file, disk, run, late, adopted>>
  PROVE  IInv'
<1>1. Typing /\ job # None
  BY UploadClientAssumption DEF IInv
<1>2. /\ jobs' \in [Keys -> Jobs \cup {None}] /\ jobs'[k] = job
      /\ \A q \in Keys : q # k => jobs'[q] = jobs[q]
  BY <1>1 DEF Typing
<1>3. \A q \in Keys : Grows(q)
  <2>1. Grows(k)
    BY <1>1, <1>2 DEF Grows
  <2>2. ASSUME NEW q \in Keys, q # k PROVE Grows(q)
    BY <1>2, <2>2 DEF Grows
  <2>3. QED
    BY <2>1, <2>2
<1>4. LateKnown'
  <2>1. \A q \in late' : q \in Messages /\ Expected(q)
    BY LateExpected
  <2>2. \A q \in late' : jobs[q.key] = None /\ ~adopted' =>
           visible'[q.sha] = q.key /\ durable'[q.sha] = q.key
    BY <2>1 DEF Expected, Durable, disk
  <2>3. QED
    BY <1>3, <2>1, <2>2, LateKept
<1>5. JobsNamed'
  <2>1. SUFFICES ASSUME NEW q \in Keys, jobs'[q] # None, jobs'[q].stage # "Expired"
                 PROVE  Durable(jobs[q].sha, q)'
    BY DEF JobsNamed
  <2>2. jobs[q] # None /\ jobs[q].stage # "Expired" /\ jobs'[q].sha = jobs[q].sha
    BY <1>2, <2>1
  <2>3. QED
    BY <2>2 DEF IInv, JobsNamed, Durable, disk
<1>6. CompletedWhole'
  BY <1>2 DEF IInv, CompletedWhole, JobIn
<1>7. AckedKept'
  <2>1. SUFFICES ASSUME NEW a \in acked'
                 PROVE  jobs'[a[1]] # None /\ jobs'[a[1]].chunks[a[2]] # None
    BY DEF AckedKept
  <2>2. a \in acked /\ a[1] \in Keys
    BY <1>1, <2>1 DEF Typing
  <2>3. QED
    BY <1>1, <1>2, <2>1, <2>2 DEF IInv, AckedKept
<1>8. /\ run' \in [Runs -> {Idle, Done} \cup RunRecord]
      /\ \A s \in Runs : Working(s)' => At(s, "upload")' \/ run'[s].flying = {}
      /\ Exclusive' /\ RunsKnow'
  BY <1>3, NobodyMoves
<1>9. QED
  BY <1>1, <1>2, <1>4, <1>5, <1>6, <1>7, <1>8 DEF IInv, Typing, disk

\* Admission, processing, failure and expiry
LEMMA ServerStep ==
  ASSUME IInv, NEW k \in Keys, Admit(k) \/ Process(k) \/ GiveUp(k) \/ Expire(k)
  PROVE  IInv'
<1>1. /\ jobs[k] \in Jobs /\ jobs[k] # None /\ Typing
      /\ jobs[k].stage \in {"Waiting", "Receiving", "Processing"}
      /\ jobs[k].sha \in Contents /\ jobs[k].sha # None
      /\ jobs[k].chunks \in [Chunks -> Contents \cup {None}]
      /\ \A a \in acked : a[1] = k => jobs[k].chunks[a[2]] # None
  BY UploadClientAssumption DEF IInv, Typing, AckedKept, Admit, Process, GiveUp, Expire, JobIn, Jobs
<1>2. ASSUME NEW stage \in {"Receiving", "Completed", "Failed"}, ToStage(k, stage),
             stage = "Receiving" => jobs[k].stage = "Waiting",
             stage = "Completed" => \A n \in Chunks : jobs[k].chunks[n] = jobs[k].sha
      PROVE  IInv'
  <2>1. PICK job \in Jobs : /\ job.sha = jobs[k].sha /\ job.stage = stage
                            /\ job.chunks = jobs[k].chunks
                            /\ jobs' = [jobs EXCEPT ![k] = job]
    <3> DEFINE job == [jobs[k] EXCEPT !.stage = stage]
    <3>1. job \in Jobs /\ job.sha = jobs[k].sha /\ job.stage = stage
          /\ job.chunks = jobs[k].chunks
      BY <1>1, <1>2 DEF Jobs
    <3>2. jobs' = [jobs EXCEPT ![k] = job]
      BY <1>2 DEF ToStage
    <3>3. QED
      BY <3>1, <3>2
  <2>2. UNCHANGED <<file, disk, run, late, adopted, acked>>
    BY <1>2 DEF ToStage, history
  <2>3. /\ \A a \in acked' : a[1] = k => job.chunks[a[2]] # None
        /\ job.stage = "Completed" => \A n \in Chunks : job.chunks[n] = job.sha
        /\ job.stage # "Waiting" /\ (job.stage = "Receiving" => jobs[k].stage = "Waiting")
        /\ jobs[k].stage # "Expired" /\ acked' \subseteq acked
    BY <1>1, <1>2, <2>1, <2>2
  <2>4. QED
    BY <1>1, <2>1, <2>2, <2>3, JobMoves
<1>3. CASE Admit(k)
  BY <1>2, <1>3 DEF Admit, JobIn
<1>4. CASE Process(k)
  <2>1. CASE Matches(k) /\ ToStage(k, "Completed")
    <3>1. \A n \in Chunks : jobs[k].chunks[n] = jobs[k].sha
      BY <1>1, <2>1 DEF Matches
    <3>2. QED
      BY <1>2, <2>1, <3>1
  <2>2. CASE ToStage(k, "Failed")
    BY <1>2, <2>2
  <2>3. QED
    BY <1>4, <2>1, <2>2 DEF Process
<1>5. CASE GiveUp(k)
  BY <1>2, <1>5 DEF GiveUp
<1>6. CASE Expire(k)
  <2>1. PICK job \in Jobs : /\ job.sha = jobs[k].sha /\ job.stage = "Expired"
                            /\ jobs' = [jobs EXCEPT ![k] = job]
    <3> DEFINE job == [jobs[k] EXCEPT !.stage = "Expired", !.chunks = [n \in Chunks |-> None]]
    <3>1. job \in Jobs /\ job.sha = jobs[k].sha /\ job.stage = "Expired"
      BY <1>1 DEF Jobs
    <3>2. jobs' = [jobs EXCEPT ![k] = job]
      BY <1>1, <1>6 DEF Expire, Typing
    <3>3. QED
      BY <3>1, <3>2
  <2>2. UNCHANGED <<file, disk, run, late, adopted>> /\ acked' = {a \in acked : a[1] # k}
    BY <1>6 DEF Expire
  <2>3. QED
    BY <1>1, <2>1, <2>2, JobMoves
<1>7. QED
  BY <1>3, <1>4, <1>5, <1>6

-----------------------------------------------------------------------------
(* The theorems *)

LEMMA InitIInv == Init => IInv
<1> SUFFICES ASSUME Init PROVE IInv
  OBVIOUS
<1>1. Typing
  BY UploadClientAssumption DEF Init, Typing, Working, Idle
<1>2. Exclusive /\ RunsKnow
  BY DEF Init, Exclusive, RunsKnow, Held, Working, At, Idle
<1>3. LateKnown /\ JobsNamed /\ CompletedWhole /\ AckedKept
  BY DEF Init, LateKnown, JobsNamed, CompletedWhole, AckedKept, JobIn
<1>4. QED
  BY <1>1, <1>2, <1>3 DEF IInv

\* No step breaks what the runs, the requests and the jobs are known to be.
LEMMA NextIInv == IInv /\ [Next]_vars => IInv'
<1> SUFFICES ASSUME IInv, [Next]_vars PROVE IInv'
  OBVIOUS
<1>1. ASSUME NEW r \in Runs, Begin(r) \/ Lock(r) PROVE IInv'
  BY <1>1, BeginStep, LockStep
<1>2. ASSUME NEW r \in Runs, RunStep(r) PROVE IInv'
  BY <1>2, WriteStep, SyncStep, CreateStep, StatusStep, RemoveStep, ListStep, StartPutStep,
     AnswerPutStep, WaitPutsStep, CompleteStep DEF RunStep
<1>3. ASSUME NEW r \in Runs, Retry(r) \/ PutFails(r) \/ Stop(r) PROVE IInv'
  BY <1>3, RetryStep, PutFailsStep, StopStep
<1>4. ASSUME NEW k \in Keys, Admit(k) \/ Process(k) \/ GiveUp(k) \/ Expire(k) PROVE IInv'
  BY <1>4, ServerStep
<1>5. CASE PowerLoss \/ Edit \/ Deliver
  BY <1>5, PowerLossStep, EditStep, DeliverStep
<1>6. CASE UNCHANGED vars
  <2>1. UNCHANGED <<file, disk, run, jobs, late, acked, adopted>> /\ Typing
    BY <1>6 DEF vars, history, IInv
  <2>2. \A m \in late' : m \in Messages /\ Expected(m)
    BY <2>1, LateExpected
  <2>3. \A c \in Contents, k \in Keys : Durable(c, k) => Durable(c, k)'
    BY <2>1, DiskKept
  <2>4. /\ jobs' \in [Keys -> Jobs \cup {None}] /\ late' \subseteq Messages
        /\ acked' \subseteq Keys \X Chunks
        /\ LateKnown' /\ JobsNamed' /\ CompletedWhole' /\ AckedKept'
        /\ \A k \in Keys : Grows(k)
    BY <2>1, <2>2, <2>3, JobsKept
  <2>5. /\ run' \in [Runs -> {Idle, Done} \cup RunRecord]
        /\ \A s \in Runs : Working(s)' => At(s, "upload")' \/ run'[s].flying = {}
        /\ Exclusive' /\ RunsKnow'
    BY <2>1, <2>4, NobodyMoves
  <2>6. QED
    BY <2>1, <2>4, <2>5 DEF IInv, Typing, disk
<1>7. QED
  BY <1>1, <1>2, <1>3, <1>4, <1>5, <1>6 DEF Next

\* The invariant the others follow from (upload-directory.sh:84-360).
THEOREM Invariance == Spec => []IInv
BY InitIInv, NextIInv, PTL DEF Spec

\* State and messages stay well formed, and chunks fly only while a batch is
\* at work (upload-directory.sh:229-248).
THEOREM WellFormed == Spec => []TypeOK
<1>1. IInv => TypeOK
  <2>1. SUFFICES ASSUME Typing PROVE TypeOK
    BY DEF IInv
  <2>2. \A r \in Runs : \/ run[r] \in {Idle, Done}
                        \/ run[r] \in RunRecord /\ (At(r, "upload") \/ run[r].flying = {})
    BY <2>1 DEF Typing, Working, Steps, RunRecord, At
  <2>3. QED
    BY <2>1, <2>2 DEF Typing, TypeOK, RunRecord
<1>2. QED
  BY <1>1, Invariance, PTL

\* As long as a job is not expired, its key is in the state file of its
\* content, on disk too, unless a run relied on a file that was not synced:
\* no other run makes a second job for it (upload-directory.sh:84-157).
THEOREM KeysRediscovered == Spec => []Rediscovered
<1>1. IInv => Rediscovered
  BY DEF IInv, JobsNamed, Durable, Rediscovered, JobIn
<1>2. QED
  BY <1>1, Invariance, PTL

\* complete is asked for only of a job that has every chunk, or has ended
\* (upload-directory.sh:229-248, 287).
THEOREM CompleteAsked == Spec => []CompleteWhenVerified
<1>1. IInv => CompleteWhenVerified
  <2>1. SUFFICES ASSUME IInv, NEW r \in Runs, At(r, "complete"), JobIn(Key(r), {"Receiving"})
                 PROVE  Verified(jobs[Key(r)]) = Chunks
    BY DEF CompleteWhenVerified
  <2>2. Held(r) /\ FileKnown(r) /\ JobKnown(r) /\ run[r].flying = {}
    BY <2>1 DEF IInv, RunsKnow, Held, Working, At, Typing
  <2>3. /\ run[r].created /\ ~run[r].failed /\ run[r].todo = {} /\ Flying(r) = {}
        /\ jobs[Key(r)].stage = "Receiving"
    BY <2>1, <2>2 DEF FileKnown, JobKnown, At, Flying, JobIn
  <2>4. \A n \in Chunks : jobs[Key(r)].chunks[n] # None
    BY <2>1, <2>2, <2>3 DEF JobKnown, At
  <2>5. QED
    BY <2>4 DEF Verified
<1>2. QED
  BY <1>1, Invariance, PTL

\* What a step makes of the place where a run is
LEMMA PcOf ==
  ASSUME Typing, NEW r \in Runs
  PROVE  /\ \A rec : run' = [run EXCEPT ![r] = rec] => run'[r] = rec
         /\ \A s \in Runs \ {r} : \A rec : run' = [run EXCEPT ![s] = rec] => run'[r] = run[r]
         /\ \A pc : Goto(r, pc) /\ Working(r) => run'[r].pc = pc
         /\ \A s \in Runs \ {r} : \A pc : Goto(s, pc) => run'[r] = run[r]
BY DEF Typing, Goto, Working, Idle, Done, RunRecord

\* A run is done by its own Status only.
LEMMA OnlyStatus ==
  ASSUME IInv, Next, NEW r \in Runs, ~At(r, "done"), run'[r] = Done
  PROVE  Status(r)
<1>1. Typing /\ run'[r].pc = "done" /\ run'[r] # run[r]
  BY DEF IInv, Done, At
<1>2. \A s \in Runs : Working(s) => run[s] \in RunRecord
  BY Records
<1>3. ASSUME NEW s \in Runs, Begin(s) PROVE FALSE
  BY <1>1, <1>3 DEF Begin, Typing
<1>4. ASSUME NEW s \in Runs, Lock(s) PROVE FALSE
  <2>1. run[s] \in RunRecord
    BY <1>2, <1>4 DEF Lock, At, Working
  <2>2. run'[s].pc \in {"create", "write"} /\ (s # r => run'[r] = run[r])
    BY <1>1, <1>4, <2>1 DEF Lock, Typing, RunRecord
  <2>3. QED
    BY <1>1, <2>2
<1>5. ASSUME NEW s \in Runs, NEW pc \in Steps, Working(s), Goto(s, pc) PROVE FALSE
  <2>1. run'[s].pc = pc /\ (s # r => run'[r] = run[r])
    BY <1>1, <1>2, <1>5 DEF Goto, Typing, RunRecord
  <2>2. QED
    BY <1>1, <1>5, <2>1 DEF Steps
<1>6. ASSUME NEW s \in Runs, Exit(s) PROVE FALSE
  BY <1>1, <1>6 DEF Exit, Idle, Typing
<1>7. ASSUME NEW s \in Runs, Write(s) \/ Sync(s) \/ Complete(s) PROVE FALSE
  <2>1. Working(s)
    BY <1>7 DEF Write, Sync, Complete, At, Working
  <2>2. PICK pc \in Steps : Goto(s, pc)
    BY <1>7 DEF Write, Sync, Complete, AfterSync, Steps
  <2>3. QED
    BY <1>5, <2>1, <2>2
<1>8. ASSUME NEW s \in Runs, Create(s) PROVE FALSE
  <2>1. run[s] \in RunRecord
    BY <1>2, <1>8 DEF Create, At, Working
  <2>2. ASSUME run' = [run EXCEPT ![s].pc = "write", ![s].created = TRUE] PROVE FALSE
    <3>1. run'[s].pc = "write" /\ (s # r => run'[r] = run[r])
      BY <1>1, <2>1, <2>2 DEF Typing, RunRecord
    <3>2. QED
      BY <1>1, <3>1
  <2>3. QED
    BY <1>6, <1>8, <2>2 DEF Create
<1>9. ASSUME NEW s \in Runs, Remove(s) \/ Stop(s) PROVE FALSE
  BY <1>6, <1>9 DEF Remove, Stop
<1>10. ASSUME NEW s \in Runs, List(s) PROVE FALSE
  <2>1. run[s] \in RunRecord
    BY <1>2, <1>10 DEF List, At, Working
  <2>2. run'[s].pc = "upload" /\ (s # r => run'[r] = run[r])
    BY <1>1, <1>10, <2>1 DEF List, Typing, RunRecord
  <2>3. QED
    BY <1>1, <2>2
<1>11. ASSUME NEW s \in Runs, StartPut(s) \/ AnswerPut(s) \/ PutFails(s) PROVE FALSE
  <2>1. run[s] \in RunRecord
    BY <1>2, <1>11 DEF StartPut, AnswerPut, PutFails, At, Working
  <2>2. CASE StartPut(s)
    <3>1. run'[s].pc = run[s].pc /\ (s # r => run'[r] = run[r])
      BY <1>1, <2>1, <2>2 DEF StartPut, Typing, RunRecord
    <3>2. QED
      BY <1>1, <3>1 DEF At
  <2>3. CASE AnswerPut(s)
    <3>1. run'[s].pc = run[s].pc /\ (s # r => run'[r] = run[r])
      BY <1>1, <2>1, <2>3 DEF AnswerPut, Typing, RunRecord
    <3>2. QED
      BY <1>1, <3>1 DEF At
  <2>4. CASE PutFails(s)
    <3>1. run'[s].pc = run[s].pc /\ (s # r => run'[r] = run[r])
      BY <1>1, <2>1, <2>4 DEF PutFails, Typing, RunRecord
    <3>2. QED
      BY <1>1, <3>1 DEF At
  <2>5. QED
    BY <1>11, <2>2, <2>3, <2>4
<1>12. ASSUME NEW s \in Runs, WaitPuts(s) PROVE FALSE
  <2>1. run[s] \in RunRecord
    BY <1>2, <1>12 DEF WaitPuts, At, Working
  <2>2. ASSUME run' = [run EXCEPT ![s].batch = 0] PROVE FALSE
    <3>1. run'[s].pc = run[s].pc /\ (s # r => run'[r] = run[r])
      BY <1>1, <2>1, <2>2 DEF Typing, RunRecord
    <3>2. QED
      BY <1>1, <3>1 DEF At
  <2>3. ASSUME run' = [run EXCEPT ![s].pc = "complete", ![s].batch = 0] PROVE FALSE
    <3>1. run'[s].pc = "complete" /\ (s # r => run'[r] = run[r])
      BY <1>1, <2>1, <2>3 DEF Typing, RunRecord
    <3>2. QED
      BY <1>1, <3>1
  <2>4. QED
    BY <1>6, <1>12, <2>2, <2>3 DEF WaitPuts
<1>13. ASSUME NEW s \in Runs, Status(s), s # r PROVE FALSE
  BY <1>1, <1>13, PcOf DEF Status, Exit, Goto, Typing
<1>14. ASSUME NEW s \in Runs, Retry(s) PROVE FALSE
  BY <1>1, <1>14 DEF Retry
<1>15. ASSUME NEW k \in Keys, Admit(k) \/ Process(k) \/ GiveUp(k) \/ Expire(k) PROVE FALSE
  BY <1>1, <1>15 DEF Admit, Process, GiveUp, Expire, ToStage
<1>16. ~PowerLoss /\ ~Edit /\ ~Deliver
  BY <1>1 DEF PowerLoss, Edit, Deliver, Idle
<1>17. QED
  BY <1>3, <1>4, <1>7, <1>8, <1>9, <1>10, <1>11, <1>12, <1>13, <1>14, <1>15, <1>16
     DEF Next, RunStep

\* A run that says "completed" has a completed job all of whose chunks are
\* the file as the run knew it (upload-directory.sh:176, 300, 328).
THEOREM DoneIsDone == Spec => DoneMeansDone
<1> DEFINE A == \A r \in Runs : (~At(r, "done") /\ run'[r] = Done) =>
                   /\ jobs[Key(r)].stage = "Completed"
                   /\ \A n \in Chunks : jobs[Key(r)].chunks[n] = Session(r)
<1>1. IInv /\ IInv' /\ [Next]_vars => [A]_vars
  <2>1. SUFFICES ASSUME IInv, IInv', Next, NEW r \in Runs, ~At(r, "done"), run'[r] = Done
                 PROVE  /\ jobs[Key(r)].stage = "Completed"
                        /\ \A n \in Chunks : jobs[Key(r)].chunks[n] = Session(r)
    OBVIOUS
  <2>2. Status(r)
    BY <2>1, OnlyStatus
  <2>3. jobs[Key(r)].stage = "Completed" /\ At(r, "status")
    <3>1. ~Goto(r, "list") /\ ~Goto(r, "remove") /\ ~Exit(r)
      BY <2>1, PcOf DEF IInv, Typing, Goto, Exit, Idle, Done
    <3>2. QED
      BY <2>2, <3>1 DEF Status
  <2>4. Held(r) /\ Key(r) \in Keys /\ jobs[Key(r)] # None /\ jobs[Key(r)].sha = Session(r)
    BY <2>1, <2>3 DEF IInv, RunsKnow, Held, Working, At, FileKnown, JobKnown
  <2>5. QED
    BY <2>1, <2>3, <2>4 DEF IInv, CompletedWhole, JobIn
<1>2. QED
  BY <1>1, Invariance, PTL DEF Spec, DoneMeansDone

\* A run's step moves no other run.
LEMMA OthersStay ==
  ASSUME Typing, NEW r \in Runs, NEW s \in Runs, s # r,
         Begin(s) \/ Lock(s) \/ RunStep(s) \/ Retry(s) \/ PutFails(s) \/ Stop(s)
  PROVE  run'[r] = run[r]
<1>1. ASSUME NEW rec, run' = [run EXCEPT ![s] = rec] PROVE run'[r] = run[r]
  BY <1>1 DEF Typing
<1>2. CASE Begin(s) \/ Retry(s) \/ Stop(s) \/ PutFails(s)
  BY <1>1, <1>2 DEF Begin, Retry, Stop, PutFails, Exit, Typing
<1>3. CASE Lock(s)
  BY <1>3 DEF Lock, Typing
<1>4. CASE Write(s) \/ Sync(s) \/ Complete(s) \/ Remove(s) \/ Status(s)
  BY <1>1, <1>4 DEF Write, Sync, Complete, Remove, Status, Goto, Exit, Typing
<1>5. CASE Create(s) \/ List(s)
  BY <1>1, <1>5 DEF Create, List, Exit, Typing
<1>6. CASE StartPut(s) \/ AnswerPut(s) \/ WaitPuts(s)
  BY <1>1, <1>6 DEF StartPut, AnswerPut, WaitPuts, Exit, Typing
<1>7. QED
  BY <1>2, <1>3, <1>4, <1>5, <1>6 DEF RunStep

\* A chunk that the server has confirmed is not cut and sent again
\* (upload-directory.sh:229-238).
THEOREM NeverResent == Spec => NotResent
<1> DEFINE A == \A r \in Runs : (At(r, "upload") /\ run'[r].pc = "upload") =>
                   \A f \in run'[r].flying \ run[r].flying : <<Key(r), f.chunk>> \notin acked
<1>1. IInv /\ [Next]_vars => [A]_vars
  <2>1. SUFFICES ASSUME IInv, Next, NEW r \in Runs, At(r, "upload"), run'[r].pc = "upload",
                        NEW f \in run'[r].flying, f \notin run[r].flying
                 PROVE  <<Key(r), f.chunk>> \notin acked
    OBVIOUS
  <2>2. Typing /\ run[r] \in RunRecord /\ Held(r) /\ FileKnown(r) /\ JobKnown(r) /\ run[r].created
    BY <2>1, Records DEF IInv, RunsKnow, Held, Working, At, FileKnown
  <2>3. run'[r] # run[r]
    BY <2>1
  <2>4. ~PowerLoss /\ ~Edit /\ ~Deliver
    BY <2>1, <2>3 DEF PowerLoss, Edit, Deliver, Idle
  <2>5. ASSUME NEW k \in Keys, Admit(k) \/ Process(k) \/ GiveUp(k) \/ Expire(k) PROVE FALSE
    BY <2>3, <2>5 DEF Admit, Process, GiveUp, Expire, ToStage
  <2>6. ~Begin(r) /\ ~Lock(r) /\ ~Retry(r)
    BY <2>1, <2>2, <2>3 DEF Begin, Lock, Retry, Working, At, Held
  <2>7. ~Write(r) /\ ~Sync(r) /\ ~Create(r) /\ ~Status(r) /\ ~Remove(r) /\ ~List(r) /\ ~Complete(r)
    BY <2>1 DEF Write, Sync, Create, Status, Remove, List, Complete, At
  <2>8. ~Stop(r)
    BY <2>1, <2>2 DEF Stop, Exit, Typing, Idle
  <2>9. ~AnswerPut(r)
    <3>1. SUFFICES ASSUME AnswerPut(r) PROVE FALSE
      OBVIOUS
    <3>2. PICK g \in run[r].flying, failed \in BOOLEAN :
            run' = [run EXCEPT ![r].flying = @ \ {g}, ![r].failed = failed]
      BY <2>2, <3>1 DEF AnswerPut, RunRecord, Typing
    <3>3. run'[r].flying = run[r].flying \ {g}
      BY <2>2, <3>2 DEF Typing, RunRecord
    <3>4. QED
      BY <2>1, <3>3
  <2>10. ~PutFails(r)
    <3>1. SUFFICES ASSUME PutFails(r) PROVE FALSE
      OBVIOUS
    <3>2. PICK g \in run[r].flying, failed \in BOOLEAN :
            run' = [run EXCEPT ![r].flying = @ \ {g}, ![r].failed = failed]
      BY <2>2, <3>1 DEF PutFails, RunRecord, Typing
    <3>3. run'[r].flying = run[r].flying \ {g}
      BY <2>2, <3>2 DEF Typing, RunRecord
    <3>4. QED
      BY <2>1, <3>3
  <2>11. ~WaitPuts(r)
    BY <2>1, <2>2 DEF WaitPuts, Exit, Typing, RunRecord, Idle
  <2>12. StartPut(r)
    BY <2>1, <2>2, <2>3, <2>4, <2>5, <2>6, <2>7, <2>8, <2>9, <2>10, <2>11, OthersStay
       DEF Next, RunStep
  <2>13. PICK n \in run[r].todo :
           run' = [run EXCEPT ![r].todo = @ \ {n}, ![r].batch = @ + 1,
                              ![r].flying = @ \cup {[chunk |-> n, body |-> file]}]
    BY <2>12 DEF StartPut
  <2>14. f = [chunk |-> n, body |-> file]
    BY <2>1, <2>2, <2>13 DEF Typing, RunRecord
  <2>15. <<Key(r), n>> \notin acked
    BY <2>1, <2>2 DEF JobKnown
  <2>16. QED
    BY <2>14, <2>15
<1>2. QED
  BY <1>1, Invariance, PTL DEF Spec, NotResent
=============================================================================
