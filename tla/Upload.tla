------------------------------- MODULE Upload -------------------------------
(***************************************************************************)
(* The upload of an input: the handlers of PUT chunks/{n} and POST         *)
(* complete, finalize, probeAndQueue and expireUploads of main.go, step by *)
(* step under the striped lifecycle and chunk locks, over the input file   *)
(* as the kernel keeps it (what is written and what is durable), with      *)
(* crashes that lose what was not synced.                                  *)
(*                                                                         *)
(* Starts with admitted jobs and ends when each is queued, failed or       *)
(* expired.  What that does to the spool's capacity is in Admission, the   *)
(* single statements of fail() and of the probe are in Processing.         *)
(***************************************************************************)
EXTENDS Naturals, FiniteSets, Sequences

CONSTANTS
  Jobs,         \* admitted jobs
  Expected,     \* number of chunks of each job
  Contents,     \* what the bytes of a chunk can be
  Declared,     \* jobs whose request states the SHA-256 of the whole input
  Good,         \* the content of every chunk of such an input
  Requests,     \* the PUTs clients send: [job, chunk, body, sum]
  Puts,         \* PUT handlers running at the same time
  LifeStripe,   \* stripe of a job's lifecycle lock
  ChunkStripe,  \* stripe of the chunk lock of <<job, chunk>>
  None,         \* no content; nobody holds the lock
  MaxCrashes    \* bound on crashes

Cells == UNION {{j} \X (0 .. Expected[j] - 1) : j \in Jobs}

CellsOf(j) == {c \in Cells : c[1] = j}

ASSUME UploadAssumption ==
  /\ IsFiniteSet(Jobs) /\ Expected \in [Jobs -> Nat \ {0}]
  /\ Declared \subseteq Jobs /\ Good \in Contents
  /\ None \notin Contents \cup Puts
  /\ \A r \in Requests : <<r.job, r.chunk>> \in Cells /\ {r.body, r.sum} \subseteq Contents
  /\ MaxCrashes \in Nat

VARIABLES
  \* jobs.sqlite
  state,     \* jobs.state
  rows,      \* the content whose checksum the VERIFIED chunk row has, or None
  received,  \* jobs.chunks and jobs.received, counted in chunks
  overdue,   \* expires_at has passed
  \* the spool
  where,     \* the input file: "part", renamed to "input", or "none"
  cache,     \* its chunks as read() sees them: "zero", "torn" or a content
  disk,      \* the same, as a power failure leaves them
  \* the process: lost in a crash
  phase,     \* "up" or "down"
  put,       \* the PUT handlers
  writer,    \* where the complete, finalize and expire call of a job is
  todo,      \* candidates expireUploads still has to look at
  life,      \* lifecycle locks: who has announced or holds it for writing, and the readers
  chunk,     \* chunk locks: the owner
  \* history
  quiet,     \* UPLOAD_RETENTION has passed since the last accepted chunk
  crashes

db      == <<state, rows, received, overdue>>
files   == <<where, cache, disk>>
process == <<phase, put, writer, todo, life, chunk>>
env     == <<quiet, crashes>>
vars    == <<db, files, process, env>>

Open     == {"ADMITTED", "UPLOADING"}
Terminal == {"FAILED", "EXPIRED"}

Writers == {"complete", "finalize", "expire"} \X Jobs

IdlePut == [pc |-> "idle"]

FreeLife == [writer |-> None, readers |-> {}]

LifeStripes  == {LifeStripe[j] : j \in Jobs}
ChunkStripes == {ChunkStripe[c] : c \in Cells}

JobOf(p)  == put[p].job
CellOf(p) == <<put[p].job, put[p].chunk>>

AtPut(p, l)    == put[p].pc = l
PutTo(p, l)    == put' = [put EXCEPT ![p].pc = l]
At(w, l)       == writer[w] = l
WriterTo(w, l) == writer' = [writer EXCEPT ![w] = l]

\* The directory goes, and the chunks with it.
RemoveDir(j) ==
  /\ where' = [where EXCEPT ![j] = "none"]
  /\ cache' = [c \in Cells |-> IF c[1] = j THEN "zero" ELSE cache[c]]
  /\ disk'  = [c \in Cells |-> IF c[1] = j THEN "zero" ELSE disk[c]]

\* RemoveAll; an error is logged, and the directory stays.
CleanUp(j) == RemoveDir(j) \/ UNCHANGED files

\* DELETE FROM chunks WHERE job_id=j
DeleteRows(j) == rows' = [c \in Cells |-> IF c[1] = j THEN None ELSE rows[c]]

-----------------------------------------------------------------------------
(* PUT chunks/{n} *)

\* A client sends a chunk, perhaps one it has sent before.
Send(p) ==
  /\ phase = "up" /\ AtPut(p, "idle")
  /\ \E r \in Requests :
       put' = [put EXCEPT ![p] = [pc |-> "lock", job |-> r.job, chunk |-> r.chunk,
                                  body |-> r.body, sum |-> r.sum,
                                  locks |-> 0, ok |-> FALSE]]
  /\ UNCHANGED <<db, files, phase, writer, todo, life, chunk, env>>

\* Mistake: the lifecycle lock is not taken.
ChunkLockOnly == <<"chunk">>

\* Mistake: the chunk lock is not taken.
LifecycleLockOnly == <<"lifecycle">>

\* The locks a PUT takes, in this order.
LockOrder == <<"lifecycle", "chunk">>

\* RLock waits behind a writer that waits.
TakeLock(p) ==
  /\ AtPut(p, "lock")
  /\ LET n == put[p].locks + 1
         s == LifeStripe[JobOf(p)]
         t == ChunkStripe[CellOf(p)]
     IN  /\ \/ /\ LockOrder[n] = "lifecycle" /\ life[s].writer = None
               /\ life' = [life EXCEPT ![s].readers = @ \cup {p}] /\ UNCHANGED chunk
            \/ /\ LockOrder[n] = "chunk" /\ chunk[t] = None
               /\ chunk' = [chunk EXCEPT ![t] = p] /\ UNCHANGED life
         /\ put' = [put EXCEPT ![p].locks = n,
                               ![p].pc = IF n = Len(LockOrder) THEN "lookup" ELSE "lock"]
  /\ UNCHANGED <<db, files, phase, writer, todo, env>>

\* Mistake: the checksum of the stored chunk is not compared.
LookupUncompared(p) ==
  /\ AtPut(p, "lookup")
  /\ PutTo(p, IF rows[CellOf(p)] # None THEN "replay"
              ELSE IF state[JobOf(p)] \in Open THEN "open" ELSE "unlock")
  /\ UNCHANGED <<db, files, phase, writer, todo, life, chunk, env>>

\* The job's row, and the chunk's: the same chunk again, another one (409), or
\* none; then the job must be open.
Lookup(p) ==
  /\ AtPut(p, "lookup")
  /\ LET have == rows[CellOf(p)] IN
       \/ have = put[p].sum /\ PutTo(p, "replay")
       \/ have \notin {None, put[p].sum} /\ PutTo(p, "unlock")
       \/ have = None /\ PutTo(p, IF state[JobOf(p)] \in Open THEN "open" ELSE "unlock")
  /\ UNCHANGED <<db, files, phase, writer, todo, life, chunk, env>>

\* last_activity_at and expires_at are set, the answer will be 200.
Extend(j) ==
  /\ overdue' = [overdue EXCEPT ![j] = FALSE]
  /\ quiet' = [quiet EXCEPT ![j] = FALSE]

Accept(p) == put' = [put EXCEPT ![p].pc = "unlock", ![p].ok = TRUE]

\* Mistake: a repeated chunk is counted again.
ReplayRecounted(p) ==
  /\ AtPut(p, "replay")
  /\ Accept(p)
  /\ received' = [received EXCEPT ![JobOf(p)] = @ + 1]
  /\ UNCHANGED <<state, rows, overdue, files, phase, writer, todo, life, chunk, env>>

\* "already_present": an open upload is extended, the answer is the same for
\* any other.
Replay(p) ==
  /\ AtPut(p, "replay")
  /\ Accept(p)
  /\ IF state[JobOf(p)] \in Open THEN Extend(JobOf(p)) ELSE UNCHANGED <<overdue, quiet>>
  /\ UNCHANGED <<state, rows, received, files, phase, writer, todo, life, chunk, crashes>>

\* A write through the open file follows it when it is renamed, and reaches
\* nobody once it is removed.
Writes(c, v) == cache' = IF where[c[1]] = "none" THEN cache ELSE [cache EXCEPT ![c] = v]

\* input.part is opened (409 if it is not there), and some of the body written.
OpenPart(p) ==
  /\ AtPut(p, "open")
  /\ IF where[JobOf(p)] = "part"
     THEN Writes(CellOf(p), "torn") /\ PutTo(p, "rest")
     ELSE PutTo(p, "unlock") /\ UNCHANGED cache
  /\ UNCHANGED <<db, where, disk, phase, writer, todo, life, chunk, env>>

\* All of it; its SHA-256 may not be the announced one (422).
WriteRest(p) ==
  /\ AtPut(p, "rest")
  /\ Writes(CellOf(p), put[p].body)
  /\ PutTo(p, IF put[p].body = put[p].sum THEN "sync" ELSE "unlock")
  /\ UNCHANGED <<db, where, disk, phase, writer, todo, life, chunk, env>>

\* fdatasync of the whole file, whoever wrote to it.
Sync(p) ==
  /\ AtPut(p, "sync")
  /\ disk' = [c \in Cells |-> IF c[1] = JobOf(p) THEN cache[c] ELSE disk[c]]
  /\ PutTo(p, "commit")
  /\ UNCHANGED <<db, where, cache, phase, writer, todo, life, chunk, env>>

\* One transaction: the chunk row, whose key is unique, and the counters of a
\* job that is still open.
Commit(p) ==
  /\ AtPut(p, "commit")
  /\ LET j == JobOf(p) IN
       IF state[j] \in Open /\ rows[CellOf(p)] = None
       THEN /\ rows' = [rows EXCEPT ![CellOf(p)] = put[p].sum]
            /\ state' = [state EXCEPT ![j] = "UPLOADING"]
            /\ received' = [received EXCEPT ![j] = @ + 1]
            /\ Extend(j) /\ Accept(p)
       ELSE PutTo(p, "unlock") /\ UNCHANGED <<db, quiet>>
  /\ UNCHANGED <<files, phase, writer, todo, life, chunk, crashes>>

InHandler == {"lookup", "replay", "open", "rest", "sync", "commit"}

\* A statement or system call fails, or the body ends early.
PutFails(p) ==
  /\ put[p].pc \in InHandler
  /\ PutTo(p, "unlock")
  /\ UNCHANGED <<db, files, phase, writer, todo, life, chunk, env>>

\* The answer, and the deferred unlocks.
Unlock(p) ==
  /\ AtPut(p, "unlock")
  /\ put' = [put EXCEPT ![p] = IdlePut]
  /\ life' = [life EXCEPT ![LifeStripe[JobOf(p)]].readers = @ \ {p}]
  /\ chunk' = [chunk EXCEPT ![ChunkStripe[CellOf(p)]] = IF @ = p THEN None ELSE @]
  /\ UNCHANGED <<db, files, phase, writer, todo, env>>

PutStep(p) ==
  \/ Lookup(p) \/ Replay(p) \/ OpenPart(p) \/ WriteRest(p)
  \/ Sync(p) \/ Commit(p) \/ PutFails(p) \/ Unlock(p)

-----------------------------------------------------------------------------
(* The lifecycle lock for writing *)

LockOf(w) == LifeStripe[w[2]]

\* Lock: no other writer, and from here on no new readers.
Announce(w) ==
  /\ At(w, "lock") /\ life[LockOf(w)].writer = None
  /\ life' = [life EXCEPT ![LockOf(w)].writer = w]
  /\ WriterTo(w, "locked")
  /\ UNCHANGED <<db, files, phase, put, todo, chunk, env>>

Holds(w) == life[LockOf(w)] = [writer |-> w, readers |-> {}]

Release(w) == life' = [life EXCEPT ![LockOf(w)].writer = None]

-----------------------------------------------------------------------------
(* POST complete, finalize *)

CallComplete(j) ==
  /\ phase = "up" /\ At(<<"complete", j>>, "idle")
  /\ WriterTo(<<"complete", j>>, "lock")
  /\ UNCHANGED <<db, files, phase, put, todo, life, chunk, env>>

\* received=size AND chunks=expected
AllReceived(j) == received[j] = Expected[j]

\* Mistake: complete waits for the chunks that are missing.
CompleteWaits(j) ==
  LET w == <<"complete", j>> IN
  /\ At(w, "locked") /\ Holds(w)
  /\ IF state[j] \in Open /\ AllReceived(j)
     THEN /\ state' = [state EXCEPT ![j] = "FINALIZING"]
          /\ overdue' = [overdue EXCEPT ![j] = FALSE]
          /\ writer' = [writer EXCEPT ![w] = "idle", ![<<"finalize", j>>] = "lock"]
          /\ Release(w)
     ELSE UNCHANGED <<state, overdue, writer, life>>
  /\ UNCHANGED <<rows, received, files, phase, put, todo, chunk, env>>

\* One transaction; if it finds the upload complete, finalize is started.
\* Otherwise the answer depends on the state; the transaction may also fail.
CompleteTx(j) ==
  LET w == <<"complete", j>> IN
  /\ At(w, "locked") /\ Holds(w)
  /\ \/ /\ state[j] \in Open /\ AllReceived(j)
        /\ state' = [state EXCEPT ![j] = "FINALIZING"]
        /\ overdue' = [overdue EXCEPT ![j] = FALSE]
        /\ writer' = [writer EXCEPT ![w] = "idle", ![<<"finalize", j>>] = "lock"]
     \/ WriterTo(w, "idle") /\ UNCHANGED <<state, overdue>>
  /\ Release(w)
  /\ UNCHANGED <<rows, received, files, phase, put, todo, chunk, env>>

\* fail() in finalize, and the return.  An error of its UPDATE is ignored: the
\* job stays what it was and the directory goes all the same.
FinalizeFails(j) ==
  /\ state' = [state EXCEPT ![j] = "FAILED"] \/ UNCHANGED state
  /\ CleanUp(j)
  /\ WriterTo(<<"finalize", j>>, "idle") /\ Release(<<"finalize", j>>)

\* input.part becomes input, unless an interrupted finalize renamed it; stat
\* and rename may fail.
FinalizeRename(j) ==
  LET w == <<"finalize", j>> IN
  /\ At(w, "locked") /\ Holds(w)
  /\ \/ /\ where[j] # "none"
        /\ where' = [where EXCEPT ![j] = "input"] /\ WriterTo(w, "hash")
        /\ UNCHANGED <<state, cache, disk, life>>
     \/ FinalizeFails(j)
  /\ UNCHANGED <<rows, received, overdue, phase, put, todo, chunk, env>>

\* Mistake: the checksum of the whole input is not compared.
MatchesAny(j) == TRUE

\* The SHA-256 of the input is the declared one, if one was declared.
MatchesDeclared(j) == j \in Declared => \A c \in CellsOf(j) : cache[c] = Good

\* Read, hash, compare; if the row cannot be read the job stays as it is.
FinalizeHash(j) ==
  LET w == <<"finalize", j>> IN
  /\ At(w, "hash")
  /\ \/ /\ MatchesDeclared(j)
        /\ state' = [state EXCEPT ![j] = "STAGED"] /\ WriterTo(w, "probe")
        /\ UNCHANGED <<files, life>>
     \/ FinalizeFails(j)
     \/ WriterTo(w, "idle") /\ Release(w) /\ UNCHANGED <<state, files>>
  /\ UNCHANGED <<rows, received, overdue, phase, put, todo, chunk, env>>

\* probeAndQueue, still under the lock.  STAGED stands for PROBING and VALIDATED
\* too; any of its statements may fail, and so may ffprobe.
FinalizeProbe(j) ==
  LET w == <<"finalize", j>> IN
  /\ At(w, "probe")
  /\ \/ /\ state' = [state EXCEPT ![j] = "QUEUED"]
        /\ WriterTo(w, "idle") /\ Release(w) /\ UNCHANGED files
     \/ FinalizeFails(j)
  /\ UNCHANGED <<rows, received, overdue, phase, put, todo, chunk, env>>

-----------------------------------------------------------------------------
(* Expiry *)

Overdue(j) == state[j] \in Open /\ overdue[j]

\* UPLOAD_RETENTION passes without activity.
TimePasses(j) ==
  /\ state[j] \in Open /\ ~overdue[j]
  /\ overdue' = [overdue EXCEPT ![j] = TRUE]
  /\ quiet' = [quiet EXCEPT ![j] = TRUE]
  /\ UNCHANGED <<state, rows, received, files, process, crashes>>

Expiring == {j \in Jobs : ~At(<<"expire", j>>, "idle")}

\* The candidates are listed, at a tick of runUploadGC, once the last sweep is over.
SweepList ==
  /\ phase = "up" /\ todo = {} /\ Expiring = {}
  /\ todo' = {j \in Jobs : Overdue(j)}
  /\ todo' # {}
  /\ UNCHANGED <<db, files, phase, put, writer, life, chunk, env>>

SweepNext(j) ==
  /\ j \in todo /\ Expiring = {}
  /\ todo' = todo \ {j}
  /\ WriterTo(<<"expire", j>>, "lock")
  /\ UNCHANGED <<db, files, phase, put, life, chunk, env>>

\* Mistake: the deadline is not read again under the lock.
ExpireListed(j) == state[j] \in Open

\* The row is read again under the lock.
StillOverdue(j) == Overdue(j)

\* One transaction; when it fails, so does the sweep.
ExpireTx(j) ==
  LET w == <<"expire", j>> IN
  /\ At(w, "locked") /\ Holds(w)
  /\ \/ /\ StillOverdue(j)
        /\ state' = [state EXCEPT ![j] = "EXPIRED"]
        /\ overdue' = [overdue EXCEPT ![j] = FALSE]
        /\ DeleteRows(j)
        /\ WriterTo(w, "remove") /\ UNCHANGED <<todo, life>>
     \/ /\ ~StillOverdue(j)
        /\ WriterTo(w, "idle") /\ Release(w) /\ UNCHANGED <<state, overdue, rows, todo>>
     \/ /\ WriterTo(w, "idle") /\ Release(w) /\ todo' = {}
        /\ UNCHANGED <<state, overdue, rows>>
  /\ UNCHANGED <<received, files, phase, put, chunk, env>>

ExpireRemove(j) ==
  LET w == <<"expire", j>> IN
  /\ At(w, "remove")
  /\ CleanUp(j)
  /\ WriterTo(w, "idle") /\ Release(w)
  /\ UNCHANGED <<db, phase, put, todo, chunk, env>>

Finalize(j) == FinalizeRename(j) \/ FinalizeHash(j) \/ FinalizeProbe(j)

Expire(j) == ExpireTx(j) \/ ExpireRemove(j)

-----------------------------------------------------------------------------
(* Crash and recovery *)

\* What a chunk that was not synced can be after a crash.
AfterCrash(c) == IF cache[c] = disk[c] THEN {disk[c]} ELSE {disk[c], cache[c], "torn"}

\* Nothing of the file was ever synced, so that the file itself may be lost.
NeverSynced(j) == where[j] = "part" /\ \A c \in CellsOf(j) : disk[c] = "zero"

\* Power fails.  The database keeps what was committed, the file what was synced.
Crash ==
  /\ phase = "up" /\ crashes < MaxCrashes
  /\ crashes' = crashes + 1 /\ phase' = "down"
  /\ \E lost \in SUBSET {j \in Jobs : NeverSynced(j)} :
       /\ where' = [j \in Jobs |-> IF j \in lost THEN "none" ELSE where[j]]
       /\ disk' \in {d \in [Cells -> Contents \cup {"zero", "torn"}] :
                       \A c \in Cells : d[c] \in IF c[1] \in lost THEN {"zero"} ELSE AfterCrash(c)}
  /\ cache' = disk'
  /\ put' = [p \in Puts |-> IdlePut] /\ writer' = [w \in Writers |-> "idle"] /\ todo' = {}
  /\ life' = [s \in LifeStripes |-> FreeLife] /\ chunk' = [s \in ChunkStripes |-> None]
  /\ UNCHANGED <<db, quiet>>

\* Uploads recover() gives up: the input file is missing.
Unresumable(j) == state[j] \in Open /\ where[j] # "part"

\* recover(), before the listener: overdue uploads expire, uploads without a
\* file fail, files of jobs that are over go (but those whose removal fails),
\* finalize starts over.
Restart ==
  /\ phase = "down" /\ phase' = "up"
  /\ state' = [j \in Jobs |-> IF Overdue(j) THEN "EXPIRED"
                              ELSE IF Unresumable(j) THEN "FAILED" ELSE state[j]]
  /\ overdue' = [j \in Jobs |-> overdue[j] /\ state'[j] \in Open]
  /\ rows' = [c \in Cells |-> IF state[c[1]] \in Open /\ state'[c[1]] \in Terminal
                              THEN None ELSE rows[c]]
  /\ \E gone \in SUBSET {j \in Jobs : state'[j] \in Terminal} :
       /\ where' = [j \in Jobs |-> IF j \in gone THEN "none" ELSE where[j]]
       /\ disk' = [c \in Cells |-> IF c[1] \in gone THEN "zero" ELSE disk[c]]
  /\ cache' = disk'
  /\ writer' = [w \in Writers |->
                  IF w[1] = "finalize" /\ state[w[2]] = "FINALIZING" THEN "lock" ELSE "idle"]
  /\ UNCHANGED <<received, put, todo, life, chunk, env>>

-----------------------------------------------------------------------------
Init ==
  /\ state = [j \in Jobs |-> "ADMITTED"] /\ rows = [c \in Cells |-> None]
  /\ received = [j \in Jobs |-> 0] /\ overdue = [j \in Jobs |-> FALSE]
  /\ where = [j \in Jobs |-> "part"]
  /\ cache = [c \in Cells |-> "zero"] /\ disk = cache
  /\ phase = "up" /\ put = [p \in Puts |-> IdlePut]
  /\ writer = [w \in Writers |-> "idle"] /\ todo = {}
  /\ life = [s \in LifeStripes |-> FreeLife] /\ chunk = [s \in ChunkStripes |-> None]
  /\ quiet = overdue /\ crashes = 0

Next ==
  \/ \E p \in Puts : Send(p) \/ TakeLock(p) \/ PutStep(p)
  \/ \E j \in Jobs : \/ CallComplete(j) \/ CompleteTx(j) \/ Finalize(j)
                    \/ TimePasses(j) \/ SweepNext(j) \/ Expire(j)
  \/ \E w \in Writers : Announce(w)
  \/ SweepList \/ Crash \/ Restart

Spec == Init /\ [][Next]_vars

\* The database answers, ReadTimeout ends every body, hashing ends, and so
\* does ffprobe.  A waiting RLock or Lock is not passed over for ever.
FairSpec ==
  /\ Spec
  /\ \A p \in Puts : SF_vars(TakeLock(p)) /\ WF_vars(PutStep(p))
  /\ \A w \in Writers : SF_vars(Announce(w))
  /\ \A j \in Jobs : /\ WF_vars(CompleteTx(j)) /\ WF_vars(Finalize(j))
                    /\ WF_vars(SweepNext(j)) /\ WF_vars(Expire(j))

-----------------------------------------------------------------------------
(* Properties *)

Stored == {"zero", "torn"} \cup Contents

PutRecords ==
  [pc : {"lock", "unlock"} \cup InHandler, job : Jobs, chunk : Nat, body : Contents,
   sum : Contents, locks : 0 .. Len(LockOrder), ok : BOOLEAN]

TypeOK ==
  /\ state \in [Jobs -> Open \cup Terminal \cup {"FINALIZING", "STAGED", "QUEUED"}]
  /\ rows \in [Cells -> Contents \cup {None}]
  /\ \A j \in Jobs : received[j] \in 0 .. Expected[j]
  /\ overdue \in [Jobs -> BOOLEAN] /\ quiet \in [Jobs -> BOOLEAN]
  /\ where \in [Jobs -> {"part", "input", "none"}]
  /\ cache \in [Cells -> Stored] /\ disk \in [Cells -> Stored]
  /\ phase \in {"up", "down"} /\ put \in [Puts -> PutRecords \cup {IdlePut}]
  /\ writer \in [Writers -> {"idle", "lock", "locked", "hash", "probe", "remove"}]
  /\ todo \subseteq Jobs
  /\ life \in [LifeStripes -> [writer : Writers \cup {None}, readers : SUBSET Puts]]
  /\ chunk \in [ChunkStripes -> Puts \cup {None}]
  /\ crashes \in 0 .. MaxCrashes

(* A chunk the database calls VERIFIED is what its checksum says, in the    *)
(* file and after a power failure, as long as the file exists: no other PUT *)
(* of the chunk, and no interrupted one, has touched it since               *)
(* (main.go:322-404).                                                       *)
VerifiedDurable ==
  \A c \in Cells : (rows[c] # None /\ where[c[1]] # "none") =>
                     cache[c] = rows[c] /\ disk[c] = rows[c]

(* The counters complete() trusts are the number of chunk rows, until the   *)
(* rows of an abandoned upload are deleted (main.go:396-404, 425).          *)
CountersAgree ==
  \A j \in Jobs : state[j] \notin Terminal =>
     received[j] = Cardinality({c \in CellsOf(j) : rows[c] # None})

(* While a PUT has input.part open the job accepts chunks and the file is   *)
(* neither renamed nor removed: complete, finalize and expireUpload wait    *)
(* for it (main.go:300, 418, 884).                                          *)
Writing == {"rest", "sync", "commit"}
NoWriteOutsideUpload ==
  \A p \in Puts : put[p].pc \in Writing =>
     state[JobOf(p)] \in Open /\ where[JobOf(p)] = "part"

(* What ffprobe is given, and the queue, is an input that is there and      *)
(* whole: every chunk of it verified, and the declared content if one was   *)
(* declared (main.go:425, 457-474).  This holds although fail() may remove  *)
(* the input and leave the job's row as it was (1130): such a job is STAGED *)
(* without a file, but neither probed nor queued.                           *)
QueuedInputWhole ==
  \A j \in Jobs :
     /\ (state[j] = "QUEUED" \/ At(<<"finalize", j>>, "probe")) => where[j] = "input"
     /\ state[j] \in {"STAGED", "QUEUED"} => \A c \in CellsOf(j) :
           /\ rows[c] # None
           /\ where[j] # "none" => cache[c] = rows[c]
           /\ j \in Declared => rows[c] = Good

(* A chunk is answered with 200 only if its row has the checksum that was   *)
(* sent, and the row then stays, also through crashes, until the upload     *)
(* fails or expires: the client need not send it again (README:236-237).    *)
AckedSurvives ==
  /\ [](\A p \in Puts : (~AtPut(p, "idle") /\ put[p].ok) => rows[CellOf(p)] = put[p].sum)
  /\ [][\A c \in Cells : (rows[c] # None /\ rows'[c] # rows[c]) => state'[c[1]] \in Terminal]_vars

(* "Successful chunk PUTs extend the deadline" (README:242): a sweep that   *)
(* listed an upload does not expire it if a chunk was accepted, or accepted *)
(* again, in the meantime.                                                  *)
NoExpiryAfterChunk ==
  [][\A j \in Jobs : (state[j] # "EXPIRED" /\ state'[j] = "EXPIRED") => quiet[j]]_vars

(* Every PUT and every complete that was begun is answered, every finalize  *)
(* and every sweep ends: nobody waits for ever for a lock of a stripe,      *)
(* whoever shares it.                                                       *)
Answered ==
  /\ \A p \in Puts : ~AtPut(p, "idle") ~> AtPut(p, "idle")
  /\ \A w \in Writers : ~At(w, "idle") ~> At(w, "idle")
  /\ todo # {} ~> todo = {}
=============================================================================
