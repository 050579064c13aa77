------------------------------ MODULE Admission ------------------------------
(***************************************************************************)
(* How a job gets local spool space and gives it back: the jobs, capacity  *)
(* and reservations tables of jobs.sqlite, the files under DATA_DIR/spool, *)
(* and every goroutine of main.go that touches them.                       *)
(*                                                                         *)
(* Each SQL statement or transaction is one step (the database has a       *)
(* single connection, main.go:143); everything a goroutine does between    *)
(* two statements may interleave with the others.  The processing states   *)
(* FINALIZING .. TRANSCODING, in which a job only holds what it has, are   *)
(* one state here, PROCESSING.                                             *)
(***************************************************************************)
EXTENDS Naturals, FiniteSets

CONSTANTS
  Jobs,         \* identifiers of the requests clients will send
  NoJob,        \* no job
  MaxSize,      \* largest input, in chunks; sizes are counted in chunks
  Size,         \* declared input size of each job
  Capacities,   \* values SPOOL_CAPACITY_BYTES may be configured to
  Disk,         \* chunks the file system under DATA_DIR can hold
  Stamps,       \* instants at which create() may read the clock
  SortKey,      \* rank of an instant's created_at text in SQL's ORDER BY
  MaxScans,     \* bound on admitPending goroutines waiting for admissionMu
  MaxCrashes,   \* bound on crashes
  MaxFaults     \* bound on statements and system calls that fail

ASSUME JobsAssumption     == IsFiniteSet(Jobs) /\ NoJob \notin Jobs
ASSUME SizeAssumption     == MaxSize \in Nat /\ Size \in [Jobs -> 1 .. MaxSize]
ASSUME CapacityAssumption == Capacities \subseteq Nat /\ Disk \in Nat
ASSUME StampAssumption    == Stamps \subseteq Nat \ {0} /\ SortKey \in [Stamps -> Nat]
ASSUME BoundAssumption    == MaxScans \in Nat \ {0} /\ MaxCrashes \in Nat /\ MaxFaults \in Nat

VARIABLES
  \* jobs.sqlite: survives a crash
  state,        \* jobs.state
  reserved,     \* jobs.reserved
  stamp,        \* the instant behind jobs.created_at (0: no row)
  overdue,      \* jobs.expires_at has passed
  received,     \* jobs.received: verified chunks
  rows,         \* job ids with a row in reservations
  capReserved,  \* capacity.reserved
  capTotal,     \* capacity.total
  \* DATA_DIR/spool: survives a crash, up to what was not yet synced
  spool,        \* the job's directory and input file exist
  written,      \* chunks of the input file that occupy disk blocks
  \* the process: lost in a crash
  phase,        \* down, the steps of recover(), up
  config,       \* SPOOL_CAPACITY_BYTES of this process
  arrival,      \* create(): instant read, row not yet inserted (0: none)
  adm,          \* the admitPending goroutine holding admissionMu
  gc,           \* the expireUploads call holding admissionMu
  fin,          \* per job, the fail() or the end of run() in progress
  scans,        \* admitPending goroutines waiting for admissionMu
  \* environment
  clock,        \* last instant read
  seen,         \* history: jobs PENDING when this one's create() began
  crashes, faults

store   == <<state, reserved, stamp, overdue, received, rows, capReserved, capTotal>>
disk    == <<spool, written>>
process == <<phase, config, arrival, adm, gc, fin, scans>>
env     == <<clock, seen, crashes, faults>>
vars    == <<store, disk, process, env>>

States   == {"ABSENT", "PENDING", "ADMITTED", "UPLOADING", "PROCESSING",
             "COMPLETED", "FAILED", "EXPIRED"}
Open     == {"ADMITTED", "UPLOADING"}             \* accepting chunks
\* Mistake: retention applies to processing as well.
ExpiringAlways == {"PENDING", "PROCESSING"} \cup Open
Expiring == {"PENDING"} \cup Open                 \* subject to retention
Terminal == {"COMPLETED", "FAILED", "EXPIRED"}    \* terminalJobState

IdleFin == [pc |-> "idle", done |-> FALSE, amount |-> 0]
IdleAdm == [pc |-> "idle", job |-> NoJob]
IdleGc  == [pc |-> "idle", todo |-> {}, job |-> NoJob, found |-> FALSE]

Units == 1 .. MaxSize

\* An amount per job, as the set of its <<job, unit>> cells: sums are sizes.
Cells(f) == {u \in Jobs \X Units : u[2] <= f[u[1]]}

OnDisk   == Cells(written)      \* disk blocks in use
Promised == Cells(reserved)     \* disk blocks promised to jobs

MuFree == adm.pc = "idle" /\ gc.pc = "idle"       \* admissionMu

Wake == scans' = IF scans < MaxScans THEN scans + 1 ELSE scans  \* go s.admitPending()

\* Mistake: SQL MAX(a-b,a).
MinusNothing(a, b) == IF a >= b THEN a ELSE 0
Minus(a, b) == IF a >= b THEN a - b ELSE 0        \* SQL MAX(a-b,0)

\* One statement or system call fails.
Fault == faults < MaxFaults /\ faults' = faults + 1

-----------------------------------------------------------------------------
(* POST /v1/jobs *)

\* normalize() accepts the size and create() reads the clock.
Arrive(j) ==
  /\ phase = "up" /\ state[j] = "ABSENT" /\ arrival[j] = 0
  /\ Size[j] <= config
  /\ \E t \in Stamps :
       /\ t > clock
       /\ clock' = t
       /\ arrival' = [arrival EXCEPT ![j] = t]
  /\ seen' = [seen EXCEPT ![j] = {k \in Jobs : state[k] = "PENDING"}]
  /\ UNCHANGED <<store, disk, phase, config, adm, gc, fin, scans, crashes, faults>>

\* The row is inserted; an admission scan is started.  A replay of the same
\* key finds the row and changes nothing.
Insert(j) ==
  /\ arrival[j] # 0
  /\ arrival' = [arrival EXCEPT ![j] = 0]
  /\ state' = [state EXCEPT ![j] = "PENDING"]
  /\ stamp' = [stamp EXCEPT ![j] = arrival[j]]
  /\ Wake
  /\ UNCHANGED <<reserved, overdue, received, rows, capReserved, capTotal, disk,
                 phase, config, adm, gc, fin, env>>

\* expires_at passes.  It is set by create, by the admission and by uploads.
TimePasses(j) ==
  /\ state[j] \in Expiring /\ ~overdue[j]
  /\ overdue' = [overdue EXCEPT ![j] = TRUE]
  /\ UNCHANGED <<state, reserved, stamp, received, rows, capReserved, capTotal,
                 disk, process, env>>

-----------------------------------------------------------------------------
(* fail(), release() and cleanupSpool(): one job leaving the system *)

FinAt(j, pc) == fin[j].pc = pc

GoFin(j, pc) == fin' = [fin EXCEPT ![j].pc = pc]

\* A goroutine enters fail().
Fail(j) == fin' = [fin EXCEPT ![j] = [IdleFin EXCEPT !.pc = "read"]]

\* fail() reads the row; if that fails, nothing is released.
ReadJob(j) ==
  /\ FinAt(j, "read")
  /\ \/ /\ fin' = [fin EXCEPT ![j].pc = IF reserved[j] > 0 THEN "release" ELSE "record",
                              ![j].amount = reserved[j]]
        /\ UNCHANGED faults
     \/ Fault /\ GoFin(j, "record")
  /\ UNCHANGED <<store, disk, phase, config, arrival, adm, gc, scans, clock, seen, crashes>>

AfterRelease(j) == IF fin[j].done THEN "cleanup" ELSE "record"

\* UPDATE jobs SET reserved=0 WHERE id=? AND reserved=?
ReleaseJob(j) ==
  /\ FinAt(j, "release")
  /\ \/ /\ IF reserved[j] = fin[j].amount
             THEN reserved' = [reserved EXCEPT ![j] = 0] /\ GoFin(j, "capacity")
             ELSE GoFin(j, AfterRelease(j)) /\ UNCHANGED reserved
        /\ UNCHANGED faults
     \/ /\ Fault
        /\ GoFin(j, AfterRelease(j))
        /\ UNCHANGED reserved
  /\ UNCHANGED <<state, stamp, overdue, received, rows, capReserved, capTotal, disk,
                 phase, config, arrival, adm, gc, scans, clock, seen, crashes>>

\* UPDATE capacity SET reserved=MAX(reserved-?,0); an error is ignored.
ReleaseCapacity(j) ==
  /\ FinAt(j, "capacity")
  /\ \/ capReserved' = Minus(capReserved, fin[j].amount) /\ UNCHANGED faults
     \/ Fault /\ UNCHANGED capReserved
  /\ GoFin(j, "rows")
  /\ UNCHANGED <<state, reserved, stamp, overdue, received, rows, capTotal, disk,
                 phase, config, arrival, adm, gc, scans, clock, seen, crashes>>

\* DELETE FROM reservations (an error is ignored), then go s.admitPending()
ReleaseRow(j) ==
  /\ FinAt(j, "rows")
  /\ \/ rows' = rows \ {j} /\ UNCHANGED faults
     \/ Fault /\ UNCHANGED rows
  /\ Wake
  /\ GoFin(j, AfterRelease(j))
  /\ UNCHANGED <<state, reserved, stamp, overdue, received, capReserved, capTotal, disk,
                 phase, config, arrival, adm, gc, clock, seen, crashes>>

\* UPDATE jobs SET state=FAILED WHERE state NOT IN (COMPLETED,FAILED); an
\* error is ignored.
RecordFailed(j) ==
  /\ FinAt(j, "record")
  /\ \/ /\ state' = IF state[j] \in {"COMPLETED", "FAILED"} THEN state
                    ELSE [state EXCEPT ![j] = "FAILED"]
        /\ UNCHANGED faults
     \/ Fault /\ UNCHANGED state
  /\ GoFin(j, "cleanup")
  /\ UNCHANGED <<reserved, stamp, overdue, received, rows, capReserved, capTotal, disk,
                 phase, config, arrival, adm, gc, scans, clock, seen, crashes>>

RemoveSpool(j) ==
  /\ spool' = [spool EXCEPT ![j] = FALSE]
  /\ written' = [written EXCEPT ![j] = 0]

\* cleanupSpool: an error is logged and the directory stays.
CleanupSpool(j) ==
  /\ FinAt(j, "cleanup")
  /\ \/ RemoveSpool(j) /\ UNCHANGED faults
     \/ Fault /\ UNCHANGED disk
  /\ fin' = [fin EXCEPT ![j] = IdleFin]
  /\ UNCHANGED <<store, phase, config, arrival, adm, gc, scans, clock, seen, crashes>>

FinStep(j) == \/ ReadJob(j) \/ ReleaseJob(j) \/ ReleaseCapacity(j) \/ ReleaseRow(j)
              \/ RecordFailed(j) \/ CleanupSpool(j)

\* A processing job ends: run() records COMPLETED and then releases, or some
\* step of finalize, probeAndQueue or run calls fail().
Finish(j) ==
  /\ phase = "up" /\ state[j] = "PROCESSING" /\ FinAt(j, "idle")
  /\ \/ /\ state' = [state EXCEPT ![j] = "COMPLETED"]
        /\ fin' = [fin EXCEPT ![j] = [pc |-> IF reserved[j] > 0 THEN "release" ELSE "cleanup",
                                      done |-> TRUE, amount |-> reserved[j]]]
     \/ Fail(j) /\ UNCHANGED state
  /\ UNCHANGED <<reserved, stamp, overdue, received, rows, capReserved, capTotal, disk,
                 phase, config, arrival, adm, gc, scans, env>>

-----------------------------------------------------------------------------
(* admitPending: one goroutine at a time, under admissionMu *)

AdmStart ==
  /\ phase # "down" /\ scans > 0 /\ MuFree
  /\ scans' = scans - 1
  /\ adm' = [IdleAdm EXCEPT !.pc = "scan"]
  /\ UNCHANGED <<store, disk, phase, config, arrival, gc, fin, env>>

AdmGo(pc, j) == adm' = [pc |-> pc, job |-> j]

\* oldestPendingJob: ORDER BY created_at,id over the rows not yet expired.
\* Equal created_at texts fall back to the random id: any of them is first.
Waiting == {j \in Jobs : state[j] = "PENDING" /\ ~overdue[j]}
\* Mistake: no ORDER BY.
AnyWaiting == Waiting
Oldest  == {j \in Waiting : \A k \in Waiting : SortKey[stamp[j]] <= SortKey[stamp[k]]}

AdmScan ==
  /\ adm.pc = "scan"
  /\ \/ \E j \in Oldest : /\ AdmGo(IF reserved[j] = 0 THEN "reserve" ELSE "prepare", j)
                          /\ UNCHANGED faults
     \/ Oldest = {} /\ adm' = IdleAdm /\ UNCHANGED faults
     \/ Fault /\ adm' = IdleAdm
  /\ UNCHANGED <<store, disk, phase, config, arrival, gc, fin, scans, clock, seen, crashes>>

\* admitPending hands the job to fail() and scans again when that returns.
AdmFail(j) == AdmGo("failing", j) /\ Fail(j)

\* The free blocks statfs reports, and both limits reservePending checks.
FreeBlocks == Disk - Cardinality(OnDisk)
\* Mistake: the size of the file system instead of its free blocks.
SpaceOnDisk(n) == capReserved + n <= Disk
SpaceFor(n) == capReserved + n + Cardinality(OnDisk) <= Disk    \* ensureSpoolSpace
RoomFor(n)  == capReserved + n <= capTotal
Fits(j)     == SpaceFor(Size[j]) /\ RoomFor(Size[j])

\* reservePending, one transaction: statfs runs while it is open, so no other
\* statement intervenes.  A leftover reservations row breaks the INSERT.
AdmReserve ==
  /\ adm.pc = "reserve"
  /\ LET j == adm.job IN
       \/ /\ ~Fits(j)
          /\ adm' = IdleAdm
          /\ UNCHANGED <<reserved, rows, capReserved, fin, faults>>
       \/ /\ Fits(j) /\ state[j] = "PENDING" /\ reserved[j] = 0 /\ j \notin rows
          /\ capReserved' = capReserved + Size[j]
          /\ reserved' = [reserved EXCEPT ![j] = Size[j]]
          /\ rows' = rows \cup {j}
          /\ AdmGo("prepare", j)
          /\ UNCHANGED <<fin, faults>>
       \/ /\ \/ Fits(j) /\ ~(state[j] = "PENDING" /\ reserved[j] = 0 /\ j \notin rows)
                /\ UNCHANGED faults
             \/ Fault
          /\ AdmFail(j)
          /\ UNCHANGED <<reserved, rows, capReserved>>
  /\ UNCHANGED <<state, stamp, overdue, received, capTotal, disk, phase, config, arrival,
                 gc, scans, clock, seen, crashes>>

\* prepareInput: a sparse file of the full size, no blocks yet.
AdmPrepare ==
  /\ adm.pc = "prepare"
  /\ LET j == adm.job IN
       \/ spool' = [spool EXCEPT ![j] = TRUE] /\ AdmGo("admit", j)
          /\ UNCHANGED <<fin, faults>>
       \/ Fault /\ AdmFail(j) /\ UNCHANGED spool
  /\ UNCHANGED <<store, written, phase, config, arrival, gc, scans, clock, seen, crashes>>

\* UPDATE jobs SET state=ADMITTED WHERE state=PENDING AND reserved=?
AdmAdmit ==
  /\ adm.pc = "admit"
  /\ LET j == adm.job IN
       \/ /\ IF state[j] = "PENDING" /\ reserved[j] = Size[j]
               THEN /\ state' = [state EXCEPT ![j] = "ADMITTED"]
                    /\ overdue' = [overdue EXCEPT ![j] = FALSE]
               ELSE UNCHANGED <<state, overdue>>
          /\ AdmGo("scan", NoJob)
          /\ UNCHANGED <<fin, faults>>
       \/ Fault /\ AdmFail(j) /\ UNCHANGED <<state, overdue>>
  /\ UNCHANGED <<reserved, stamp, received, rows, capReserved, capTotal, disk, phase,
                 config, arrival, gc, scans, clock, seen, crashes>>

AdmFailed ==
  /\ adm.pc = "failing" /\ FinAt(adm.job, "idle")
  /\ AdmGo("scan", NoJob)
  /\ UNCHANGED <<store, disk, phase, config, arrival, gc, fin, scans, env>>

AdmStep == AdmScan \/ AdmReserve \/ AdmPrepare \/ AdmAdmit \/ AdmFailed

-----------------------------------------------------------------------------
(* PUT chunks and POST complete, as far as the spool is concerned *)

\* A verified chunk: on new blocks, or over those of a rejected attempt.
ChunkStored(j) ==
  /\ phase = "up" /\ state[j] \in Open /\ spool[j] /\ received[j] < Size[j]
  /\ received' = [received EXCEPT ![j] = @ + 1]
  /\ \E n \in {written[j], written[j] + 1} :
       /\ received'[j] <= n /\ n <= Size[j]
       /\ written' = [written EXCEPT ![j] = n]
  /\ state' = [state EXCEPT ![j] = "UPLOADING"]
  /\ overdue' = [overdue EXCEPT ![j] = FALSE]
  /\ UNCHANGED <<reserved, stamp, rows, capReserved, capTotal, spool, process, env>>

\* Bytes reach the file, then the checksum or the transaction fails.
ChunkRejected(j) ==
  /\ phase = "up" /\ state[j] \in Open /\ spool[j] /\ written[j] < Size[j]
  /\ written' = [written EXCEPT ![j] = @ + 1]
  /\ UNCHANGED <<store, spool, process, env>>

\* Mistake: a chunk sent again is counted again.
ChunkRecounted(j) ==
  /\ phase = "up" /\ state[j] \in Open /\ received[j] > 0 /\ overdue[j]
  /\ overdue' = [overdue EXCEPT ![j] = FALSE]
  /\ received' = [received EXCEPT ![j] = @ + 1]
  /\ UNCHANGED <<state, reserved, stamp, rows, capReserved, capTotal, disk, process, env>>

\* A chunk sent again: already_present, and the deadline moves.
ChunkReplayed(j) ==
  /\ phase = "up" /\ state[j] \in Open /\ received[j] > 0 /\ overdue[j]
  /\ overdue' = [overdue EXCEPT ![j] = FALSE]
  /\ UNCHANGED <<state, reserved, stamp, received, rows, capReserved, capTotal, disk,
                 process, env>>

Complete(j) ==
  /\ phase = "up" /\ state[j] \in Open /\ received[j] = Size[j]
  /\ state' = [state EXCEPT ![j] = "PROCESSING"]
  /\ overdue' = [overdue EXCEPT ![j] = FALSE]
  /\ UNCHANGED <<reserved, stamp, received, rows, capReserved, capTotal, disk, process, env>>

-----------------------------------------------------------------------------
(* expireUploads: first step of recover(), then on every tick of runUploadGC *)

Abandoned == {j \in Jobs : state[j] \in Expiring /\ overdue[j]}

\* A tick that finds nothing changes nothing and is left out.
GcStart ==
  /\ MuFree
  /\ phase = "expire" \/ (phase = "up" /\ Abandoned # {})
  /\ gc' = [pc |-> "next", todo |-> Abandoned, job |-> NoJob, found |-> Abandoned # {}]
  /\ UNCHANGED <<store, disk, phase, config, arrival, adm, fin, scans, env>>

\* expireUpload's transaction, which checks the row again: an upload may have
\* moved its deadline since it was listed.
GcExpire(j) ==
  /\ gc.pc = "next" /\ j \in gc.todo
  /\ \/ /\ j \in Abandoned
        /\ state' = [state EXCEPT ![j] = "EXPIRED"]
        /\ overdue' = [overdue EXCEPT ![j] = FALSE]
        /\ reserved' = [reserved EXCEPT ![j] = 0]
        /\ rows' = rows \ {j}
        /\ capReserved' = Minus(capReserved, reserved[j])
        /\ gc' = [gc EXCEPT !.pc = "remove", !.todo = @ \ {j}, !.job = j]
     \/ /\ j \notin Abandoned
        /\ gc' = [gc EXCEPT !.todo = @ \ {j}]
        /\ UNCHANGED <<state, overdue, reserved, rows, capReserved>>
  /\ UNCHANGED <<stamp, received, capTotal, disk, phase, config, arrival, adm, fin, scans, env>>

GcRemove ==
  /\ gc.pc = "remove"
  /\ \/ RemoveSpool(gc.job) /\ UNCHANGED faults
     \/ Fault /\ UNCHANGED disk
  /\ gc' = [gc EXCEPT !.pc = "next", !.job = NoJob]
  /\ UNCHANGED <<store, phase, config, arrival, adm, fin, scans, clock, seen, crashes>>

\* Mistake: nobody is woken for the capacity the expiry gave back.
GcEndQuietly ==
  /\ gc.pc = "next" /\ gc.todo = {}
  /\ phase' = IF phase = "expire" THEN "reconcile" ELSE phase
  /\ gc' = IdleGc
  /\ UNCHANGED <<store, disk, config, arrival, adm, fin, scans, env>>

GcEnd ==
  /\ gc.pc = "next" /\ gc.todo = {}
  /\ IF gc.found THEN Wake ELSE UNCHANGED scans
  /\ phase' = IF phase = "expire" THEN "reconcile" ELSE phase
  /\ gc' = IdleGc
  /\ UNCHANGED <<store, disk, config, arrival, adm, fin, env>>

\* A statement fails: the rest is left to the next tick, nobody is woken.
GcAbort ==
  /\ phase = "up" /\ gc.pc = "next" /\ gc.todo # {} /\ Fault
  /\ gc' = IdleGc
  /\ UNCHANGED <<store, disk, phase, config, arrival, adm, fin, scans, clock, seen, crashes>>

GcStep == (\E j \in Jobs : GcExpire(j)) \/ GcRemove \/ GcEnd

-----------------------------------------------------------------------------
(* Crash and recovery *)

\* The input files were never synced by prepareInput: one may be gone.
Crash ==
  /\ phase # "down" /\ crashes < MaxCrashes
  /\ crashes' = crashes + 1
  /\ phase' = "down"
  /\ \E lost \in SUBSET {j \in Jobs : spool[j]} :
       /\ spool' = [j \in Jobs |-> spool[j] /\ j \notin lost]
       /\ written' = [j \in Jobs |-> IF j \in lost THEN 0 ELSE written[j]]
  /\ arrival' = [j \in Jobs |-> 0]
  /\ fin' = [j \in Jobs |-> IdleFin]
  /\ adm' = IdleAdm /\ gc' = IdleGc /\ scans' = 0
  /\ UNCHANGED <<store, config, clock, seen, faults>>

\* Mistake: schema() replaces the capacity in any case.
RestartResized ==
  /\ phase = "down"
  /\ phase' = "expire"
  /\ config' \in Capacities
  /\ capTotal' = config'
  /\ UNCHANGED <<state, reserved, stamp, overdue, received, rows, capReserved, disk,
                 arrival, adm, gc, fin, scans, env>>

\* schema(): the configured capacity replaces the stored one only when
\* nothing is reserved.
Restart ==
  /\ phase = "down"
  /\ phase' = "expire"
  /\ \E c \in Capacities :
       /\ config' = c
       /\ capTotal' = IF capReserved = 0 THEN c ELSE capTotal
  /\ UNCHANGED <<state, reserved, stamp, overdue, received, rows, capReserved, disk,
                 arrival, adm, gc, fin, scans, env>>

\* reconcileResumableUploads: an upload without its file fails (failUpload).
Reconcile(j) ==
  /\ phase = "reconcile" /\ state[j] \in Open /\ ~spool[j]
  /\ state' = [state EXCEPT ![j] = "FAILED"]
  /\ reserved' = [reserved EXCEPT ![j] = 0]
  /\ overdue' = [overdue EXCEPT ![j] = FALSE]
  /\ rows' = rows \ {j}
  /\ capReserved' = Minus(capReserved, reserved[j])
  /\ UNCHANGED <<stamp, received, capTotal, disk, process, env>>

\* Mistake: uploads are resumed without a look at their files.
NoReconcile ==
  /\ phase = "reconcile"
  /\ phase' = "sweep"
  /\ UNCHANGED <<store, disk, config, arrival, adm, gc, fin, scans, env>>

EndReconcile ==
  /\ phase = "reconcile" /\ \A j \in Jobs : state[j] \in Open => spool[j]
  /\ phase' = "sweep"
  /\ UNCHANGED <<store, disk, config, arrival, adm, gc, fin, scans, env>>

\* cleanupTerminalSpools
\* Mistake: only failed and expired jobs are looked for.
StaleUnfinished == {j \in Jobs : state[j] \in {"FAILED", "EXPIRED"} /\ spool[j] /\ FinAt(j, "idle")}
Stale == {j \in Jobs : state[j] \in Terminal /\ spool[j] /\ FinAt(j, "idle")}

Sweep(j) ==
  /\ phase = "sweep" /\ j \in Stale
  /\ RemoveSpool(j)
  /\ UNCHANGED <<store, process, env>>

\* The end of recover(): processing resumes, admission is woken, and the
\* server listens.
EndRecover ==
  /\ phase = "sweep"
  /\ (Stale = {} /\ UNCHANGED faults) \/ Fault    \* what cannot be removed stays
  /\ phase' = "up"
  /\ Wake
  /\ UNCHANGED <<store, disk, config, arrival, adm, gc, fin, clock, seen, crashes>>

BootStep == EndReconcile \/ EndRecover \/ \E j \in Jobs : Reconcile(j) \/ Sweep(j)

-----------------------------------------------------------------------------
Init ==
  /\ state       = [j \in Jobs |-> "ABSENT"]
  /\ reserved    = [j \in Jobs |-> 0]
  /\ stamp       = [j \in Jobs |-> 0]
  /\ overdue     = [j \in Jobs |-> FALSE]
  /\ received    = [j \in Jobs |-> 0]
  /\ rows        = {}
  /\ capReserved = 0
  /\ config \in Capacities
  /\ capTotal    = config
  /\ spool       = [j \in Jobs |-> FALSE]
  /\ written     = [j \in Jobs |-> 0]
  /\ phase       = "up"
  /\ arrival     = [j \in Jobs |-> 0]
  /\ adm = IdleAdm /\ gc = IdleGc
  /\ fin         = [j \in Jobs |-> IdleFin]
  /\ scans       = 0
  /\ clock       = 0
  /\ seen        = [j \in Jobs |-> {}]
  /\ crashes = 0 /\ faults = 0

Next ==
  \/ AdmStart \/ AdmStep \/ GcStart \/ GcStep \/ GcAbort
  \/ Crash \/ Restart \/ BootStep
  \/ \E j \in Jobs : \/ Arrive(j) \/ Insert(j) \/ TimePasses(j) \/ Finish(j) \/ FinStep(j)
                     \/ ChunkStored(j) \/ ChunkRejected(j) \/ ChunkReplayed(j) \/ Complete(j)

Spec == Init /\ [][Next]_vars

(* A goroutine that can take a step takes it.  Waiters on admissionMu are  *)
(* served although others keep taking it (a Go mutex hands over to a       *)
(* starving waiter), and the ticker fires again and again.  Clients, the   *)
(* clock, FFmpeg and restarts owe nothing.                                 *)
Fairness ==
  /\ WF_vars(AdmStep) /\ WF_vars(GcStep) /\ WF_vars(BootStep)
  /\ SF_vars(AdmStart) /\ SF_vars(GcStart)
  /\ \A j \in Jobs : WF_vars(Insert(j)) /\ WF_vars(FinStep(j))

FairSpec == Spec /\ Fairness
-----------------------------------------------------------------------------
(* Correctness *)

FinRecord == [pc : {"idle", "read", "release", "capacity", "rows", "record", "cleanup"},
              done : BOOLEAN, amount : 0 .. MaxSize]
AdmRecord == [pc : {"idle", "scan", "reserve", "prepare", "admit", "failing"},
              job : Jobs \cup {NoJob}]
GcRecord  == [pc : {"idle", "next", "remove"}, todo : SUBSET Jobs,
              job : Jobs \cup {NoJob}, found : BOOLEAN]

\* Types of the variables.
TypeOK ==
  /\ state \in [Jobs -> States]
  /\ reserved \in [Jobs -> 0 .. MaxSize]
  /\ stamp \in [Jobs -> {0} \cup Stamps]
  /\ overdue \in [Jobs -> BOOLEAN]
  /\ received \in [Jobs -> 0 .. MaxSize]
  /\ rows \subseteq Jobs
  /\ capReserved \in Nat /\ capTotal \in Nat
  /\ spool \in [Jobs -> BOOLEAN]
  /\ written \in [Jobs -> 0 .. MaxSize]
  /\ phase \in {"down", "expire", "reconcile", "sweep", "up"}
  /\ config \in Capacities
  /\ arrival \in [Jobs -> {0} \cup Stamps]
  /\ adm \in AdmRecord
  /\ (adm.pc \in {"reserve", "prepare", "admit", "failing"}) => adm.job \in Jobs
  /\ gc \in GcRecord
  /\ gc.pc = "remove" => gc.job \in Jobs
  /\ fin \in [Jobs -> FinRecord]
  /\ scans \in 0 .. MaxScans
  /\ clock \in {0} \cup Stamps
  /\ seen \in [Jobs -> SUBSET Jobs]
  /\ crashes \in Nat /\ faults \in Nat

\* Who may be doing what: one holder of admissionMu; fail() and release()
\* run only for a job being processed or handed over by admitPending, which
\* waits; the job admitPending works on is PENDING; expiry removes files of
\* jobs that are EXPIRED by then; a request being accepted has no row.
Discipline ==
  /\ adm.pc = "idle" \/ gc.pc = "idle"
  /\ \A j \in Jobs : fin[j].pc # "idle" =>
       \/ state[j] \in {"PROCESSING", "COMPLETED", "FAILED"}
       \/ adm.pc = "failing" /\ adm.job = j /\ state[j] = "PENDING"
  /\ \A j \in Jobs : fin[j].pc = "capacity" => reserved[j] = 0
  /\ adm.pc \in {"reserve", "prepare", "admit"} => state[adm.job] = "PENDING"
  /\ gc.pc = "remove" => state[gc.job] = "EXPIRED"
  /\ \A j \in Jobs : arrival[j] # 0 => state[j] = "ABSENT"

\* Units some job holds: what jobs.reserved promises, and what release() has
\* taken from jobs.reserved and not yet from capacity.reserved.
HeldBy == [j \in Jobs |-> reserved[j] + (IF fin[j].pc = "capacity" THEN fin[j].amount ELSE 0)]
Held   == Cells(HeldBy)

(* The three separately committed statements of release(), the expiry and  *)
(* the admission, in any interleaving, with failing statements and crashes *)
(* between any two of them, never give capacity back twice: the capacity   *)
(* row covers every reservation, and stays within the total.               *)
CapacityCovers == Cardinality(Held) <= capReserved /\ capReserved <= capTotal

(* ensureSpoolSpace "keeps sparse-file reservations from overcommitting the *)
(* filesystem" (main.go:672): the blocks written and the blocks still       *)
(* promised fit on the disk together, so no accepted chunk meets ENOSPC,    *)
(* also while failed jobs still occupy blocks they no longer reserve.       *)
NoOvercommit == Cardinality(OnDisk \cup Promised) <= Disk

(* "A job remains PENDING until its preallocated input file exists"         *)
(* (main.go:587): whenever chunks are accepted the file is there, and the   *)
(* whole input is reserved; after a crash, from reconciliation on.          *)
UploadNeedsSpool ==
  \A j \in Jobs : state[j] \in Open =>
    /\ reserved[j] = Size[j]
    /\ phase \in {"sweep", "up"} => spool[j]

\* The file is there when admitPending is about to publish the job.
AdmitHasSpool == adm.pc = "admit" => spool[adm.job]

\* The conjunction the proofs carry through every step.
IInv == TypeOK /\ Discipline /\ CapacityCovers /\ NoOvercommit
          /\ UploadNeedsSpool /\ AdmitHasSpool

(* The input of a job that is over is off the disk once its clean-up has    *)
(* run, unless a removal failed: no goroutine puts a file back, whichever   *)
(* order expiry, admission and failure take.                                *)
NoOrphanSpool ==
  (faults = 0 /\ phase = "up") => \A j \in Jobs :
    (state[j] \in Terminal /\ FinAt(j, "idle") /\ gc.job # j) => ~spool[j]

(* "admits pending jobs in FIFO order" (README:235): a job is never         *)
(* admitted over one that already waited when its own request began.        *)
FifoAdmission ==
  [][\A j \in Jobs : (state[j] = "PENDING" /\ state'[j] = "ADMITTED") =>
       \A k \in seen[j] : ~(state[k] = "PENDING" /\ ~overdue[k])]_vars

\* What FIFO rests on: who was seen waiting has the earlier created_at, and
\* the text of the job being admitted sorts first among those still waiting.
Order ==
  /\ \A j \in Jobs : stamp[j] = 0 <=> state[j] = "ABSENT"
  /\ \A j \in Jobs : stamp[j] <= clock /\ arrival[j] <= clock
  /\ \A j \in Jobs : \A k \in seen[j] :
       /\ stamp[k] # 0
       /\ arrival[j] # 0 => stamp[k] < arrival[j]
       /\ stamp[j] # 0 => stamp[k] < stamp[j]
  /\ adm.pc \in {"reserve", "prepare", "admit"} =>
       \A k \in seen[adm.job] \cap Waiting : SortKey[stamp[adm.job]] <= SortKey[stamp[k]]

\* What keeps files of finished jobs from staying behind.
Swept ==
  faults = 0 => \A j \in Jobs : (state[j] \in Terminal /\ spool[j]) =>
    \/ fin[j].pc # "idle"
    \/ gc.pc = "remove" /\ gc.job = j
    \/ phase # "up"

(* Every step moves at most one job, along the stages clients rely on.      *)
StageOf == [ABSENT |-> "Absent", PENDING |-> "Waiting", ADMITTED |-> "Receiving",
            UPLOADING |-> "Receiving", PROCESSING |-> "Processing",
            COMPLETED |-> "Completed", FAILED |-> "Failed", EXPIRED |-> "Expired"]

Lifecycle == INSTANCE JobLifecycle WITH stage <- [j \in Jobs |-> StageOf[state[j]]]

ImplementsLifecycle == Lifecycle!Spec

(* Without crashes and failing statements the capacity row is exact: all    *)
(* that is reserved belongs to a job or is on its way back.                 *)
ExactCapacity == (crashes = 0 /\ faults = 0) => capReserved = Cardinality(Held)

(* "when local input-spool capacity is available" (README:235): capacity    *)
(* that no job reserves and no goroutine is giving back is available.       *)
NoLeak == (phase = "up" /\ Held = {}) => capReserved = 0

(* "admits pending jobs in FIFO order when local input-spool capacity is    *)
(* available" (README:235): the first waiting job is not left waiting       *)
(* while both limits leave room for it.                                     *)
HeadFits(j) == phase = "up" /\ j \in Oldest /\ Fits(j)
NoStarvation == \A j \in Jobs : HeadFits(j) ~> ~HeadFits(j)
=============================================================================
