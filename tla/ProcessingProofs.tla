-------------------------- MODULE ProcessingProofs --------------------------
(***************************************************************************)
(* Theorems about Processing, for any finite set of jobs, any number of    *)
(* slots and encoders, with or without cgroups, and any number of faults,  *)
(* crashes and lost databases.                                             *)
(*                                                                         *)
(* The argument: where a job's goroutine is says what its row can be, and  *)
(* the two UPDATEs that ask for no state (TRANSCODING, COMPLETED) are made *)
(* where the row is known; a job that was delivered has no goroutine that  *)
(* could still touch its artifact.                                         *)
(***************************************************************************)
EXTENDS Processing, FiniteSetTheorems, TLAPS

\* What the row of a job can be, by where its goroutine is
RowKnown(j) ==
  /\ pc[j] \in {"rename", "hash"} => state[j] = "FINALIZING"
  /\ At(j, "toProbing") => state[j] = "STAGED"
  /\ pc[j] \in {"probe", "toValidated"} => state[j] = "PROBING"
  /\ At(j, "toQueued") => state[j] = "VALIDATED"
  /\ At(j, "giveUp") => state[j] \in Verifying
  /\ At(j, "drop") => state[j] \in Verifying \cup {"FAILED"}
  /\ pc[j] \in {"load", "cgroup", "mark"} => state[j] = "STARTING"
  /\ pc[j] \in {"plan", "encode", "fallback", "manifest", "record"} => state[j] = "TRANSCODING"
  /\ At(j, "fail") => state[j] \in Interrupted
  /\ At(j, "dropInput") => state[j] \in Interrupted \cup {"FAILED"}
  /\ pc[j] \in {"uncgroup", "cleanup", "leave"} =>
       state[j] \in Interrupted \cup {"FAILED", "COMPLETED"}

\* A manifest that matches its artifact, and one about to
OutputKnown(j) ==
  /\ pc[j] \in {"manifest", "record"} => output[j] = "whole"
  /\ At(j, "record") => manifest[j] = "matches"
  /\ manifest[j] = "matches" => output[j] = "whole"
  /\ delivered[j] => state[j] \in {"COMPLETED", "ABSENT"} /\ manifest[j] = "matches"
  /\ pc[j] \in {"encode", "fallback"} => left[j] >= 1

\* Where the input is while nothing fails
InputKnown(j) ==
  faults = 0 =>
    /\ state[j] \in {"UPLOADING", "FINALIZING"} => spool[j] # "none"
    /\ state[j] \in InProcess \ {"FINALIZING"} => spool[j] = "input"
    /\ At(j, "hash") => spool[j] = "input"
    /\ pc[j] \in {"drop", "dropInput", "uncgroup", "cleanup"} =>
         state[j] \in {"COMPLETED", "FAILED"}

JobKnown(j) == RowKnown(j) /\ OutputKnown(j) /\ InputKnown(j)

\* The token of a claim is free until it is taken.
TokenKept == sched.pc = "claim" => sem < Active

\* Nobody works in a process that is down.
NobodyDown ==
  phase = "down" => sched = IdleSched /\ waiting = 0 /\ \A j \in Jobs : At(j, "idle")

IInv ==
  /\ TypeOK
  /\ \A j \in Jobs : JobKnown(j)
  /\ ActiveBound /\ TokenKept /\ NobodyDown

-----------------------------------------------------------------------------
(* Steps of one job *)

\* Nothing of the other jobs changes.
OthersStay(j) ==
  \A k \in Jobs \ {j} :
    /\ state'[k] = state[k] /\ pc'[k] = pc[k] /\ left'[k] = left[k]
    /\ spool'[k] = spool[k] /\ output'[k] = output[k] /\ manifest'[k] = manifest[k]
    /\ delivered'[k] = delivered[k]

\* ... nor of the scheduler, and the goroutine stays what it is.
OneAtWork(j) ==
  /\ OthersStay(j)
  /\ phase' = phase /\ sched' = sched /\ sem' = sem
  /\ pc'[j] \in AtRun <=> pc[j] \in AtRun
  /\ faults' = 0 => faults = 0

\* A goroutine is at work only in a process that is up.
LEMMA Working ==
  ASSUME IInv, NEW j \in Jobs, ~At(j, "idle")
  PROVE  phase = "up"
  BY DEF IInv, NobodyDown, TypeOK

\* What is known of a job stays so while the job does.
LEMMA Bystander ==
  ASSUME NEW k \in Jobs, JobKnown(k), faults' = 0 => faults = 0,
         state'[k] = state[k], pc'[k] = pc[k], left'[k] = left[k],
         spool'[k] = spool[k], output'[k] = output[k], manifest'[k] = manifest[k],
         delivered'[k] = delivered[k]
  PROVE  JobKnown(k)'
<1>1. RowKnown(k)'
  BY DEF JobKnown, RowKnown, At
<1>2. OutputKnown(k)'
  BY DEF JobKnown, OutputKnown, At
<1>3. InputKnown(k)'
  BY DEF JobKnown, InputKnown, At
<1>4. QED
  BY <1>1, <1>2, <1>3 DEF JobKnown

\* A step of one goroutine that stays what it is
LEMMA OneJob ==
  ASSUME IInv, NEW j \in Jobs, phase = "up", OneAtWork(j), TypeOK', JobKnown(j)'
  PROVE  IInv'
<1>1. ASSUME NEW k \in Jobs \ {j} PROVE JobKnown(k)'
  BY <1>1, Bystander DEF IInv, OneAtWork, OthersStay
<1>2. Running' = Running
  BY DEF Running, OneAtWork, OthersStay
<1>3. ActiveBound'
  BY <1>2 DEF IInv, ActiveBound, OneAtWork
<1>4. TokenKept' /\ NobodyDown'
  BY DEF IInv, TokenKept, NobodyDown, OneAtWork
<1>5. QED
  BY <1>1, <1>3, <1>4 DEF IInv

-----------------------------------------------------------------------------
(* finalize, run and fail *)

\* A complete upload is finalised by a goroutine of its own.
LEMMA CompleteStep ==
  ASSUME IInv, NEW j \in Jobs, Complete(j)
  PROVE  IInv'
<1>1. TypeOK /\ JobKnown(j) /\ phase = "up"
  BY Working DEF IInv, Complete, At, NobodyDown, TypeOK
<1>2. TypeOK'
  BY <1>1, ProcessingAssumption
     DEF Complete, At, GoTo, TypeOK, AtRun, AtFinalize, InProcess, Terminal, files,
         env
<1>3. JobKnown(j)'
  <2>1. RowKnown(j)'
    BY <1>1
       DEF Complete, At, GoTo, TypeOK, JobKnown, RowKnown, Verifying, Interrupted,
           files, env
  <2>2. OutputKnown(j)'
    BY <1>1
       DEF Complete, At, GoTo, TypeOK, JobKnown, RowKnown, OutputKnown, Verifying,
           Interrupted, files, env
  <2>3. InputKnown(j)'
    BY <1>1
       DEF Complete, At, GoTo, TypeOK, JobKnown, RowKnown, InputKnown, Verifying,
           Interrupted, InProcess, files, env
  <2>4. QED
    BY <2>1, <2>2, <2>3 DEF JobKnown
<1>4. OneAtWork(j)
  BY <1>1
     DEF Complete, OneAtWork, OthersStay, At, GoTo, TypeOK, AtRun, JobKnown,
         RowKnown, Interrupted, files, env
<1>5. QED
  BY <1>1, <1>2, <1>3, <1>4, OneJob

\* The input gets its name.
LEMMA RenameStep ==
  ASSUME IInv, NEW j \in Jobs, Rename(j)
  PROVE  IInv'
<1>1. TypeOK /\ JobKnown(j) /\ phase = "up"
  BY Working DEF IInv, Rename, At, NobodyDown, TypeOK
<1>2. TypeOK'
  BY <1>1, ProcessingAssumption
     DEF Rename, At, GoTo, Fault, TypeOK, AtRun, AtFinalize, InProcess, Terminal
<1>3. JobKnown(j)'
  <2>1. RowKnown(j)'
    BY <1>1
       DEF Rename, At, GoTo, Fault, TypeOK, JobKnown, RowKnown, Verifying,
           Interrupted
  <2>2. OutputKnown(j)'
    BY <1>1 DEF Rename, At, GoTo, Fault, TypeOK, JobKnown, RowKnown, OutputKnown
  <2>3. InputKnown(j)'
    BY <1>1
       DEF Rename, At, GoTo, Fault, TypeOK, JobKnown, RowKnown, InputKnown,
           InProcess
  <2>4. QED
    BY <2>1, <2>2, <2>3 DEF JobKnown
<1>4. OneAtWork(j)
  BY <1>1 DEF Rename, OneAtWork, OthersStay, At, GoTo, Fault, TypeOK, AtRun
<1>5. QED
  BY <1>1, <1>2, <1>3, <1>4, OneJob

\* The whole input is staged.
LEMMA HashStep ==
  ASSUME IInv, NEW j \in Jobs, Hash(j)
  PROVE  IInv'
<1>1. TypeOK /\ JobKnown(j) /\ phase = "up"
  BY Working DEF IInv, Hash, At, NobodyDown, TypeOK
<1>2. TypeOK'
  BY <1>1, ProcessingAssumption
     DEF Hash, UpdateWhere, At, GoTo, Fault, TypeOK, AtRun, AtFinalize, InProcess,
         Terminal, files
<1>3. JobKnown(j)'
  <2>1. RowKnown(j)'
    BY <1>1
       DEF Hash, UpdateWhere, At, GoTo, Fault, TypeOK, JobKnown, RowKnown,
           Verifying, Interrupted, files
  <2>2. OutputKnown(j)'
    BY <1>1
       DEF Hash, UpdateWhere, At, GoTo, Fault, TypeOK, JobKnown, RowKnown,
           OutputKnown, files
  <2>3. InputKnown(j)'
    BY <1>1
       DEF Hash, UpdateWhere, At, GoTo, Fault, TypeOK, JobKnown, RowKnown,
           InputKnown, InProcess, files
  <2>4. QED
    BY <2>1, <2>2, <2>3 DEF JobKnown
<1>4. OneAtWork(j)
  BY <1>1
     DEF Hash, UpdateWhere, OneAtWork, OthersStay, At, GoTo, Fault, TypeOK, AtRun,
         files
<1>5. QED
  BY <1>1, <1>2, <1>3, <1>4, OneJob

\* A staged input is probed.
LEMMA ToProbingStep ==
  ASSUME IInv, NEW j \in Jobs, ToProbing(j)
  PROVE  IInv'
<1>1. TypeOK /\ JobKnown(j) /\ phase = "up"
  BY Working DEF IInv, ToProbing, Advance, At, NobodyDown, TypeOK
<1>2. TypeOK'
  BY <1>1, ProcessingAssumption
     DEF ToProbing, Advance, UpdateWhere, At, GoTo, Fault, TypeOK, AtRun,
         AtFinalize, InProcess, Terminal, files
<1>3. JobKnown(j)'
  <2>1. RowKnown(j)'
    BY <1>1
       DEF ToProbing, Advance, UpdateWhere, At, GoTo, Fault, TypeOK, JobKnown,
           RowKnown, Verifying, Interrupted, files
  <2>2. OutputKnown(j)'
    BY <1>1
       DEF ToProbing, Advance, UpdateWhere, At, GoTo, Fault, TypeOK, JobKnown,
           RowKnown, OutputKnown, files
  <2>3. InputKnown(j)'
    BY <1>1
       DEF ToProbing, Advance, UpdateWhere, At, GoTo, Fault, TypeOK, JobKnown,
           RowKnown, InputKnown, InProcess, files
  <2>4. QED
    BY <2>1, <2>2, <2>3 DEF JobKnown
<1>4. OneAtWork(j)
  BY <1>1
     DEF ToProbing, Advance, UpdateWhere, OneAtWork, OthersStay, At, GoTo, Fault,
         TypeOK, AtRun, files
<1>5. QED
  BY <1>1, <1>2, <1>3, <1>4, OneJob

\* The report is accepted or not.
LEMMA ProbeStep ==
  ASSUME IInv, NEW j \in Jobs, Probe(j)
  PROVE  IInv'
<1>1. TypeOK /\ JobKnown(j) /\ phase = "up"
  BY Working DEF IInv, Probe, At, NobodyDown, TypeOK
<1>2. TypeOK'
  BY <1>1, ProcessingAssumption
     DEF Probe, At, GoTo, TypeOK, AtRun, AtFinalize, InProcess, Terminal, files,
         env
<1>3. JobKnown(j)'
  <2>1. RowKnown(j)'
    BY <1>1
       DEF Probe, At, GoTo, TypeOK, JobKnown, RowKnown, Verifying, Interrupted,
           files, env
  <2>2. OutputKnown(j)'
    BY <1>1 DEF Probe, At, GoTo, TypeOK, JobKnown, RowKnown, OutputKnown, files, env
  <2>3. InputKnown(j)'
    BY <1>1
       DEF Probe, At, GoTo, TypeOK, JobKnown, RowKnown, InputKnown, InProcess,
           files, env
  <2>4. QED
    BY <2>1, <2>2, <2>3 DEF JobKnown
<1>4. OneAtWork(j)
  BY <1>1 DEF Probe, OneAtWork, OthersStay, At, GoTo, TypeOK, AtRun, files, env
<1>5. QED
  BY <1>1, <1>2, <1>3, <1>4, OneJob

\* A probed input is validated.
LEMMA ToValidatedStep ==
  ASSUME IInv, NEW j \in Jobs, ToValidated(j)
  PROVE  IInv'
<1>1. TypeOK /\ JobKnown(j) /\ phase = "up"
  BY Working DEF IInv, ToValidated, Advance, At, NobodyDown, TypeOK
<1>2. TypeOK'
  BY <1>1, ProcessingAssumption
     DEF ToValidated, Advance, UpdateWhere, At, GoTo, Fault, TypeOK, AtRun,
         AtFinalize, InProcess, Terminal, files
<1>3. JobKnown(j)'
  <2>1. RowKnown(j)'
    BY <1>1
       DEF ToValidated, Advance, UpdateWhere, At, GoTo, Fault, TypeOK, JobKnown,
           RowKnown, Verifying, Interrupted, files
  <2>2. OutputKnown(j)'
    BY <1>1
       DEF ToValidated, Advance, UpdateWhere, At, GoTo, Fault, TypeOK, JobKnown,
           RowKnown, OutputKnown, files
  <2>3. InputKnown(j)'
    BY <1>1
       DEF ToValidated, Advance, UpdateWhere, At, GoTo, Fault, TypeOK, JobKnown,
           RowKnown, InputKnown, InProcess, files
  <2>4. QED
    BY <2>1, <2>2, <2>3 DEF JobKnown
<1>4. OneAtWork(j)
  BY <1>1
     DEF ToValidated, Advance, UpdateWhere, OneAtWork, OthersStay, At, GoTo, Fault,
         TypeOK, AtRun, files
<1>5. QED
  BY <1>1, <1>2, <1>3, <1>4, OneJob

\* A validated input is queued.
LEMMA ToQueuedStep ==
  ASSUME IInv, NEW j \in Jobs, ToQueued(j)
  PROVE  IInv'
<1>1. TypeOK /\ JobKnown(j) /\ phase = "up"
  BY Working DEF IInv, ToQueued, Advance, At, NobodyDown, TypeOK
<1>2. TypeOK'
  BY <1>1, ProcessingAssumption
     DEF ToQueued, Advance, UpdateWhere, At, GoTo, Fault, TypeOK, AtRun,
         AtFinalize, InProcess, Terminal, files
<1>3. JobKnown(j)'
  <2>1. RowKnown(j)'
    BY <1>1
       DEF ToQueued, Advance, UpdateWhere, At, GoTo, Fault, TypeOK, JobKnown,
           RowKnown, Verifying, Interrupted, files
  <2>2. OutputKnown(j)'
    BY <1>1
       DEF ToQueued, Advance, UpdateWhere, At, GoTo, Fault, TypeOK, JobKnown,
           RowKnown, OutputKnown, files
  <2>3. InputKnown(j)'
    BY <1>1
       DEF ToQueued, Advance, UpdateWhere, At, GoTo, Fault, TypeOK, JobKnown,
           RowKnown, InputKnown, InProcess, files
  <2>4. QED
    BY <2>1, <2>2, <2>3 DEF JobKnown
<1>4. OneAtWork(j)
  BY <1>1
     DEF ToQueued, Advance, UpdateWhere, OneAtWork, OthersStay, At, GoTo, Fault,
         TypeOK, AtRun, files
<1>5. QED
  BY <1>1, <1>2, <1>3, <1>4, OneJob

\* The worker reads the row.
LEMMA RunLoadStep ==
  ASSUME IInv, NEW j \in Jobs, RunLoad(j)
  PROVE  IInv'
<1>1. TypeOK /\ JobKnown(j) /\ phase = "up"
  BY Working DEF IInv, RunLoad, At, NobodyDown, TypeOK
<1>2. TypeOK'
  BY <1>1, ProcessingAssumption
     DEF RunLoad, At, GoTo, Fault, TypeOK, AtRun, AtFinalize, InProcess, Terminal,
         files
<1>3. JobKnown(j)'
  <2>1. RowKnown(j)'
    BY <1>1
       DEF RunLoad, At, GoTo, Fault, TypeOK, JobKnown, RowKnown, Verifying,
           Interrupted, files
  <2>2. OutputKnown(j)'
    BY <1>1 DEF RunLoad, At, GoTo, Fault, TypeOK, JobKnown, RowKnown, OutputKnown, files
  <2>3. InputKnown(j)'
    BY <1>1
       DEF RunLoad, At, GoTo, Fault, TypeOK, JobKnown, RowKnown, InputKnown,
           InProcess, files
  <2>4. QED
    BY <2>1, <2>2, <2>3 DEF JobKnown
<1>4. OneAtWork(j)
  BY <1>1 DEF RunLoad, OneAtWork, OthersStay, At, GoTo, Fault, TypeOK, AtRun, files
<1>5. QED
  BY <1>1, <1>2, <1>3, <1>4, OneJob

\* The worker makes its cgroup.
LEMMA MakeCgroupStep ==
  ASSUME IInv, NEW j \in Jobs, MakeCgroup(j)
  PROVE  IInv'
<1>1. TypeOK /\ JobKnown(j) /\ phase = "up"
  BY Working DEF IInv, MakeCgroup, At, NobodyDown, TypeOK
<1>2. TypeOK'
  BY <1>1, ProcessingAssumption
     DEF MakeCgroup, At, GoTo, Fault, TypeOK, AtRun, AtFinalize, InProcess,
         Terminal
<1>3. JobKnown(j)'
  <2>1. RowKnown(j)'
    BY <1>1
       DEF MakeCgroup, At, GoTo, Fault, TypeOK, JobKnown, RowKnown, Verifying,
           Interrupted
  <2>2. OutputKnown(j)'
    BY <1>1 DEF MakeCgroup, At, GoTo, Fault, TypeOK, JobKnown, RowKnown, OutputKnown
  <2>3. InputKnown(j)'
    BY <1>1
       DEF MakeCgroup, At, GoTo, Fault, TypeOK, JobKnown, RowKnown, InputKnown,
           InProcess
  <2>4. QED
    BY <2>1, <2>2, <2>3 DEF JobKnown
<1>4. OneAtWork(j)
  BY <1>1 DEF MakeCgroup, OneAtWork, OthersStay, At, GoTo, Fault, TypeOK, AtRun
<1>5. QED
  BY <1>1, <1>2, <1>3, <1>4, OneJob

\* The row that moves to TRANSCODING was STARTING.
LEMMA MarkTranscodingStep ==
  ASSUME IInv, NEW j \in Jobs, MarkTranscoding(j)
  PROVE  IInv'
<1>1. TypeOK /\ JobKnown(j) /\ phase = "up"
  BY Working DEF IInv, MarkTranscoding, At, NobodyDown, TypeOK
<1>2. TypeOK'
  BY <1>1, ProcessingAssumption
     DEF MarkTranscoding, At, GoTo, Fault, TypeOK, AtRun, AtFinalize, InProcess,
         Terminal, files
<1>3. JobKnown(j)'
  <2>1. RowKnown(j)'
    BY <1>1
       DEF MarkTranscoding, At, GoTo, Fault, TypeOK, JobKnown, RowKnown, Verifying,
           Interrupted, files
  <2>2. OutputKnown(j)'
    BY <1>1
       DEF MarkTranscoding, At, GoTo, Fault, TypeOK, JobKnown, RowKnown,
           OutputKnown, files
  <2>3. InputKnown(j)'
    BY <1>1
       DEF MarkTranscoding, At, GoTo, Fault, TypeOK, JobKnown, RowKnown,
           InputKnown, InProcess, files
  <2>4. QED
    BY <2>1, <2>2, <2>3 DEF JobKnown
<1>4. OneAtWork(j)
  BY <1>1
     DEF MarkTranscoding, OneAtWork, OthersStay, At, GoTo, Fault, TypeOK, AtRun,
         files
<1>5. QED
  BY <1>1, <1>2, <1>3, <1>4, OneJob

\* The worker has at least one encoder.
LEMMA PlanStep ==
  ASSUME IInv, NEW j \in Jobs, Plan(j)
  PROVE  IInv'
<1>1. TypeOK /\ JobKnown(j) /\ phase = "up"
  BY Working DEF IInv, Plan, At, NobodyDown, TypeOK
<1>2. TypeOK'
  BY <1>1, ProcessingAssumption
     DEF Plan, At, GoTo, TypeOK, AtRun, AtFinalize, InProcess, Terminal, files, env
<1>3. JobKnown(j)'
  <2>1. RowKnown(j)'
    BY <1>1
       DEF Plan, At, GoTo, TypeOK, JobKnown, RowKnown, Verifying, Interrupted,
           files, env
  <2>2. OutputKnown(j)'
    BY <1>1 DEF Plan, At, GoTo, TypeOK, JobKnown, RowKnown, OutputKnown, files, env
  <2>3. InputKnown(j)'
    BY <1>1
       DEF Plan, At, GoTo, TypeOK, JobKnown, RowKnown, InputKnown, InProcess,
           files, env
  <2>4. QED
    BY <2>1, <2>2, <2>3 DEF JobKnown
<1>4. OneAtWork(j)
  BY <1>1 DEF Plan, OneAtWork, OthersStay, At, GoTo, TypeOK, AtRun, files, env
<1>5. QED
  BY <1>1, <1>2, <1>3, <1>4, OneJob

\* FFmpeg wrote the artifact of a job that was not delivered.
LEMMA EncodeSucceedsStep ==
  ASSUME IInv, NEW j \in Jobs, EncodeSucceeds(j)
  PROVE  IInv'
<1>1. TypeOK /\ JobKnown(j) /\ phase = "up"
  BY Working DEF IInv, EncodeSucceeds, At, NobodyDown, TypeOK
<1>2. TypeOK'
  BY <1>1, ProcessingAssumption
     DEF EncodeSucceeds, Outdate, At, GoTo, TypeOK, AtRun, AtFinalize, InProcess,
         Terminal, env
<1>3. JobKnown(j)'
  <2>1. RowKnown(j)'
    BY <1>1
       DEF EncodeSucceeds, Outdate, At, GoTo, TypeOK, JobKnown, RowKnown,
           Verifying, Interrupted, env
  <2>2. OutputKnown(j)'
    BY <1>1
       DEF EncodeSucceeds, Outdate, At, GoTo, TypeOK, JobKnown, RowKnown,
           OutputKnown, env
  <2>3. InputKnown(j)'
    BY <1>1
       DEF EncodeSucceeds, Outdate, At, GoTo, TypeOK, JobKnown, RowKnown,
           InputKnown, InProcess, env
  <2>4. QED
    BY <2>1, <2>2, <2>3 DEF JobKnown
<1>4. OneAtWork(j)
  BY <1>1
     DEF EncodeSucceeds, Outdate, OneAtWork, OthersStay, At, GoTo, TypeOK, AtRun,
         env
<1>5. QED
  BY <1>1, <1>2, <1>3, <1>4, OneJob

\* FFmpeg failed on a job that was not delivered.
LEMMA EncodeFailsStep ==
  ASSUME IInv, NEW j \in Jobs, EncodeFails(j)
  PROVE  IInv'
<1>1. TypeOK /\ JobKnown(j) /\ phase = "up"
  BY Working DEF IInv, EncodeFails, At, NobodyDown, TypeOK
<1>2. TypeOK'
  BY <1>1, ProcessingAssumption
     DEF EncodeFails, Outdate, HasNext, At, GoTo, TypeOK, AtRun, AtFinalize,
         InProcess, Terminal, OutputKnown, JobKnown, env
<1>3. JobKnown(j)'
  <2>1. RowKnown(j)'
    BY <1>1
       DEF EncodeFails, Outdate, HasNext, At, GoTo, TypeOK, JobKnown, RowKnown,
           Verifying, Interrupted, env
  <2>2. OutputKnown(j)'
    BY <1>1
       DEF EncodeFails, Outdate, HasNext, At, GoTo, TypeOK, JobKnown, RowKnown,
           OutputKnown, env
  <2>3. InputKnown(j)'
    BY <1>1
       DEF EncodeFails, Outdate, HasNext, At, GoTo, TypeOK, JobKnown, RowKnown,
           InputKnown, InProcess, env
  <2>4. QED
    BY <2>1, <2>2, <2>3 DEF JobKnown
<1>4. OneAtWork(j)
  BY <1>1
     DEF EncodeFails, Outdate, HasNext, OneAtWork, OthersStay, At, GoTo, TypeOK,
         AtRun, env
<1>5. QED
  BY <1>1, <1>2, <1>3, <1>4, OneJob

\* An artifact is removed only of a job that was not delivered.
LEMMA FallbackStep ==
  ASSUME IInv, NEW j \in Jobs, Fallback(j)
  PROVE  IInv'
<1>1. TypeOK /\ JobKnown(j) /\ phase = "up"
  BY Working DEF IInv, Fallback, At, NobodyDown, TypeOK
<1>2. TypeOK'
  BY <1>1, ProcessingAssumption
     DEF Fallback, Outdate, At, GoTo, Fault, TypeOK, AtRun, AtFinalize, InProcess,
         Terminal
<1>3. JobKnown(j)'
  <2>1. RowKnown(j)'
    BY <1>1
       DEF Fallback, Outdate, At, GoTo, Fault, TypeOK, JobKnown, RowKnown,
           Verifying, Interrupted
  <2>2. OutputKnown(j)'
    BY <1>1
       DEF Fallback, Outdate, At, GoTo, Fault, TypeOK, JobKnown, RowKnown,
           OutputKnown
  <2>3. InputKnown(j)'
    BY <1>1
       DEF Fallback, Outdate, At, GoTo, Fault, TypeOK, JobKnown, RowKnown,
           InputKnown, InProcess
  <2>4. QED
    BY <2>1, <2>2, <2>3 DEF JobKnown
<1>4. OneAtWork(j)
  BY <1>1 DEF Fallback, Outdate, OneAtWork, OthersStay, At, GoTo, Fault, TypeOK, AtRun
<1>5. QED
  BY <1>1, <1>2, <1>3, <1>4, OneJob

\* A manifest is written for a whole artifact.
LEMMA WriteManifestStep ==
  ASSUME IInv, NEW j \in Jobs, WriteManifest(j)
  PROVE  IInv'
<1>1. TypeOK /\ JobKnown(j) /\ phase = "up"
  BY Working DEF IInv, WriteManifest, At, NobodyDown, TypeOK
<1>2. TypeOK'
  BY <1>1, ProcessingAssumption
     DEF WriteManifest, At, GoTo, Fault, TypeOK, AtRun, AtFinalize, InProcess,
         Terminal
<1>3. JobKnown(j)'
  <2>1. RowKnown(j)'
    BY <1>1
       DEF WriteManifest, At, GoTo, Fault, TypeOK, JobKnown, RowKnown, Verifying,
           Interrupted
  <2>2. OutputKnown(j)'
    BY <1>1 DEF WriteManifest, At, GoTo, Fault, TypeOK, JobKnown, RowKnown, OutputKnown
  <2>3. InputKnown(j)'
    BY <1>1
       DEF WriteManifest, At, GoTo, Fault, TypeOK, JobKnown, RowKnown, InputKnown,
           InProcess
  <2>4. QED
    BY <2>1, <2>2, <2>3 DEF JobKnown
<1>4. OneAtWork(j)
  BY <1>1 DEF WriteManifest, OneAtWork, OthersStay, At, GoTo, Fault, TypeOK, AtRun
<1>5. QED
  BY <1>1, <1>2, <1>3, <1>4, OneJob

\* The job is delivered with its artifact and manifest.
LEMMA RecordCompletedStep ==
  ASSUME IInv, NEW j \in Jobs, RecordCompleted(j)
  PROVE  IInv'
<1>1. TypeOK /\ JobKnown(j) /\ phase = "up"
  BY Working DEF IInv, RecordCompleted, At, NobodyDown, TypeOK
<1>2. TypeOK'
  <2>1. delivered' \in [Jobs -> BOOLEAN]
    BY <1>1 DEF RecordCompleted, Deliver, TypeOK
  <2>2. state' \in [Jobs -> InProcess \cup Terminal \cup {"UPLOADING", "ABSENT"}]
    BY <1>1 DEF RecordCompleted, TypeOK, Terminal
  <2>3. pc' \in [Jobs -> AtRun \cup AtFinalize \cup {"idle"}] /\ faults' \in Nat
    BY <1>1 DEF RecordCompleted, GoTo, Fault, TypeOK, AtRun
  <2>4. QED
    BY <1>1, <2>1, <2>2, <2>3 DEF RecordCompleted, TypeOK, files
<1>3. JobKnown(j)'
  <2>1. RowKnown(j)'
    BY <1>1
       DEF RecordCompleted, Deliver, At, GoTo, Fault, TypeOK, JobKnown, RowKnown,
           Verifying, Interrupted, files
  <2>2. OutputKnown(j)'
    BY <1>1
       DEF RecordCompleted, Deliver, At, GoTo, Fault, TypeOK, JobKnown, RowKnown,
           OutputKnown, files
  <2>3. InputKnown(j)'
    BY <1>1
       DEF RecordCompleted, Deliver, At, GoTo, Fault, TypeOK, JobKnown, RowKnown,
           InputKnown, InProcess, files
  <2>4. QED
    BY <2>1, <2>2, <2>3 DEF JobKnown
<1>4. OneAtWork(j)
  BY <1>1
     DEF RecordCompleted, Deliver, OneAtWork, OthersStay, At, GoTo, Fault, TypeOK,
         AtRun, files
<1>5. QED
  BY <1>1, <1>2, <1>3, <1>4, OneJob

\* The worker removes its cgroup.
LEMMA RemoveCgroupStep ==
  ASSUME IInv, NEW j \in Jobs, RemoveCgroup(j)
  PROVE  IInv'
<1>1. TypeOK /\ JobKnown(j) /\ phase = "up"
  BY Working DEF IInv, RemoveCgroup, At, NobodyDown, TypeOK
<1>2. TypeOK'
  BY <1>1, ProcessingAssumption
     DEF RemoveCgroup, At, GoTo, Fault, TypeOK, AtRun, AtFinalize, InProcess,
         Terminal
<1>3. JobKnown(j)'
  <2>1. RowKnown(j)'
    BY <1>1
       DEF RemoveCgroup, At, GoTo, Fault, TypeOK, JobKnown, RowKnown, Verifying,
           Interrupted
  <2>2. OutputKnown(j)'
    BY <1>1 DEF RemoveCgroup, At, GoTo, Fault, TypeOK, JobKnown, RowKnown, OutputKnown
  <2>3. InputKnown(j)'
    BY <1>1
       DEF RemoveCgroup, At, GoTo, Fault, TypeOK, JobKnown, RowKnown, InputKnown,
           InProcess
  <2>4. QED
    BY <2>1, <2>2, <2>3 DEF JobKnown
<1>4. OneAtWork(j)
  BY <1>1 DEF RemoveCgroup, OneAtWork, OthersStay, At, GoTo, Fault, TypeOK, AtRun
<1>5. QED
  BY <1>1, <1>2, <1>3, <1>4, OneJob

\* A job that is over does not fail.
LEMMA RecordFailedStep ==
  ASSUME IInv, NEW j \in Jobs, RecordFailed(j)
  PROVE  IInv'
<1>1. TypeOK /\ JobKnown(j) /\ phase = "up"
  BY Working DEF IInv, RecordFailed, At, NobodyDown, TypeOK
<1>2. TypeOK'
  BY <1>1, ProcessingAssumption
     DEF RecordFailed, At, GoTo, Fault, TypeOK, AtRun, AtFinalize, InProcess,
         Terminal, files
<1>3. JobKnown(j)'
  <2>1. RowKnown(j)'
    BY <1>1
       DEF RecordFailed, At, GoTo, Fault, TypeOK, JobKnown, RowKnown, Verifying,
           Interrupted, files
  <2>2. OutputKnown(j)'
    BY <1>1
       DEF RecordFailed, At, GoTo, Fault, TypeOK, JobKnown, RowKnown, OutputKnown,
           Verifying, Interrupted, files
  <2>3. InputKnown(j)'
    BY <1>1
       DEF RecordFailed, At, GoTo, Fault, TypeOK, JobKnown, RowKnown, InputKnown,
           Verifying, Interrupted, InProcess, files
  <2>4. QED
    BY <2>1, <2>2, <2>3 DEF JobKnown
<1>4. OneAtWork(j)
  BY <1>1 DEF RecordFailed, OneAtWork, OthersStay, At, GoTo, Fault, TypeOK, AtRun, files
<1>5. QED
  BY <1>1, <1>2, <1>3, <1>4, OneJob

\* The input removed is that of a job that is over, unless something failed.
LEMMA CleanupSpoolStep ==
  ASSUME IInv, NEW j \in Jobs, CleanupSpool(j)
  PROVE  IInv'
<1>1. TypeOK /\ JobKnown(j) /\ phase = "up"
  BY Working DEF IInv, CleanupSpool, AfterCleanup, At, NobodyDown, TypeOK
<1>2. TypeOK'
  BY <1>1, ProcessingAssumption
     DEF CleanupSpool, AfterCleanup, RemoveSpool, GoTo, Fault, TypeOK, AtRun,
         AtFinalize, InProcess, Terminal
<1>3. JobKnown(j)'
  <2>1. RowKnown(j)'
    BY <1>1
       DEF CleanupSpool, AfterCleanup, RemoveSpool, At, GoTo, Fault, TypeOK,
           JobKnown, RowKnown, Verifying, Interrupted
  <2>2. OutputKnown(j)'
    BY <1>1
       DEF CleanupSpool, AfterCleanup, RemoveSpool, At, GoTo, Fault, TypeOK,
           JobKnown, RowKnown, OutputKnown
  <2>3. InputKnown(j)'
    BY <1>1
       DEF CleanupSpool, AfterCleanup, RemoveSpool, At, GoTo, Fault, TypeOK,
           JobKnown, RowKnown, InputKnown, InProcess
  <2>4. QED
    BY <2>1, <2>2, <2>3 DEF JobKnown
<1>4. OneAtWork(j)
  BY <1>1
     DEF CleanupSpool, AfterCleanup, RemoveSpool, OneAtWork, OthersStay, GoTo,
         Fault, TypeOK, AtRun
<1>5. QED
  BY <1>1, <1>2, <1>3, <1>4, OneJob

-----------------------------------------------------------------------------
(* Tokens: leave and schedule *)

\* Workers at work are finitely many.
LEMMA RunningFinite ==
  ASSUME TypeOK
  PROVE  Running \subseteq Jobs /\ IsFiniteSet(Running) /\ Cardinality(Running) \in Nat
<1>1. Running \subseteq Jobs
  BY DEF Running
<1>2. IsFiniteSet(Running)
  BY <1>1, ProcessingAssumption, FS_Subset
<1>3. QED
  BY <1>1, <1>2, FS_CardinalityType

\* The worker that leaves gives back its own token.
LEMMA LeaveStep ==
  ASSUME IInv, NEW j \in Jobs, Leave(j)
  PROVE  IInv'
<1>1. TypeOK /\ JobKnown(j) /\ phase = "up" /\ ActiveBound
  BY Working DEF IInv, Leave, At, NobodyDown, TypeOK
<1>2. j \in Running /\ Running' = Running \ {j}
  BY <1>1 DEF Running, Leave, At, GoTo, TypeOK, AtRun
<1>3. Cardinality(Running') = sem - 1 /\ sem - 1 \in Nat /\ sem - 1 <= Active
  <2>1. Cardinality(Running \ {j}) = Cardinality(Running) - 1
    BY <1>1, <1>2, RunningFinite, FS_RemoveElement
  <2>2. Cardinality(Running \ {j}) \in Nat
    BY <1>1, RunningFinite, FS_RemoveElement, FS_CardinalityType
  <2>3. QED
    BY <1>1, <1>2, <2>1, <2>2, ProcessingAssumption DEF ActiveBound, TypeOK
<1>4. TypeOK'
  BY <1>1, <1>3 DEF Leave, GoTo, TypeOK, files, env
<1>5. JobKnown(j)'
  <2>1. RowKnown(j)'
    BY <1>1 DEF Leave, At, GoTo, TypeOK, RowKnown
  <2>2. OutputKnown(j)'
    BY <1>1 DEF Leave, At, GoTo, TypeOK, JobKnown, OutputKnown, files, env
  <2>3. InputKnown(j)'
    BY <1>1 DEF Leave, At, GoTo, TypeOK, JobKnown, InputKnown, files, env
  <2>4. QED
    BY <2>1, <2>2, <2>3 DEF JobKnown
<1>6. ASSUME NEW k \in Jobs \ {j} PROVE JobKnown(k)'
  BY <1>1, Bystander DEF IInv, Leave, GoTo, TypeOK, files, env
<1>7. ActiveBound'
  BY <1>3 DEF ActiveBound, Leave
<1>8. TokenKept' /\ NobodyDown'
  BY <1>1, <1>3, ProcessingAssumption DEF IInv, Leave, TokenKept, NobodyDown, TypeOK
<1>9. QED
  BY <1>4, <1>5, <1>6, <1>7, <1>8 DEF IInv

\* A step of schedule that touches no job, and keeps the token it looked for
LEMMA SchedulerOnly ==
  ASSUME IInv, TypeOK', faults' = 0 => faults = 0, phase = "up", TokenKept',
         UNCHANGED <<state, files, phase, pc, left, sem, delivered>>
  PROVE  IInv'
<1>1. ASSUME NEW k \in Jobs PROVE JobKnown(k)'
  BY <1>1, Bystander DEF IInv, files
<1>2. ActiveBound'
  BY DEF IInv, ActiveBound, Running
<1>3. NobodyDown'
  BY DEF NobodyDown
<1>4. QED
  BY <1>1, <1>2, <1>3 DEF IInv

\* schedule() gets scheduleMu.
LEMMA SchedStartStep ==
  ASSUME IInv, SchedStart, phase = "up"
  PROVE  IInv'
<1>1. sched' = [pc |-> "scan", job |-> NoJob]
  BY DEF SchedStart, IdleSched
<1>2. TypeOK'
  BY <1>1 DEF IInv, SchedStart, TypeOK, files, env
<1>3. TokenKept'
  BY <1>1 DEF TokenKept
<1>4. QED
  BY <1>2, <1>3, SchedulerOnly DEF SchedStart, env

\* A job is claimed only where a token is free.
LEMMA SchedScanStep ==
  ASSUME IInv, SchedScan, phase = "up"
  PROVE  IInv'
<1>1. \/ \E j \in Jobs : SlotFree /\ sched' = [pc |-> "claim", job |-> j] /\ UNCHANGED faults
      \/ sched' = [pc |-> "idle", job |-> NoJob] /\ (UNCHANGED faults \/ Fault)
  BY DEF SchedScan, IdleSched, First, Queued
<1>2. TypeOK' /\ TokenKept' /\ (faults' = 0 => faults = 0)
  BY <1>1 DEF IInv, SchedScan, SlotFree, Fault, TypeOK, TokenKept, files
<1>3. QED
  BY <1>2, SchedulerOnly DEF SchedScan

\* The claimed job was at rest: its goroutine takes the token that was free.
LEMMA SchedClaimStep ==
  ASSUME IInv, SchedClaim, phase = "up"
  PROVE  IInv'
<1> DEFINE j == sched.job
<1>1. TypeOK /\ j \in Jobs /\ JobKnown(j) /\ ActiveBound /\ sem < Active
  BY DEF IInv, SchedClaim, TypeOK, TokenKept
<1>2. CASE Fault /\ sched' = IdleSched /\ UNCHANGED <<state, sem, pc>>
  <2>1. TypeOK' /\ TokenKept'
    BY <1>1, <1>2 DEF SchedClaim, IdleSched, Fault, TypeOK, TokenKept, files
  <2>2. QED
    BY <1>1, <1>2, <2>1, SchedulerOnly DEF SchedClaim, Fault, TypeOK
<1>3. CASE /\ state[j] = "QUEUED"
           /\ state' = [state EXCEPT ![j] = "STARTING"]
           /\ sem' = sem + 1
           /\ pc' = [pc EXCEPT ![j] = "load"]
           /\ sched' = [IdleSched EXCEPT !.pc = "scan"]
           /\ UNCHANGED faults
  <2>1. PICK k \in Jobs : k = j
    BY <1>1
  <2>2. pc[k] = "idle"
    BY <1>1, <1>3, <2>1 DEF TypeOK, JobKnown, RowKnown, At, AtRun, AtFinalize, Interrupted,
          Verifying
  <2>3. sched' = [pc |-> "scan", job |-> NoJob]
    BY <1>3 DEF IdleSched
  <2>4. TypeOK'
    <3>1. state' \in [Jobs -> InProcess \cup Terminal \cup {"UPLOADING", "ABSENT"}]
      BY <1>1, <1>3 DEF TypeOK, InProcess
    <3>2. pc' \in [Jobs -> AtRun \cup AtFinalize \cup {"idle"}]
      BY <1>1, <1>3 DEF TypeOK, AtRun
    <3>3. /\ sched' \in [pc : {"idle", "scan", "claim"}, job : Jobs \cup {NoJob}]
          /\ sched'.pc # "claim"
      BY <2>3
    <3>4. sem' \in Nat /\ faults' \in Nat
      BY <1>1, <1>3 DEF TypeOK
    <3>5. UNCHANGED <<spool, output, manifest, cgroup, phase, left, waiting, delivered, incidents>>
      BY DEF SchedClaim, files
    <3>6. QED
      BY <1>1, <3>1, <3>2, <3>3, <3>4, <3>5 DEF TypeOK
  <2>5. JobKnown(k)'
    <3>1. RowKnown(k)'
      BY <1>1, <1>3, <2>1 DEF TypeOK, RowKnown, At
    <3>2. OutputKnown(k)'
      BY <1>1, <1>3, <2>1 DEF SchedClaim, TypeOK, JobKnown, OutputKnown, At, files
    <3>3. InputKnown(k)'
      BY <1>1, <1>3, <2>1 DEF SchedClaim, TypeOK, JobKnown, InputKnown, At, InProcess, files
    <3>4. QED
      BY <3>1, <3>2, <3>3 DEF JobKnown
  <2>6. ASSUME NEW i \in Jobs \ {k} PROVE JobKnown(i)'
    BY <1>1, <1>3, <2>1, Bystander DEF IInv, SchedClaim, TypeOK, files
  <2>7. ActiveBound'
    <3>1. k \notin Running /\ Running' = Running \cup {k}
      BY <1>1, <1>3, <2>1, <2>2 DEF Running, TypeOK, AtRun
    <3>2. Cardinality(Running \cup {k}) = Cardinality(Running) + 1
      BY <1>1, <3>1, RunningFinite, FS_AddElement
    <3>3. QED
      BY <1>1, <1>3, <3>1, <3>2, ProcessingAssumption DEF ActiveBound, TypeOK
  <2>8. TokenKept' /\ NobodyDown'
    BY <2>3 DEF SchedClaim, TokenKept, NobodyDown
  <2>9. QED
    BY <2>1, <2>4, <2>5, <2>6, <2>7, <2>8 DEF IInv
<1>4. QED
  BY <1>2, <1>3 DEF SchedClaim, GoTo

\* schedule works only in a process that is up.
LEMMA SchedUp ==
  ASSUME IInv, SchedStep
  PROVE  phase = "up"
  BY DEF IInv, SchedStep, SchedStart, SchedScan, SchedClaim, NobodyDown, IdleSched, TypeOK

-----------------------------------------------------------------------------
(* Crash, recovery, backfill *)

\* Where every goroutine is idle there is no worker.
LEMMA NobodyRuns ==
  ASSUME \A j \in Jobs : pc[j] = "idle"
  PROVE  Running = {} /\ Cardinality(Running) = 0
<1>1. Running = {}
  BY DEF Running, AtRun
<1>2. QED
  BY <1>1, FS_EmptySet

\* A crash takes the goroutines and keeps the files and the rows.
LEMMA CrashStep ==
  ASSUME IInv, Crash
  PROVE  IInv'
<1>1. TypeOK /\ \A j \in Jobs : pc'[j] = "idle"
  BY DEF IInv, Crash
<1>2. TypeOK'
  <2>1. cgroup' \in [Jobs -> {"none", "mine", "left"}]
    BY DEF Crash
  <2>2. /\ pc' \in [Jobs -> AtRun \cup AtFinalize \cup {"idle"}]
        /\ left' \in [Jobs -> 0 .. MaxEncoders]
    BY ProcessingAssumption DEF Crash
  <2>3. QED
    BY <1>1, <2>1, <2>2 DEF Crash, Incident, IdleSched, TypeOK
<1>3. ASSUME NEW j \in Jobs PROVE JobKnown(j)'
  <2>1. JobKnown(j)
    BY DEF IInv
  <2>2. RowKnown(j)'
    BY <1>1 DEF RowKnown, At
  <2>3. OutputKnown(j)' /\ InputKnown(j)'
    BY <1>1, <2>1 DEF Crash, JobKnown, OutputKnown, InputKnown, At
  <2>4. QED
    BY <2>2, <2>3 DEF JobKnown
<1>4. ActiveBound'
  <2>1. Running' = {}
    BY <1>1 DEF Running, AtRun
  <2>2. QED
    BY <2>1, FS_EmptySet, ProcessingAssumption DEF ActiveBound, Crash
<1>5. TokenKept' /\ NobodyDown'
  BY <1>1 DEF Crash, TokenKept, NobodyDown, IdleSched, At
<1>6. QED
  BY <1>2, <1>3, <1>4, <1>5 DEF IInv

\* recover() removes no input that is still needed.
LEMMA RestartStep ==
  ASSUME IInv, Restart
  PROVE  IInv'
<1>1. TypeOK /\ sched = IdleSched /\ \A j \in Jobs : pc[j] = "idle"
  BY DEF IInv, Restart, NobodyDown, At
<1>2. TypeOK'
  <2>1. spool' \in [Jobs -> {"part", "input", "none"}] /\ faults' \in Nat
    BY <1>1 DEF Restart, Fault, TypeOK
  <2>2. state' \in [Jobs -> InProcess \cup Terminal \cup {"UPLOADING", "ABSENT"}]
    BY <1>1 DEF Restart, TypeOK, InProcess
  <2>3. pc' \in [Jobs -> AtRun \cup AtFinalize \cup {"idle"}]
    BY DEF Restart, AtFinalize
  <2>4. QED
    BY <1>1, <2>1, <2>2, <2>3 DEF Restart, TypeOK
<1>3. ASSUME NEW j \in Jobs PROVE JobKnown(j)'
  <2>1. JobKnown(j) /\ pc[j] = "idle"
    BY <1>1 DEF IInv
  <2>2. /\ state'[j] = IF state[j] \in Interrupted THEN "QUEUED" ELSE state[j]
        /\ pc'[j] = IF state[j] = "FINALIZING" THEN "rename" ELSE "idle"
        /\ spool'[j] = spool[j] \/ (state[j] \in Removable /\ spool'[j] = "none")
        /\ faults' = 0 => faults = 0
    BY <1>1 DEF Restart, Fault, TypeOK
  <2>3. RowKnown(j)'
    BY <2>2 DEF RowKnown, At, Interrupted
  <2>4. OutputKnown(j)'
    BY <2>1, <2>2 DEF Restart, JobKnown, OutputKnown, At, Interrupted
  <2>5. InputKnown(j)'
    BY <2>1, <2>2 DEF JobKnown, InputKnown, At, Interrupted, Removable, Terminal, InProcess
  <2>6. QED
    BY <2>3, <2>4, <2>5 DEF JobKnown
<1>4. ActiveBound'
  <2>1. Running = {} /\ Running' = {}
    BY <1>1 DEF Restart, Running, AtRun
  <2>2. QED
    BY <2>1 DEF IInv, ActiveBound, Restart
<1>5. TokenKept' /\ NobodyDown'
  BY <1>1 DEF Restart, TokenKept, NobodyDown, IdleSched
<1>6. QED
  BY <1>2, <1>3, <1>4, <1>5 DEF IInv

\* Rows are lost or imported while nobody works: only the job's row changes.
LEMMA RowsChange ==
  ASSUME IInv, TypeOK', phase = "down", UNCHANGED <<files, process, faults>>,
         \A j \in Jobs : OutputKnown(j)' /\ InputKnown(j)'
  PROVE  IInv'
<1>1. \A j \in Jobs : pc'[j] = "idle"
  BY DEF IInv, NobodyDown, At, process
<1>2. ASSUME NEW j \in Jobs PROVE JobKnown(j)'
  BY <1>1, <1>2 DEF JobKnown, RowKnown, At
<1>3. ActiveBound'
  BY DEF IInv, ActiveBound, Running, process
<1>4. TokenKept' /\ NobodyDown'
  BY DEF IInv, TokenKept, NobodyDown, At, process
<1>5. QED
  BY <1>2, <1>3, <1>4 DEF IInv

\* The files outlive the database.
LEMMA LoseDatabaseStep ==
  ASSUME IInv, LoseDatabase
  PROVE  IInv'
<1>1. TypeOK'
  BY DEF IInv, LoseDatabase, Incident, TypeOK, files, process
<1>2. ASSUME NEW j \in Jobs PROVE OutputKnown(j)' /\ InputKnown(j)'
  BY <1>2 DEF IInv, LoseDatabase, NobodyDown, JobKnown, OutputKnown, InputKnown, At,
     InProcess, files, process
<1>3. QED
  BY <1>1, <1>2, RowsChange DEF LoseDatabase

\* What is imported has its artifact.
LEMMA BackfillStep ==
  ASSUME IInv, NEW j \in Jobs, Backfill(j)
  PROVE  IInv'
<1>1. TypeOK'
  BY DEF IInv, Backfill, Deliver, TypeOK, Terminal, files, process
<1>2. ASSUME NEW k \in Jobs PROVE OutputKnown(k)' /\ InputKnown(k)'
  <2>1. OutputKnown(k) /\ InputKnown(k) /\ TypeOK /\ pc[k] = "idle"
    BY <1>2 DEF IInv, Backfill, NobodyDown, JobKnown, At
  <2>2. OutputKnown(k)'
    BY <2>1 DEF Backfill, Deliver, Valid, TypeOK, OutputKnown, At, files, process
  <2>3. InputKnown(k)'
    BY <2>1 DEF Backfill, TypeOK, InputKnown, At, InProcess, files, process
  <2>4. QED
    BY <2>2, <2>3
<1>3. QED
  BY <1>1, <1>2, RowsChange DEF Backfill

-----------------------------------------------------------------------------
(* The invariant *)

\* Nothing is known of a job before its input is complete but that it is there.
LEMMA Initially ==
  ASSUME Init
  PROVE  IInv
<1>1. TypeOK
  BY ProcessingAssumption DEF Init, TypeOK, IdleSched
<1>2. ASSUME NEW j \in Jobs PROVE JobKnown(j)
  BY DEF Init, JobKnown, RowKnown, OutputKnown, InputKnown, At, InProcess
<1>3. ActiveBound
  BY NobodyRuns, ProcessingAssumption DEF Init, ActiveBound
<1>4. TokenKept /\ NobodyDown
  BY DEF Init, TokenKept, NobodyDown, IdleSched
<1>5. QED
  BY <1>1, <1>2, <1>3, <1>4 DEF IInv

\* Every step keeps it.
LEMMA Inductive ==
  ASSUME IInv, [Next]_vars
  PROVE  IInv'
<1>1. CASE SchedStep
  BY <1>1, SchedUp, SchedStartStep, SchedScanStep, SchedClaimStep DEF SchedStep
<1>2. CASE Crash \/ Restart \/ LoseDatabase
  BY <1>2, CrashStep, RestartStep, LoseDatabaseStep
<1>3. ASSUME NEW j \in Jobs, Complete(j) \/ FinalizeStep(j) \/ Probe(j)
      PROVE  IInv'
  BY <1>3, CompleteStep, RenameStep, HashStep, ToProbingStep, ToValidatedStep, ToQueuedStep,
     ProbeStep DEF FinalizeStep
<1>4. ASSUME NEW j \in Jobs, RunStep(j) \/ Encode(j)
      PROVE  IInv'
  BY <1>4, RunLoadStep, MakeCgroupStep, MarkTranscodingStep, PlanStep, FallbackStep,
     WriteManifestStep, RecordCompletedStep, RemoveCgroupStep, LeaveStep, EncodeSucceedsStep,
     EncodeFailsStep DEF RunStep, Encode
<1>5. ASSUME NEW j \in Jobs, FailStep(j) \/ Backfill(j)
      PROVE  IInv'
  BY <1>5, RecordFailedStep, CleanupSpoolStep, BackfillStep DEF FailStep
<1>6. CASE UNCHANGED vars
  <2>1. ASSUME NEW k \in Jobs PROVE JobKnown(k)'
    BY <1>6, Bystander DEF IInv, vars, files, process, env
  <2>2. TypeOK' /\ ActiveBound' /\ TokenKept' /\ NobodyDown'
    BY <1>6 DEF IInv, TypeOK, ActiveBound, Running, TokenKept, NobodyDown, At, vars, files,
       process, env
  <2>3. QED
    BY <2>1, <2>2 DEF IInv
<1>7. QED
  BY <1>1, <1>2, <1>3, <1>4, <1>5, <1>6 DEF Next

\* In every state the row of a job fits where its goroutine is, its artifact
\* and its input are what that place promises, and the tokens are the workers.
THEOREM Invariance == Spec => []IInv
<1>1. Init => IInv
  BY Initially
<1>2. IInv /\ [Next]_vars => IInv'
  BY Inductive
<1>3. QED
  BY <1>1, <1>2, PTL DEF Spec

\* The variables keep their types.
THEOREM WellFormed == Spec => []TypeOK
<1>1. IInv => TypeOK
  BY DEF IInv
<1>2. QED
  BY <1>1, Invariance, PTL

\* However runs end, crash and are requeued, the tokens in Server.sem are the
\* workers at work, and no more than MAX_ACTIVE_TRANSCODES.
THEOREM TokensTrue == Spec => []ActiveBound
<1>1. IInv => ActiveBound
  BY DEF IInv
<1>2. QED
  BY <1>1, Invariance, PTL

\* No number of crashes, failures, lost databases and backfills takes the
\* artifact or the manifest of a job that was COMPLETED.
THEOREM DeliveredKept == Spec => []Deliverable
<1>1. IInv => Deliverable
  BY DEF IInv, JobKnown, OutputKnown, Deliverable
<1>2. QED
  BY <1>1, Invariance, PTL

\* While no statement fails, a job that is not over can be run again from its
\* input, however often the server crashed.
THEOREM Repeatable == Spec => []InputKept
<1>1. IInv => InputKept
  BY DEF IInv, JobKnown, InputKnown, InputKept, InProcess
<1>2. QED
  BY <1>1, Invariance, PTL

-----------------------------------------------------------------------------
(* What a step may do *)

\* A goroutine starts, in schedule, complete or recover, only where the job
\* has none.
LEMMA StartsIdle ==
  ASSUME IInv, [Next]_vars, NEW j \in Jobs, pc'[j] # pc[j], pc'[j] \in {"load", "rename"}
  PROVE  pc[j] = "idle"
<1>1. TypeOK /\ JobKnown(j)
  BY DEF IInv
<1>2. CASE SchedStep
  <2>1. SchedClaim /\ sched.job = j /\ state[j] = "QUEUED"
    BY <1>1, <1>2 DEF SchedStep, SchedStart, SchedScan, SchedClaim, GoTo, TypeOK
  <2>2. QED
    BY <1>1, <2>1 DEF TypeOK, JobKnown, RowKnown, At, AtRun, AtFinalize, Interrupted, Verifying
<1>3. CASE Restart
  BY <1>3 DEF IInv, Restart, NobodyDown, At
<1>4. CASE Crash \/ LoseDatabase \/ UNCHANGED vars
  BY <1>4 DEF Crash, LoseDatabase, vars, process
<1>5. ASSUME NEW k \in Jobs, Complete(k)
      PROVE  pc[j] = "idle"
  BY <1>1, <1>5 DEF Complete, GoTo, TypeOK, JobKnown, RowKnown, At, AtRun, AtFinalize,
     Interrupted, Verifying
<1>6. ASSUME NEW k \in Jobs, FinalizeStep(k) \/ Probe(k)
      PROVE  pc[j] = "idle"
  BY <1>1, <1>6 DEF FinalizeStep, Rename, Hash, ToProbing, ToValidated, ToQueued, Advance, Probe,
     GoTo, TypeOK
<1>7. ASSUME NEW k \in Jobs, RunStep(k) \/ Encode(k)
      PROVE  pc[j] = "idle"
  BY <1>1, <1>7 DEF RunStep, RunLoad, MakeCgroup, MarkTranscoding, Plan, Fallback, WriteManifest,
     RecordCompleted, RemoveCgroup, Leave, Encode, EncodeSucceeds, EncodeFails, GoTo, TypeOK
<1>8. ASSUME NEW k \in Jobs, FailStep(k) \/ Backfill(k)
      PROVE  pc[j] = "idle"
  BY <1>1, <1>8 DEF FailStep, RecordFailed, CleanupSpool, AfterCleanup, Backfill, process, GoTo,
     TypeOK
<1>9. QED
  BY <1>2, <1>3, <1>4, <1>5, <1>6, <1>7, <1>8 DEF Next

\* No job is ever given to two goroutines.
THEOREM NeverTwice == Spec => OneGoroutine
<1>1. IInv /\ [Next]_vars =>
        [\A j \in Jobs : (pc'[j] # pc[j] /\ pc'[j] \in {"load", "rename"}) => pc[j] = "idle"]_vars
  BY StartsIdle
<1>2. QED
  BY <1>1, Invariance, PTL DEF Spec, OneGoroutine

\* The row of a job that is over moves only while the server is down.
LEMMA OverStays ==
  ASSUME IInv, [Next]_vars, NEW j \in Jobs, state[j] \in Terminal, state'[j] # state[j]
  PROVE  phase = "down" /\ state'[j] \in {"COMPLETED", "ABSENT"}
<1>1. TypeOK /\ JobKnown(j)
  BY DEF IInv
<1>2. CASE SchedStep
  BY <1>1, <1>2 DEF SchedStep, SchedStart, SchedScan, SchedClaim, TypeOK, Terminal
<1>3. CASE Crash \/ Restart \/ LoseDatabase \/ UNCHANGED vars
  BY <1>1, <1>3 DEF Crash, Restart, LoseDatabase, Interrupted, Terminal, TypeOK, vars
<1>4. ASSUME NEW k \in Jobs, Complete(k) \/ FinalizeStep(k) \/ Probe(k)
      PROVE  FALSE
  BY <1>1, <1>4 DEF Complete, FinalizeStep, Rename, Hash, ToProbing, ToValidated, ToQueued, Advance,
     UpdateWhere, Probe, Terminal, TypeOK
<1>5. ASSUME NEW k \in Jobs, MarkTranscoding(k) \/ RecordCompleted(k)
      PROVE  FALSE
  BY <1>1, <1>5 DEF MarkTranscoding, RecordCompleted, JobKnown, RowKnown, At, Terminal, TypeOK
<1>6. ASSUME NEW k \in Jobs, RunStep(k) \/ Encode(k)
      PROVE  FALSE
  BY <1>5, <1>6 DEF RunStep, RunLoad, MakeCgroup, Plan, Fallback, WriteManifest, RemoveCgroup,
     Leave, Encode, EncodeSucceeds, EncodeFails
<1>7. ASSUME NEW k \in Jobs, FailStep(k)
      PROVE  FALSE
  <2>1. RecordFailed(k) /\ j = k
    BY <1>1, <1>7 DEF FailStep, RecordFailed, CleanupSpool, TypeOK
  <2>2. state[j] = "FAILED"
    BY <1>1, <2>1 DEF RecordFailed, JobKnown, RowKnown, At, Verifying, Interrupted, Terminal
  <2>3. QED
    BY <2>1, <2>2 DEF RecordFailed
<1>8. ASSUME NEW k \in Jobs, Backfill(k)
      PROVE  phase = "down" /\ state'[j] \in {"COMPLETED", "ABSENT"}
  BY <1>1, <1>8 DEF Backfill, TypeOK
<1>9. QED
  BY <1>2, <1>3, <1>4, <1>6, <1>7, <1>8 DEF Next

\* A job that is over stays as it is while the server runs, whoever still
\* works for it.
THEOREM FinalForGood == Spec => OverIsOver
<1>1. IInv /\ [Next]_vars =>
        [\A j \in Jobs : (state[j] \in Terminal /\ state'[j] # state[j]) =>
            phase = "down" /\ state'[j] \in {"COMPLETED", "ABSENT"}]_vars
  BY OverStays
<1>2. QED
  BY <1>1, Invariance, PTL DEF Spec, OverIsOver

-----------------------------------------------------------------------------
(* The client's view *)

\* The stage a client sees, and the lifecycle of one job
Stage(s) ==
  CASE s = "ABSENT" -> "Absent" [] s = "UPLOADING" -> "Receiving"
    [] s \in InProcess -> "Processing" [] s = "COMPLETED" -> "Completed"
    [] s = "FAILED" -> "Failed" [] s = "EXPIRED" -> "Expired"

Seen(j) == [k \in {j} |-> Stage(state[k])]

Lifecycle(j) == INSTANCE JobLifecycle WITH Jobs <- {j}, stage <- Seen(j)

\* The arrows of the lifecycle that are taken here
LEMMA Arrow ==
  ASSUME NEW j \in Jobs,
         \/ Stage(state'[j]) = Stage(state[j])
         \/ Stage(state[j]) = "Receiving" /\ Stage(state'[j]) = "Processing"
         \/ Stage(state[j]) = "Processing" /\ Stage(state'[j]) \in {"Completed", "Failed"}
  PROVE  [Lifecycle(j)!Next]_(Seen(j))
<1>1. CASE Stage(state'[j]) = Stage(state[j])
  BY <1>1 DEF Seen
<1>2. CASE Stage(state[j]) = "Receiving" /\ Stage(state'[j]) = "Processing"
  <2>1. Lifecycle(j)!Process(j)
    BY <1>2 DEF Lifecycle!Process, Lifecycle!Move, Seen
  <2>2. QED
    BY <2>1 DEF Lifecycle!Next
<1>3. CASE Stage(state[j]) = "Processing" /\ Stage(state'[j]) = "Completed"
  <2>1. Lifecycle(j)!Finish(j)
    BY <1>3 DEF Lifecycle!Finish, Lifecycle!Move, Seen
  <2>2. QED
    BY <2>1 DEF Lifecycle!Next
<1>4. CASE Stage(state[j]) = "Processing" /\ Stage(state'[j]) = "Failed"
  <2>1. Lifecycle(j)!Fail(j)
    BY <1>4 DEF Lifecycle!Fail, Lifecycle!Move, Seen
  <2>2. QED
    BY <2>1 DEF Lifecycle!Next
<1>5. QED
  BY <1>1, <1>2, <1>3, <1>4

\* Every state has its stage.
LEMMA StagesKnown ==
  /\ Stage("UPLOADING") = "Receiving" /\ Stage("COMPLETED") = "Completed"
  /\ Stage("FAILED") = "Failed"
  /\ \A s \in InProcess : Stage(s) = "Processing"
  BY DEF Stage, InProcess

\* What a step may do to the stage of a job
StageMoves(j) ==
  \/ Stage(state'[j]) = Stage(state[j])
  \/ Stage(state[j]) = "Receiving" /\ Stage(state'[j]) = "Processing"
  \/ Stage(state[j]) = "Processing" /\ Stage(state'[j]) \in {"Completed", "Failed"}

\* An UPDATE of one row between known states moves that job alone.
LEMMA OneRow ==
  ASSUME TypeOK, NEW j \in Jobs, NEW k \in Jobs, NEW to, state' = [state EXCEPT ![k] = to],
         \/ state[k] = "UPLOADING" /\ to \in InProcess
         \/ state[k] \in InProcess /\ to \in InProcess \cup {"COMPLETED", "FAILED"}
  PROVE  StageMoves(j)
<1>1. CASE j # k
  BY <1>1 DEF StageMoves, TypeOK
<1>2. CASE j = k
  <2>1. state'[j] = to
    BY <1>2 DEF TypeOK
  <2>2. QED
    BY <1>2, <2>1, StagesKnown DEF StageMoves
<1>3. QED
  BY <1>1, <1>2

\* ... and one that asks for the state it leaves, too.
LEMMA OneUpdate ==
  ASSUME TypeOK, NEW j \in Jobs, NEW k \in Jobs, NEW from \in InProcess, NEW to \in InProcess,
         UpdateWhere(k, from, to) \/ UNCHANGED state
  PROVE  StageMoves(j)
<1>1. CASE state' = state
  BY <1>1 DEF StageMoves
<1>2. CASE state[k] = from /\ state' = [state EXCEPT ![k] = to]
  BY <1>2, OneRow
<1>3. QED
  BY <1>1, <1>2 DEF UpdateWhere

\* While the server is up, or comes up, stages only move along the arrows.
LEMMA ClientStep ==
  ASSUME IInv, [Next]_vars, phase = "up" \/ phase' = "up", NEW j \in Jobs
  PROVE  StageMoves(j)
<1>1. TypeOK /\ \A k \in Jobs : RowKnown(k)
  BY DEF IInv, JobKnown
<1>2. ASSUME state' = state PROVE StageMoves(j)
  BY <1>2 DEF StageMoves
<1>3. CASE SchedStep
  <2>1. CASE SchedClaim
    <3>1. state' = state \/ \E k \in Jobs : state[k] = "QUEUED" /\ state' = [state EXCEPT ![k] = "STARTING"]
      BY <1>1, <2>1 DEF SchedClaim, TypeOK
    <3>2. QED
      BY <1>1, <1>2, <3>1, OneRow DEF InProcess
  <2>2. QED
    BY <1>2, <1>3, <2>1 DEF SchedStep, SchedStart, SchedScan
<1>4. CASE Crash \/ UNCHANGED vars
  BY <1>2, <1>4 DEF Crash, vars
<1>5. CASE Restart
  <2>1. state'[j] = IF state[j] \in Interrupted THEN "QUEUED" ELSE state[j]
    BY <1>5 DEF Restart
  <2>2. Interrupted \subseteq InProcess /\ "QUEUED" \in InProcess
    BY DEF Interrupted, InProcess
  <2>3. QED
    BY <2>1, <2>2, StagesKnown DEF StageMoves
<1>6. ASSUME LoseDatabase \/ \E k \in Jobs : Backfill(k) PROVE FALSE
  BY <1>6 DEF LoseDatabase, Backfill, process
<1>7. ASSUME NEW k \in Jobs, Complete(k) \/ Probe(k) PROVE StageMoves(j)
  BY <1>1, <1>2, <1>7, OneRow DEF Complete, Probe, InProcess
<1>8. ASSUME NEW k \in Jobs, FinalizeStep(k) PROVE StageMoves(j)
  <2>1. CASE Rename(k)
    BY <1>2, <2>1 DEF Rename
  <2>2. CASE Hash(k)
    <3>1. UpdateWhere(k, "FINALIZING", "STAGED") \/ UNCHANGED state
      BY <2>2 DEF Hash
    <3>2. QED
      BY <1>1, <3>1, OneUpdate DEF InProcess
  <2>3. CASE ToProbing(k) \/ ToValidated(k) \/ ToQueued(k)
    <3>1. \/ UpdateWhere(k, "STAGED", "PROBING") \/ UpdateWhere(k, "PROBING", "VALIDATED")
          \/ UpdateWhere(k, "VALIDATED", "QUEUED") \/ UNCHANGED state
      BY <2>3 DEF ToProbing, ToValidated, ToQueued, Advance
    <3>2. {"STAGED", "PROBING", "VALIDATED", "QUEUED"} \subseteq InProcess
      BY DEF InProcess
    <3>3. QED
      BY <1>1, <1>2, <3>1, <3>2, OneUpdate
  <2>4. QED
    BY <1>8, <2>1, <2>2, <2>3 DEF FinalizeStep
<1>9. ASSUME NEW k \in Jobs, MarkTranscoding(k) \/ RecordCompleted(k) PROVE StageMoves(j)
  <2>1. state[k] \in InProcess
    BY <1>1, <1>9 DEF MarkTranscoding, RecordCompleted, RowKnown, At, InProcess
  <2>2. \/ state' = state \/ state' = [state EXCEPT ![k] = "TRANSCODING"]
        \/ state' = [state EXCEPT ![k] = "COMPLETED"]
    BY <1>9 DEF MarkTranscoding, RecordCompleted
  <2>3. "TRANSCODING" \in InProcess
    BY DEF InProcess
  <2>4. QED
    BY <1>1, <1>2, <2>1, <2>2, <2>3, OneRow
<1>10. ASSUME NEW k \in Jobs, RunStep(k) \/ Encode(k) PROVE StageMoves(j)
  BY <1>2, <1>9, <1>10 DEF RunStep, RunLoad, MakeCgroup, Plan, Fallback, WriteManifest,
     RemoveCgroup, Leave, Encode, EncodeSucceeds, EncodeFails
<1>11. ASSUME NEW k \in Jobs, FailStep(k) PROVE StageMoves(j)
  <2>1. CASE CleanupSpool(k)
    BY <1>2, <2>1 DEF CleanupSpool
  <2>2. CASE RecordFailed(k)
    <3>1. state[k] \in InProcess
      BY <1>1, <2>2 DEF RecordFailed, RowKnown, At, Verifying, Interrupted, InProcess
    <3>2. state' = state \/ state' = [state EXCEPT ![k] = "FAILED"]
      BY <2>2 DEF RecordFailed
    <3>3. QED
      BY <1>1, <1>2, <3>1, <3>2, OneRow
  <2>3. QED
    BY <1>11, <2>1, <2>2 DEF FailStep
<1>12. QED
  BY <1>3, <1>4, <1>5, <1>6, <1>7, <1>8, <1>10, <1>11 DEF Next

\* Whoever works for a job, whatever fails or crashes: as long as the server
\* runs, and when it comes up again, every step is one of JobLifecycle for the
\* job or changes nothing a client sees.  Only a lost database and backfill, with
\* the server down, do anything else.
ServedStep ==
  (phase = "up" \/ phase' = "up") => \A j \in Jobs : [Lifecycle(j)!Next]_(Seen(j))

THEOREM ClientsSeeLifecycle == Spec => [][ServedStep]_vars
<1>1. IInv /\ [Next]_vars => [ServedStep]_vars
  <2>1. SUFFICES ASSUME IInv, [Next]_vars, phase = "up" \/ phase' = "up", NEW j \in Jobs
                 PROVE  [Lifecycle(j)!Next]_(Seen(j))
    BY DEF ServedStep
  <2>2. StageMoves(j)
    BY <2>1, ClientStep
  <2>3. QED
    BY <2>2, Arrow DEF StageMoves
<1>2. QED
  BY <1>1, Invariance, PTL DEF Spec
=============================================================================
