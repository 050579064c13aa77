--------------------------- MODULE AdmissionProofs ---------------------------
(***************************************************************************)
(* Theorems about Admission, for any jobs, sizes, capacities and disk, and *)
(* any number of crashes and failing statements.                           *)
(*                                                                         *)
(* Part 1 counts cells: the sum of an amount per job is the cardinality of *)
(* Cells(f), and changing the amount of one job changes it by as much.     *)
(***************************************************************************)
EXTENDS Admission, FiniteSetTheorems, TLAPS

Amounts == [Jobs -> 0 .. MaxSize]

\* The cells of job j up to n.
Column(j, n) == {j} \X (1 .. n)

\* A column has as many cells as its height.
LEMMA ColumnSize ==
  ASSUME NEW j \in Jobs, NEW n \in Nat
  PROVE  IsFiniteSet(Column(j, n)) /\ Cardinality(Column(j, n)) = n
<1>1. IsFiniteSet({j}) /\ Cardinality({j}) = 1
  BY FS_Singleton
<1>2. IsFiniteSet(1 .. n) /\ Cardinality(1 .. n) = n
  <2>1. IsFiniteSet(1 .. n) /\ Cardinality(1 .. n) = IF 1 > n THEN 0 ELSE n - 1 + 1
    BY FS_Interval
  <2>2. QED
    BY <2>1
<1>3. /\ IsFiniteSet({j} \X (1 .. n))
      /\ Cardinality({j} \X (1 .. n)) = Cardinality({j}) * Cardinality(1 .. n)
  BY <1>1, <1>2, FS_Product
<1>4. QED
  BY <1>1, <1>2, <1>3 DEF Column

\* The cells of an assignment are finitely many.
LEMMA CellsFinite ==
  ASSUME NEW f
  PROVE  IsFiniteSet(Cells(f)) /\ Cardinality(Cells(f)) \in Nat
<1>1. IsFiniteSet(Units)
  BY FS_Interval, SizeAssumption DEF Units
<1>2. IsFiniteSet(Jobs \X Units)
  BY <1>1, FS_Product, JobsAssumption
<1>3. Cells(f) \in SUBSET (Jobs \X Units)
  BY DEF Cells
<1>4. IsFiniteSet(Cells(f))
  BY <1>2, <1>3, FS_Subset
<1>5. QED
  BY <1>4, FS_CardinalityType

\* Smaller amounts have fewer cells.
LEMMA CellsMono ==
  ASSUME NEW f \in Amounts, NEW g \in Amounts, \A j \in Jobs : f[j] <= g[j]
  PROVE  /\ Cells(f) \subseteq Cells(g)
         /\ Cardinality(Cells(f)) <= Cardinality(Cells(g))
<1>1. Cells(f) \subseteq Cells(g)
  <2>1. SUFFICES ASSUME NEW u \in Cells(f) PROVE u \in Cells(g)
    OBVIOUS
  <2>2. /\ u \in Jobs \X Units /\ u[1] \in Jobs /\ u[2] \in Units
        /\ u[2] <= f[u[1]] /\ f[u[1]] <= g[u[1]]
    BY DEF Cells
  <2>3. u[2] \in Nat /\ f[u[1]] \in Nat /\ g[u[1]] \in Nat
    BY <2>2, SizeAssumption DEF Units, Amounts
  <2>4. u[2] <= g[u[1]]
    BY <2>2, <2>3
  <2>5. QED
    BY <2>2, <2>4 DEF Cells
<1>2. QED
  BY <1>1, CellsFinite, FS_Subset

\* Disjoint finite sets add up.
LEMMA DisjointUnion ==
  ASSUME NEW S, NEW T, IsFiniteSet(S), IsFiniteSet(T), S \cap T = {}
  PROVE  Cardinality(S \cup T) = Cardinality(S) + Cardinality(T)
<1>1. /\ Cardinality(S \cup T) = Cardinality(S) + Cardinality(T) - Cardinality(S \cap T)
      /\ Cardinality(S) \in Nat /\ Cardinality(T) \in Nat
  BY FS_Union, FS_CardinalityType
<1>2. Cardinality(S \cap T) = 0
  BY FS_EmptySet
<1>3. QED
  BY <1>1, <1>2

\* Changing one amount changes the sum by the difference.
LEMMA CellsUpdate ==
  ASSUME NEW f \in Amounts, NEW j \in Jobs, NEW n \in 0 .. MaxSize
  PROVE  Cardinality(Cells([f EXCEPT ![j] = n])) + f[j] = Cardinality(Cells(f)) + n
<1> DEFINE g == [f EXCEPT ![j] = n]
           Rest == {u \in Cells(f) : u[1] # j}
<1>1. MaxSize \in Nat /\ f[j] \in 0 .. MaxSize /\ g \in Amounts /\ g[j] = n
  BY SizeAssumption DEF Amounts
<1>2. \A h \in Amounts : \A u \in Column(j, h[j]) : u \in Cells(h) /\ u[1] = j
  BY <1>1 DEF Column, Cells, Units, Amounts
<1>3. \A h \in Amounts : \A u \in Cells(h) : u[1] = j => u \in Column(j, h[j])
  BY <1>1 DEF Column, Cells, Units, Amounts
<1>4. \A k \in Jobs : k # j => g[k] = f[k]
  BY DEF Amounts
<1>5. Rest = {u \in Cells(g) : u[1] # j}
  BY <1>4 DEF Cells
<1>6. Cells(f) = Rest \cup Column(j, f[j]) /\ Rest \cap Column(j, f[j]) = {}
  BY <1>2, <1>3
<1>7. Cells(g) = Rest \cup Column(j, n) /\ Rest \cap Column(j, n) = {}
  <2>1. \A u \in Column(j, n) : u \in Cells(g) /\ u[1] = j
    BY <1>1, <1>2
  <2>2. \A u \in Cells(g) : u[1] = j => u \in Column(j, n)
    BY <1>1, <1>3
  <2>3. QED
    BY <1>5, <2>1, <2>2
<1>8. IsFiniteSet(Rest) /\ Cardinality(Rest) \in Nat
  BY CellsFinite, FS_Subset, FS_CardinalityType
<1>9. /\ IsFiniteSet(Column(j, n)) /\ Cardinality(Column(j, n)) = n
      /\ IsFiniteSet(Column(j, f[j])) /\ Cardinality(Column(j, f[j])) = f[j]
  <2>1. n \in Nat /\ f[j] \in Nat
    BY <1>1
  <2>2. QED
    BY <2>1, ColumnSize
<1>10. Cardinality(Cells(f)) = Cardinality(Rest) + f[j]
  <2>1. Cardinality(Rest \cup Column(j, f[j])) = Cardinality(Rest) + Cardinality(Column(j, f[j]))
    BY <1>6, <1>8, <1>9, DisjointUnion
  <2>2. QED
    BY <1>6, <1>9, <2>1
<1>11. Cardinality(Cells(g)) = Cardinality(Rest) + n
  <2>1. Cardinality(Rest \cup Column(j, n)) = Cardinality(Rest) + Cardinality(Column(j, n))
    BY <1>7, <1>8, <1>9, DisjointUnion
  <2>2. QED
    BY <1>7, <1>9, <2>1
<1>12. QED
  BY <1>1, <1>8, <1>10, <1>11

-----------------------------------------------------------------------------
(* Part 2: types *)

\* fail() is entered, or moves on, with a well-formed record.
LEMMA FinMoves ==
  ASSUME fin \in [Jobs -> FinRecord], NEW j \in Jobs
  PROVE  /\ Fail(j) => fin' \in [Jobs -> FinRecord]
         /\ \A pc \in {"idle", "read", "release", "capacity", "rows", "record", "cleanup"} :
              GoFin(j, pc) => fin' \in [Jobs -> FinRecord]
         /\ AfterRelease(j) \in {"cleanup", "record"}
         /\ IdleFin \in FinRecord
<1>1. IdleFin \in FinRecord
  BY SizeAssumption DEF IdleFin, FinRecord
<1>2. [IdleFin EXCEPT !.pc = "read"] \in FinRecord
  BY <1>1 DEF FinRecord
<1>3. ASSUME NEW pc \in {"idle", "read", "release", "capacity", "rows", "record", "cleanup"}
      PROVE  [fin[j] EXCEPT !.pc = pc] \in FinRecord
  BY DEF FinRecord
<1>4. QED
  BY <1>1, <1>2, <1>3 DEF Fail, GoFin, AfterRelease

\* They touch that job's record only.
LEMMA FinElsewhere ==
  ASSUME fin \in [Jobs -> FinRecord], NEW j \in Jobs
  PROVE  /\ Fail(j) => /\ fin'[j].pc = "read"
                       /\ \A k \in Jobs : k # j => fin'[k] = fin[k]
         /\ \A pc : GoFin(j, pc) =>
              /\ fin'[j].pc = pc /\ fin'[j].amount = fin[j].amount /\ fin'[j].done = fin[j].done
              /\ \A k \in Jobs : k # j => fin'[k] = fin[k]
<1>1. ASSUME Fail(j)
      PROVE  /\ fin'[j].pc = "read"
             /\ \A k \in Jobs : k # j => fin'[k] = fin[k]
  BY <1>1 DEF Fail, IdleFin
<1>2. ASSUME NEW pc, GoFin(j, pc)
      PROVE  /\ fin'[j].pc = pc /\ fin'[j].amount = fin[j].amount /\ fin'[j].done = fin[j].done
             /\ \A k \in Jobs : k # j => fin'[k] = fin[k]
  BY <1>2 DEF GoFin, FinRecord
<1>3. QED
  BY <1>1, <1>2

\* The record of fail() after it has read the reservation.
LEMMA FinWith ==
  ASSUME NEW f \in FinRecord, NEW pc \in {"release", "record"}, NEW a \in 0 .. MaxSize
  PROVE  [f EXCEPT !.pc = pc, !.amount = a] \in FinRecord
BY DEF FinRecord

\* Every step keeps the types.
LEMMA TypeStep ==
  ASSUME TypeOK, [Next]_vars
  PROVE  TypeOK'
<1> USE SizeAssumption, BoundAssumption, CapacityAssumption DEF TypeOK, store, disk, process, env
<1>1. CASE AdmStart
  BY <1>1 DEF AdmStart, MuFree, IdleAdm, AdmRecord
<1>2. CASE AdmScan
  BY <1>2 DEF AdmScan, AdmGo, IdleAdm, Oldest, Waiting, Fault, AdmRecord
<1>3. CASE AdmReserve
  <2>1. adm.job \in Jobs
    BY <1>3 DEF AdmReserve
  <2>2. fin' \in [Jobs -> FinRecord]
    BY <1>3, <2>1, FinMoves DEF AdmReserve, AdmFail
  <2>3. adm' \in AdmRecord /\ (adm'.pc \in {"reserve", "prepare", "admit", "failing"} => adm'.job \in Jobs)
    BY <1>3, <2>1 DEF AdmReserve, AdmFail, AdmGo, AdmRecord, IdleAdm
  <2>4. reserved' \in [Jobs -> 0 .. MaxSize] /\ capReserved' \in Nat /\ rows' \subseteq Jobs
    BY <1>3, <2>1 DEF AdmReserve
  <2>5. faults' \in Nat
    BY <1>3 DEF AdmReserve, Fault
  <2>6. QED
    BY <1>3, <2>2, <2>3, <2>4, <2>5 DEF AdmReserve
<1>4. CASE AdmPrepare
  <2>1. adm.job \in Jobs
    BY <1>4 DEF AdmPrepare
  <2>2. fin' \in [Jobs -> FinRecord]
    BY <1>4, <2>1, FinMoves DEF AdmPrepare, AdmFail
  <2>3. adm' \in AdmRecord /\ (adm'.pc \in {"reserve", "prepare", "admit", "failing"} => adm'.job \in Jobs)
    BY <1>4, <2>1 DEF AdmPrepare, AdmFail, AdmGo, AdmRecord
  <2>4. spool' \in [Jobs -> BOOLEAN]
    BY <1>4, <2>1 DEF AdmPrepare
  <2>5. faults' \in Nat
    BY <1>4 DEF AdmPrepare, Fault
  <2>6. QED
    BY <1>4, <2>2, <2>3, <2>4, <2>5 DEF AdmPrepare
<1>5. CASE AdmAdmit
  <2>1. adm.job \in Jobs
    BY <1>5 DEF AdmAdmit
  <2>2. fin' \in [Jobs -> FinRecord]
    BY <1>5, <2>1, FinMoves DEF AdmAdmit, AdmFail
  <2>3. adm' \in AdmRecord /\ (adm'.pc \in {"reserve", "prepare", "admit", "failing"} => adm'.job \in Jobs)
    BY <1>5, <2>1 DEF AdmAdmit, AdmFail, AdmGo, AdmRecord
  <2>4. state' \in [Jobs -> States] /\ faults' \in Nat
    BY <1>5, <2>1 DEF AdmAdmit, Fault, States
  <2>5. overdue' \in [Jobs -> BOOLEAN]
    BY <1>5, <2>1 DEF AdmAdmit
  <2>6. QED
    BY <1>5, <2>2, <2>3, <2>4, <2>5 DEF AdmAdmit
<1>6. CASE AdmFailed
  BY <1>6 DEF AdmFailed, AdmGo, FinAt, AdmRecord
<1>7. CASE GcStart
  BY <1>7 DEF GcStart, MuFree, Abandoned, GcRecord
<1>8. CASE GcRemove
  <2>1. gc' \in GcRecord /\ gc'.pc = "next"
    BY <1>8 DEF GcRemove, GcRecord
  <2>2. spool' \in [Jobs -> BOOLEAN]
    BY <1>8 DEF GcRemove, RemoveSpool
  <2>3. written' \in [Jobs -> 0 .. MaxSize] /\ faults' \in Nat
    BY <1>8 DEF GcRemove, RemoveSpool, Fault
  <2>4. QED
    BY <1>8, <2>1, <2>2, <2>3 DEF GcRemove
<1>9. CASE GcEnd
  BY <1>9 DEF GcEnd, Wake, IdleGc, GcRecord
<1>10. CASE GcAbort
  BY <1>10 DEF GcAbort, IdleGc, Fault, GcRecord
<1>11. CASE Crash
  BY <1>11, FinMoves DEF Crash, IdleAdm, IdleGc, AdmRecord, GcRecord
<1>12. CASE Restart
  BY <1>12 DEF Restart
<1>13. CASE EndReconcile
  BY <1>13 DEF EndReconcile
<1>14. CASE EndRecover
  BY <1>14 DEF EndRecover, Wake, Fault
<1>15. ASSUME NEW j \in Jobs, GcExpire(j) PROVE TypeOK'
  <2>1. gc' \in GcRecord /\ (gc'.pc = "remove" => gc'.job \in Jobs)
    <3>1. \/ gc' = [gc EXCEPT !.pc = "remove", !.todo = @ \ {j}, !.job = j]
          \/ gc' = [gc EXCEPT !.todo = @ \ {j}]
      BY <1>15 DEF GcExpire
    <3>2. gc \in GcRecord /\ (gc.pc = "remove" => gc.job \in Jobs)
      OBVIOUS
    <3>3. CASE gc' = [gc EXCEPT !.pc = "remove", !.todo = @ \ {j}, !.job = j]
      <4>1. gc'.pc = "remove" /\ gc'.job = j /\ gc'.todo = gc.todo \ {j}
        BY <3>2, <3>3 DEF GcRecord
      <4>2. QED
        BY <3>2, <3>3, <4>1 DEF GcRecord
    <3>4. CASE gc' = [gc EXCEPT !.todo = @ \ {j}]
      BY <3>2, <3>4 DEF GcRecord
    <3>5. QED
      BY <3>1, <3>3, <3>4
  <2>2. state' \in [Jobs -> States] /\ overdue' \in [Jobs -> BOOLEAN] /\ rows' \subseteq Jobs
    BY <1>15 DEF GcExpire, States
  <2>3. reserved' \in [Jobs -> 0 .. MaxSize] /\ capReserved' \in Nat
    BY <1>15 DEF GcExpire, Minus
  <2>4. QED
    BY <1>15, <2>1, <2>2, <2>3 DEF GcExpire
<1>16. ASSUME NEW j \in Jobs, Reconcile(j) PROVE TypeOK'
  BY <1>16 DEF Reconcile, Minus, States
<1>17. ASSUME NEW j \in Jobs, Sweep(j) PROVE TypeOK'
  BY <1>17 DEF Sweep, RemoveSpool, Stale
<1>18. ASSUME NEW j \in Jobs, Arrive(j) PROVE TypeOK'
  BY <1>18 DEF Arrive
<1>19. ASSUME NEW j \in Jobs, Insert(j) PROVE TypeOK'
  BY <1>19 DEF Insert, Wake, States
<1>20. ASSUME NEW j \in Jobs, TimePasses(j) PROVE TypeOK'
  BY <1>20 DEF TimePasses
<1>21. ASSUME NEW j \in Jobs, Finish(j) PROVE TypeOK'
  <2>1. [pc |-> IF reserved[j] > 0 THEN "release" ELSE "cleanup",
         done |-> TRUE, amount |-> reserved[j]] \in FinRecord
    BY DEF FinRecord
  <2>2. fin' \in [Jobs -> FinRecord]
    <3>1. CASE Fail(j)
      BY <3>1, FinMoves
    <3>2. CASE fin' = [fin EXCEPT ![j] =
                [pc |-> IF reserved[j] > 0 THEN "release" ELSE "cleanup",
                 done |-> TRUE, amount |-> reserved[j]]]
      BY <2>1, <3>2
    <3>3. QED
      BY <1>21, <3>1, <3>2 DEF Finish
  <2>3. state' \in [Jobs -> States]
    BY <1>21 DEF Finish, States
  <2>4. QED
    BY <1>21, <2>2, <2>3 DEF Finish
<1>22. ASSUME NEW j \in Jobs, ReadJob(j) PROVE TypeOK'
  <2>1. [fin[j] EXCEPT !.pc = IF reserved[j] > 0 THEN "release" ELSE "record",
                       !.amount = reserved[j]] \in FinRecord
    <3>1. fin[j] \in FinRecord /\ reserved[j] \in 0 .. MaxSize
      OBVIOUS
    <3>2. (IF reserved[j] > 0 THEN "release" ELSE "record") \in {"release", "record"}
      OBVIOUS
    <3>3. QED
      BY <3>1, <3>2, FinWith
  <2>2. fin' \in [Jobs -> FinRecord]
    <3>1. CASE GoFin(j, "record")
      BY <3>1, FinMoves
    <3>2. CASE fin' = [fin EXCEPT ![j] =
                [fin[j] EXCEPT !.pc = IF reserved[j] > 0 THEN "release" ELSE "record",
                               !.amount = reserved[j]]]
      BY <2>1, <3>2
    <3>3. QED
      BY <1>22, <3>1, <3>2 DEF ReadJob
  <2>3. faults' \in Nat
    BY <1>22 DEF ReadJob, Fault
  <2>4. QED
    BY <1>22, <2>2, <2>3 DEF ReadJob
<1>23. ASSUME NEW j \in Jobs, ReleaseJob(j) PROVE TypeOK'
  <2>1. fin' \in [Jobs -> FinRecord] /\ faults' \in Nat
    BY <1>23, FinMoves DEF ReleaseJob, Fault
  <2>2. reserved' \in [Jobs -> 0 .. MaxSize]
    BY <1>23 DEF ReleaseJob
  <2>3. QED
    BY <1>23, <2>1, <2>2 DEF ReleaseJob
<1>24. ASSUME NEW j \in Jobs, ReleaseCapacity(j) PROVE TypeOK'
  <2>1. fin' \in [Jobs -> FinRecord]
    BY <1>24, FinMoves DEF ReleaseCapacity
  <2>2. fin[j].amount \in Nat
    BY DEF FinRecord
  <2>3. capReserved' \in Nat /\ faults' \in Nat
    BY <1>24, <2>2 DEF ReleaseCapacity, Fault, Minus
  <2>4. QED
    BY <1>24, <2>1, <2>3 DEF ReleaseCapacity
<1>25. ASSUME NEW j \in Jobs, ReleaseRow(j) PROVE TypeOK'
  BY <1>25, FinMoves DEF ReleaseRow, Fault, FinAt, Wake
<1>26. ASSUME NEW j \in Jobs, RecordFailed(j) PROVE TypeOK'
  <2>1. fin' \in [Jobs -> FinRecord] /\ faults' \in Nat
    BY <1>26, FinMoves DEF RecordFailed, Fault
  <2>2. state' \in [Jobs -> States]
    BY <1>26 DEF RecordFailed, States
  <2>3. QED
    BY <1>26, <2>1, <2>2 DEF RecordFailed
<1>27. ASSUME NEW j \in Jobs, CleanupSpool(j) PROVE TypeOK'
  <2>1. fin' \in [Jobs -> FinRecord] /\ faults' \in Nat
    BY <1>27, FinMoves DEF CleanupSpool, Fault
  <2>2. spool' \in [Jobs -> BOOLEAN]
    BY <1>27 DEF CleanupSpool, RemoveSpool
  <2>3. written' \in [Jobs -> 0 .. MaxSize]
    BY <1>27 DEF CleanupSpool, RemoveSpool
  <2>4. QED
    BY <1>27, <2>1, <2>2, <2>3 DEF CleanupSpool
<1>28. ASSUME NEW j \in Jobs, ChunkStored(j) PROVE TypeOK'
  BY <1>28 DEF ChunkStored, States
<1>29. ASSUME NEW j \in Jobs, ChunkRejected(j) PROVE TypeOK'
  BY <1>29 DEF ChunkRejected
<1>30. ASSUME NEW j \in Jobs, ChunkReplayed(j) PROVE TypeOK'
  BY <1>30 DEF ChunkReplayed
<1>31. ASSUME NEW j \in Jobs, Complete(j) PROVE TypeOK'
  BY <1>31 DEF Complete, States
<1>32. CASE UNCHANGED vars
  BY <1>32 DEF vars
<1>33. QED
  BY <1>1, <1>2, <1>3, <1>4, <1>5, <1>6, <1>7, <1>8, <1>9, <1>10, <1>11, <1>12, <1>13, <1>14, <1>15, <1>16, <1>17, <1>18, <1>19, <1>20, <1>21, <1>22, <1>23, <1>24, <1>25, <1>26, <1>27, <1>28, <1>29, <1>30, <1>31, <1>32 DEF Next, AdmStep, GcStep, BootStep, FinStep

-----------------------------------------------------------------------------
(* Part 3: who may be doing what *)

\* A step of release() that moves no job keeps the discipline.
LEMMA FinDiscipline ==
  ASSUME Discipline,
         adm' = adm, gc' = gc, arrival' = arrival, state' = state,
         \A k \in Jobs : fin'[k].pc # "idle" => fin[k].pc # "idle",
         \A k \in Jobs : fin'[k].pc = "capacity" => reserved'[k] = 0
  PROVE  Discipline'
BY DEF Discipline

\* Every step keeps the discipline of admissionMu and of fail().
LEMMA DisciplineStep ==
  ASSUME TypeOK, Discipline, [Next]_vars
  PROVE  Discipline'
<1> USE DEF TypeOK, Discipline, FinRecord, AdmRecord, GcRecord, store, disk, process, env
<1>1. CASE AdmStart
  BY <1>1 DEF AdmStart, MuFree, IdleAdm
<1>2. CASE AdmScan
  BY <1>2 DEF AdmScan, AdmGo, IdleAdm, Oldest, Waiting
<1>3. CASE AdmReserve
  <2>1. adm.job \in Jobs /\ fin[adm.job].pc = "idle" /\ gc.pc = "idle"
    BY <1>3 DEF AdmReserve
  <2>2. adm'.pc = "failing" => adm'.job = adm.job /\ Fail(adm.job) /\ reserved' = reserved
    BY <1>3 DEF AdmReserve, AdmFail, AdmGo, IdleAdm
  <2>3. adm'.pc # "failing" => /\ adm'.pc = "idle" \/ (adm'.pc = "prepare" /\ adm'.job = adm.job)
                              /\ fin' = fin
                              /\ \A k \in Jobs : k # adm.job => reserved'[k] = reserved[k]
    BY <1>3 DEF AdmReserve, AdmFail, AdmGo, IdleAdm
  <2>4. state' = state /\ gc' = gc /\ arrival' = arrival
    BY <1>3 DEF AdmReserve
  <2>5. QED
    BY <1>3, <2>1, <2>2, <2>3, <2>4, FinElsewhere DEF AdmReserve
<1>4. CASE AdmPrepare
  <2>1. /\ adm.job \in Jobs /\ fin[adm.job].pc = "idle" /\ gc.pc = "idle"
        /\ adm.pc = "prepare" /\ state[adm.job] = "PENDING"
    BY <1>4 DEF AdmPrepare
  <2>2. adm'.pc = "failing" => adm'.job = adm.job /\ Fail(adm.job)
    BY <1>4 DEF AdmPrepare, AdmFail, AdmGo
  <2>3. adm'.pc # "failing" => adm'.pc = "admit" /\ adm'.job = adm.job /\ fin' = fin
    BY <1>4 DEF AdmPrepare, AdmFail, AdmGo
  <2>4. state' = state /\ gc' = gc /\ arrival' = arrival /\ reserved' = reserved
    BY <1>4 DEF AdmPrepare
  <2>5. QED
    <3>1. fin'[adm.job].pc # "capacity" /\ \A k \in Jobs : k # adm.job => fin'[k] = fin[k]
      BY <2>1, <2>2, <2>3, FinElsewhere
    <3>2. (\A k \in Jobs : fin[k].pc # "idle" =>
             \/ state[k] \in {"PROCESSING", "COMPLETED", "FAILED"}
             \/ adm.pc = "failing" /\ adm.job = k /\ state[k] = "PENDING")'
      BY <2>1, <2>2, <2>3, <2>4, <3>1
    <3>3. (\A k \in Jobs : fin[k].pc = "capacity" => reserved[k] = 0)'
      BY <2>4, <3>1
    <3>4. (adm.pc \in {"reserve", "prepare", "admit"} => state[adm.job] = "PENDING")'
      BY <2>1, <2>2, <2>3, <2>4
    <3>5. QED
      BY <2>1, <2>4, <3>2, <3>3, <3>4
<1>5. CASE AdmAdmit
  <2>1. adm.job \in Jobs /\ fin[adm.job].pc = "idle" /\ gc.pc = "idle"
    BY <1>5 DEF AdmAdmit
  <2>2. adm'.pc = "failing" => adm'.job = adm.job /\ Fail(adm.job) /\ state' = state
    BY <1>5 DEF AdmAdmit, AdmFail, AdmGo
  <2>3. adm'.pc # "failing" => /\ adm'.pc = "scan" /\ fin' = fin
                              /\ \A k \in Jobs : k # adm.job => state'[k] = state[k]
                              /\ state'[adm.job] \in {state[adm.job], "ADMITTED"}
    BY <1>5 DEF AdmAdmit, AdmFail, AdmGo
  <2>4. gc' = gc /\ arrival' = arrival /\ reserved' = reserved
    BY <1>5 DEF AdmAdmit
  <2>5. arrival[adm.job] = 0
    BY <1>5, <2>1 DEF AdmAdmit
  <2>6. QED
    BY <1>5, <2>1, <2>2, <2>3, <2>4, <2>5, FinElsewhere DEF AdmAdmit
<1>6. CASE AdmFailed
  BY <1>6 DEF AdmFailed, AdmGo, FinAt
<1>7. CASE GcStart
  BY <1>7 DEF GcStart, MuFree
<1>8. CASE GcRemove
  BY <1>8 DEF GcRemove
<1>9. CASE GcEnd
  BY <1>9 DEF GcEnd, IdleGc
<1>10. CASE GcAbort
  BY <1>10 DEF GcAbort, IdleGc
<1>11. CASE Crash
  BY <1>11 DEF Crash, IdleFin, IdleAdm, IdleGc
<1>12. CASE Restart
  BY <1>12 DEF Restart
<1>13. CASE EndReconcile
  BY <1>13 DEF EndReconcile
<1>14. CASE EndRecover
  BY <1>14 DEF EndRecover
<1>15. ASSUME NEW j \in Jobs, GcExpire(j) PROVE Discipline'
  <2>1. adm.pc = "idle" /\ adm' = adm /\ fin' = fin /\ arrival' = arrival
    BY <1>15 DEF GcExpire
  <2>2. CASE j \in Abandoned /\ state' = [state EXCEPT ![j] = "EXPIRED"]
    <3>1. state[j] \in {"PENDING", "ADMITTED", "UPLOADING"}
      BY <2>2 DEF Abandoned, Expiring, Open
    <3>2. fin[j].pc = "idle" /\ arrival[j] = 0
      BY <2>1, <3>1
    <3>3. \A k \in Jobs : k # j => state'[k] = state[k] /\ reserved'[k] = reserved[k]
      BY <1>15, <2>2 DEF GcExpire
    <3>4. gc'.pc = "remove" /\ gc'.job = j
      <4>1. gc' = [gc EXCEPT !.pc = "remove", !.todo = @ \ {j}, !.job = j]
        BY <1>15, <2>2 DEF GcExpire
      <4>2. gc \in [pc : {"idle", "next", "remove"}, todo : SUBSET Jobs,
                    job : Jobs \cup {NoJob}, found : BOOLEAN]
        OBVIOUS
      <4>3. QED
        BY ONLY <4>1, <4>2
    <3>5. state'[j] = "EXPIRED"
      BY <2>2
    <3>6. (\A k \in Jobs : fin[k].pc # "idle" =>
             \/ state[k] \in {"PROCESSING", "COMPLETED", "FAILED"}
             \/ adm.pc = "failing" /\ adm.job = k /\ state[k] = "PENDING")'
      BY <2>1, <3>2, <3>3
    <3>7. (\A k \in Jobs : fin[k].pc = "capacity" => reserved[k] = 0)'
      BY <2>1, <3>2, <3>3
    <3>8. (\A k \in Jobs : arrival[k] # 0 => state[k] = "ABSENT")'
      BY <2>1, <3>2, <3>3
    <3>9. QED
      BY <2>1, <3>4, <3>5, <3>6, <3>7, <3>8
  <2>3. CASE j \notin Abandoned /\ UNCHANGED <<state, reserved>>
    BY <1>15, <2>1, <2>3 DEF GcExpire
  <2>4. QED
    BY <1>15, <2>2, <2>3 DEF GcExpire
<1>16. ASSUME NEW j \in Jobs, Reconcile(j) PROVE Discipline'
  BY <1>16 DEF Reconcile, Open
<1>17. ASSUME NEW j \in Jobs, Sweep(j) PROVE Discipline'
  BY <1>17 DEF Sweep
<1>18. ASSUME NEW j \in Jobs, Arrive(j) PROVE Discipline'
  BY <1>18 DEF Arrive
<1>19. ASSUME NEW j \in Jobs, Insert(j) PROVE Discipline'
  BY <1>19 DEF Insert
<1>20. ASSUME NEW j \in Jobs, TimePasses(j) PROVE Discipline'
  BY <1>20 DEF TimePasses
<1>21. ASSUME NEW j \in Jobs, Finish(j) PROVE Discipline'
  <2>1. /\ state[j] = "PROCESSING" /\ state'[j] \in {"PROCESSING", "COMPLETED"}
        /\ \A k \in Jobs : k # j => state'[k] = state[k] /\ fin'[k] = fin[k]
    BY <1>21, FinElsewhere DEF Finish
  <2>2. fin'[j].pc # "capacity"
    BY <1>21, FinElsewhere DEF Finish
  <2>3. adm' = adm /\ gc' = gc /\ arrival' = arrival /\ reserved' = reserved
    BY <1>21 DEF Finish
  <2>4. ASSUME NEW k \in Jobs, fin'[k].pc # "idle"
        PROVE  \/ state'[k] \in {"PROCESSING", "COMPLETED", "FAILED"}
               \/ adm'.pc = "failing" /\ adm'.job = k /\ state'[k] = "PENDING"
    <3>1. CASE k = j
      BY <2>1, <3>1
    <3>2. CASE k # j
      <4>1. fin[k].pc # "idle" /\ state'[k] = state[k]
        BY <2>1, <2>4, <3>2
      <4>2. \/ state[k] \in {"PROCESSING", "COMPLETED", "FAILED"}
            \/ adm.pc = "failing" /\ adm.job = k /\ state[k] = "PENDING"
        BY <4>1 DEF Discipline
      <4>3. QED
        BY <4>1, <4>2, <2>3
    <3>3. QED
      BY <3>1, <3>2
  <2>5. ASSUME NEW k \in Jobs, fin'[k].pc = "capacity" PROVE reserved'[k] = 0
    <3>1. fin[k].pc = "capacity" /\ reserved'[k] = reserved[k]
      BY <2>1, <2>2, <2>3, <2>5
    <3>2. QED
      BY <3>1 DEF Discipline
  <2>6. QED
    BY <2>1, <2>3, <2>4, <2>5
<1>22. ASSUME NEW j \in Jobs, ReadJob(j) PROVE Discipline'
  <2>1. /\ fin[j].pc = "read" /\ fin'[j].pc \in {"release", "record"}
        /\ \A k \in Jobs : k # j => fin'[k] = fin[k]
    BY <1>22, FinElsewhere DEF ReadJob, FinAt
  <2>2. adm' = adm /\ gc' = gc /\ arrival' = arrival /\ reserved' = reserved /\ state' = state
    BY <1>22 DEF ReadJob
  <2> HIDE DEF Discipline, TypeOK
  <2>3. ASSUME NEW k \in Jobs, fin'[k].pc # "idle" PROVE fin[k].pc # "idle"
    BY <2>1, <2>3
  <2>4. ASSUME NEW k \in Jobs, fin'[k].pc = "capacity" PROVE reserved'[k] = 0
    <3>1. fin[k].pc = "capacity"
      BY <2>1, <2>4
    <3>2. reserved[k] = 0
      BY <3>1 DEF Discipline
    <3>3. QED
      BY <3>2, <2>2
  <2>5. QED
    BY <2>2, <2>3, <2>4, FinDiscipline
<1>23. ASSUME NEW j \in Jobs, ReleaseJob(j) PROVE Discipline'
  <2>1. /\ fin[j].pc = "release"
        /\ \A k \in Jobs : k # j => fin'[k] = fin[k] /\ reserved'[k] = reserved[k]
        /\ fin'[j].pc = "capacity" => reserved'[j] = 0
    BY <1>23, FinElsewhere DEF ReleaseJob, FinAt, AfterRelease
  <2>2. adm' = adm /\ gc' = gc /\ arrival' = arrival /\ state' = state
    BY <1>23 DEF ReleaseJob
  <2> HIDE DEF Discipline, TypeOK
  <2>3. ASSUME NEW k \in Jobs, fin'[k].pc # "idle" PROVE fin[k].pc # "idle"
    BY <2>1, <2>3
  <2>4. ASSUME NEW k \in Jobs, fin'[k].pc = "capacity" PROVE reserved'[k] = 0
    <3>1. CASE k = j
      BY <2>1, <2>4, <3>1
    <3>2. CASE k # j
      <4>1. fin[k].pc = "capacity" /\ reserved'[k] = reserved[k]
        BY <2>1, <2>4, <3>2
      <4>2. reserved[k] = 0
        BY <4>1 DEF Discipline
      <4>3. QED
        BY <4>1, <4>2
    <3>3. QED
      BY <3>1, <3>2
  <2>5. QED
    BY <2>2, <2>3, <2>4, FinDiscipline
<1>24. ASSUME NEW j \in Jobs, ReleaseCapacity(j) PROVE Discipline'
  BY <1>24 DEF ReleaseCapacity, GoFin, FinAt
<1>25. ASSUME NEW j \in Jobs, ReleaseRow(j) PROVE Discipline'
  BY <1>25 DEF ReleaseRow, GoFin, FinAt, AfterRelease
<1>26. ASSUME NEW j \in Jobs, RecordFailed(j) PROVE Discipline'
  BY <1>26 DEF RecordFailed, GoFin, FinAt
<1>27. ASSUME NEW j \in Jobs, CleanupSpool(j) PROVE Discipline'
  BY <1>27 DEF CleanupSpool, IdleFin, FinAt
<1>28. ASSUME NEW j \in Jobs, ChunkStored(j) PROVE Discipline'
  BY <1>28 DEF ChunkStored, Open
<1>29. ASSUME NEW j \in Jobs, ChunkRejected(j) PROVE Discipline'
  BY <1>29 DEF ChunkRejected
<1>30. ASSUME NEW j \in Jobs, ChunkReplayed(j) PROVE Discipline'
  BY <1>30 DEF ChunkReplayed
<1>31. ASSUME NEW j \in Jobs, Complete(j) PROVE Discipline'
  BY <1>31 DEF Complete, Open
<1>32. CASE UNCHANGED vars
  BY <1>32 DEF vars
<1>33. QED
  BY <1>1, <1>2, <1>3, <1>4, <1>5, <1>6, <1>7, <1>8, <1>9, <1>10, <1>11, <1>12, <1>13, <1>14, <1>15, <1>16, <1>17, <1>18, <1>19, <1>20, <1>21, <1>22, <1>23, <1>24, <1>25, <1>26, <1>27, <1>28, <1>29, <1>30, <1>31, <1>32 DEF Next, AdmStep, GcStep, BootStep, FinStep

-----------------------------------------------------------------------------
(* Part 4: the capacity row covers what is held *)

\* What a job holds never exceeds the largest input.
LEMMA HeldRange ==
  ASSUME NEW r \in [Jobs -> 0 .. MaxSize], NEW f \in [Jobs -> FinRecord],
         \A j \in Jobs : f[j].pc = "capacity" => r[j] = 0
  PROVE  [j \in Jobs |-> r[j] + (IF f[j].pc = "capacity" THEN f[j].amount ELSE 0)] \in Amounts
<1>1. ASSUME NEW j \in Jobs
      PROVE  r[j] + (IF f[j].pc = "capacity" THEN f[j].amount ELSE 0) \in 0 .. MaxSize
  <2>1. r[j] \in 0 .. MaxSize /\ f[j].amount \in 0 .. MaxSize
    BY DEF FinRecord
  <2>2. QED
    BY <2>1, SizeAssumption
<1>2. QED
  BY <1>1 DEF Amounts

LEMMA HeldAmounts ==
  ASSUME TypeOK, Discipline
  PROVE  HeldBy \in Amounts /\ Held = Cells(HeldBy) /\ Cardinality(Held) \in Nat
<1>1. HeldBy \in Amounts
  <2>1. /\ reserved \in [Jobs -> 0 .. MaxSize] /\ fin \in [Jobs -> FinRecord]
        /\ \A j \in Jobs : fin[j].pc = "capacity" => reserved[j] = 0
    BY DEF TypeOK, Discipline
  <2>2. [j \in Jobs |-> reserved[j] + (IF fin[j].pc = "capacity" THEN fin[j].amount ELSE 0)]
          \in Amounts
    BY <2>1, HeldRange
  <2>3. QED
    BY <2>2 DEF HeldBy
<1>2. QED
  BY <1>1, CellsFinite DEF Held

LEMMA HeldAmountsNext ==
  ASSUME TypeOK', Discipline'
  PROVE  HeldBy' \in Amounts /\ Held' = Cells(HeldBy') /\ Cardinality(Held') \in Nat
<1>1. HeldBy' \in Amounts
  <2>1. /\ reserved' \in [Jobs -> 0 .. MaxSize] /\ fin' \in [Jobs -> FinRecord]
        /\ \A j \in Jobs : fin'[j].pc = "capacity" => reserved'[j] = 0
    BY DEF TypeOK, Discipline
  <2>2. [j \in Jobs |-> reserved'[j] + (IF fin'[j].pc = "capacity" THEN fin'[j].amount ELSE 0)]
          \in Amounts
    BY <2>1, HeldRange
  <2>3. QED
    BY <2>2 DEF HeldBy
<1>2. Held' = Cells(HeldBy')
  BY DEF Held, Cells
<1>3. QED
  BY <1>1, <1>2, CellsFinite

\* Holding no more, under the same capacity row, keeps it covered.
LEMMA HoldLess ==
  ASSUME TypeOK, TypeOK', Discipline, Discipline', CapacityCovers,
         \A k \in Jobs : HeldBy'[k] <= HeldBy[k],
         capReserved' = capReserved,
         capTotal' = capTotal \/ capReserved = 0
  PROVE  CapacityCovers'
<1>1. /\ HeldBy \in Amounts /\ Held = Cells(HeldBy) /\ Cardinality(Held) \in Nat
      /\ HeldBy' \in Amounts /\ Held' = Cells(HeldBy') /\ Cardinality(Held') \in Nat
  BY HeldAmounts, HeldAmountsNext
<1>2. Cardinality(Held') <= Cardinality(Held)
  BY <1>1, CellsMono
<1>3. QED
  BY <1>1, <1>2 DEF CapacityCovers, TypeOK

\* Giving n cells of one job back lowers the sum by n, which the row covers.
LEMMA GiveBack ==
  ASSUME TypeOK, TypeOK', Discipline, Discipline', CapacityCovers,
         NEW j \in Jobs, NEW n \in Nat, HeldBy[j] = n, HeldBy'[j] = 0,
         \A k \in Jobs : k # j => HeldBy'[k] = HeldBy[k],
         capReserved' = Minus(capReserved, n), capTotal' = capTotal
  PROVE  /\ Cardinality(Held') + n = Cardinality(Held)
         /\ n <= capReserved
         /\ CapacityCovers'
<1>1. /\ HeldBy \in Amounts /\ Held = Cells(HeldBy) /\ Cardinality(Held) \in Nat
      /\ HeldBy' \in Amounts /\ Held' = Cells(HeldBy') /\ Cardinality(Held') \in Nat
  BY HeldAmounts, HeldAmountsNext
<1>2. HeldBy' = [HeldBy EXCEPT ![j] = 0]
  BY <1>1 DEF Amounts
<1>3. Cardinality(Held') + n = Cardinality(Held)
  <2>1. 0 \in 0 .. MaxSize
    BY SizeAssumption
  <2>2. Cardinality(Cells([HeldBy EXCEPT ![j] = 0])) + HeldBy[j] = Cardinality(Cells(HeldBy)) + 0
    BY <1>1, <2>1, CellsUpdate
  <2>3. QED
    BY <1>1, <1>2, <2>2
<1>4. QED
  BY <1>1, <1>3 DEF CapacityCovers, Minus, TypeOK

\* Taking n cells raises the sum and the row alike.
LEMMA TakeMore ==
  ASSUME TypeOK, TypeOK', Discipline, Discipline', CapacityCovers,
         NEW j \in Jobs, NEW n \in Nat, HeldBy[j] = 0, HeldBy'[j] = n,
         \A k \in Jobs : k # j => HeldBy'[k] = HeldBy[k],
         capReserved' = capReserved + n, capTotal' = capTotal, capReserved + n <= capTotal
  PROVE  /\ Cardinality(Held') = Cardinality(Held) + n
         /\ CapacityCovers'
<1>1. /\ HeldBy \in Amounts /\ Held = Cells(HeldBy) /\ Cardinality(Held) \in Nat
      /\ HeldBy' \in Amounts /\ Held' = Cells(HeldBy') /\ Cardinality(Held') \in Nat
  BY HeldAmounts, HeldAmountsNext
<1>2. HeldBy' = [HeldBy EXCEPT ![j] = n] /\ n \in 0 .. MaxSize
  BY <1>1 DEF Amounts
<1>3. Cardinality(Held') = Cardinality(Held) + n
  <2>1. Cardinality(Cells([HeldBy EXCEPT ![j] = n])) + HeldBy[j] = Cardinality(Cells(HeldBy)) + n
    BY <1>1, <1>2, CellsUpdate
  <2>2. QED
    BY <1>1, <1>2, <2>1
<1>4. QED
  BY <1>1, <1>3 DEF CapacityCovers, TypeOK

\* A record that is not at the capacity statement holds only what is reserved.
LEMMA FinLess ==
  ASSUME TypeOK, reserved' = reserved, NEW j \in Jobs, fin'[j].pc # "capacity",
         \A k \in Jobs : k # j => fin'[k] = fin[k]
  PROVE  \A k \in Jobs : HeldBy'[k] <= HeldBy[k]
BY DEF HeldBy, TypeOK, FinRecord

\* fail() moving on holds no more, unless it enters the capacity statement.
LEMMA FinHolds ==
  ASSUME TypeOK, reserved' = reserved, NEW j \in Jobs,
         Fail(j) \/ \E pc \in {"idle", "read", "release", "rows", "record", "cleanup"} : GoFin(j, pc)
  PROVE  \A k \in Jobs : HeldBy'[k] <= HeldBy[k]
<1>1. fin'[j].pc # "capacity" /\ \A k \in Jobs : k # j => fin'[k] = fin[k]
  BY FinElsewhere DEF TypeOK
<1>2. QED
  BY <1>1, FinLess

\* Every step keeps the capacity row above what is held, and below the total.
LEMMA CapacityStep ==
  ASSUME TypeOK, TypeOK', Discipline, Discipline', CapacityCovers, [Next]_vars
  PROVE  CapacityCovers'
<1>1. ASSUME reserved' = reserved, fin' = fin, capReserved' = capReserved,
             capTotal' = capTotal \/ capReserved = 0
      PROVE  CapacityCovers'
  <2>1. \A k \in Jobs : HeldBy'[k] <= HeldBy[k]
    BY <1>1 DEF HeldBy, TypeOK, FinRecord
  <2>2. QED
    BY <1>1, <2>1, HoldLess
<1>2. CASE AdmStart
  BY <1>1, <1>2 DEF AdmStart, store, disk, process, env
<1>3. CASE AdmScan
  BY <1>1, <1>3 DEF AdmScan, store, disk, process, env
<1>4. CASE AdmFailed
  BY <1>1, <1>4 DEF AdmFailed, store, disk, process, env
<1>5. CASE GcStart
  BY <1>1, <1>5 DEF GcStart, store, disk, process, env
<1>6. CASE GcRemove
  BY <1>1, <1>6 DEF GcRemove, store, disk, process, env
<1>7. CASE GcEnd
  BY <1>1, <1>7 DEF GcEnd, store, disk, process, env
<1>8. CASE GcAbort
  BY <1>1, <1>8 DEF GcAbort, store, disk, process, env
<1>9. CASE Restart
  BY <1>1, <1>9 DEF Restart, store, disk, process, env
<1>10. CASE EndReconcile
  BY <1>1, <1>10 DEF EndReconcile, store, disk, process, env
<1>11. CASE EndRecover
  BY <1>1, <1>11 DEF EndRecover, store, disk, process, env
<1>12. ASSUME NEW j \in Jobs, Sweep(j) PROVE CapacityCovers'
  BY <1>1, <1>12 DEF Sweep, store, disk, process, env
<1>13. ASSUME NEW j \in Jobs, Arrive(j) PROVE CapacityCovers'
  BY <1>1, <1>13 DEF Arrive, store, disk, process, env
<1>14. ASSUME NEW j \in Jobs, Insert(j) PROVE CapacityCovers'
  BY <1>1, <1>14 DEF Insert, store, disk, process, env
<1>15. ASSUME NEW j \in Jobs, TimePasses(j) PROVE CapacityCovers'
  BY <1>1, <1>15 DEF TimePasses, store, disk, process, env
<1>16. ASSUME NEW j \in Jobs, ChunkStored(j) PROVE CapacityCovers'
  BY <1>1, <1>16 DEF ChunkStored, store, disk, process, env
<1>17. ASSUME NEW j \in Jobs, ChunkRejected(j) PROVE CapacityCovers'
  BY <1>1, <1>17 DEF ChunkRejected, store, disk, process, env
<1>18. ASSUME NEW j \in Jobs, ChunkReplayed(j) PROVE CapacityCovers'
  BY <1>1, <1>18 DEF ChunkReplayed, store, disk, process, env
<1>19. ASSUME NEW j \in Jobs, Complete(j) PROVE CapacityCovers'
  BY <1>1, <1>19 DEF Complete, store, disk, process, env
<1>20. CASE AdmReserve
  <2>1. adm.job \in Jobs /\ state[adm.job] = "PENDING" /\ fin[adm.job].pc = "idle"
    BY <1>20 DEF AdmReserve, TypeOK, Discipline
  <2>2. CASE adm'.pc = "prepare"
    <3>1. /\ Fits(adm.job) /\ fin' = fin /\ reserved[adm.job] = 0
          /\ capReserved' = capReserved + Size[adm.job]
          /\ reserved' = [reserved EXCEPT ![adm.job] = Size[adm.job]]
          /\ capTotal' = capTotal
      BY <1>20, <2>2 DEF AdmReserve, AdmFail, AdmGo, IdleAdm
    <3>2. Size[adm.job] \in Nat /\ capReserved + Size[adm.job] <= capTotal
      BY <2>1, <3>1, SizeAssumption DEF Fits, RoomFor
    <3>3. /\ HeldBy[adm.job] = 0 /\ HeldBy'[adm.job] = Size[adm.job]
          /\ \A k \in Jobs : k # adm.job => HeldBy'[k] = HeldBy[k]
      BY <2>1, <3>1, <3>2 DEF HeldBy, TypeOK
    <3>4. QED
      BY <2>1, <3>1, <3>2, <3>3, TakeMore
  <2>3. CASE adm'.pc = "failing"
    <3>1. Fail(adm.job) /\ reserved' = reserved /\ capReserved' = capReserved /\ capTotal' = capTotal
      BY <1>20, <2>3 DEF AdmReserve, AdmFail, AdmGo, IdleAdm
    <3>2. QED
      BY <2>1, <3>1, FinHolds, HoldLess
  <2>4. CASE adm' = IdleAdm
    <3>1. reserved' = reserved /\ fin' = fin /\ capReserved' = capReserved /\ capTotal' = capTotal
      BY <1>20, <2>4 DEF AdmReserve, AdmFail, AdmGo, IdleAdm
    <3>2. QED
      BY <1>1, <3>1
  <2>5. QED
    BY <1>20, <2>2, <2>3, <2>4 DEF AdmReserve, AdmFail, AdmGo
<1>21. CASE AdmPrepare
  <2>1. adm.job \in Jobs /\ reserved' = reserved /\ capReserved' = capReserved /\ capTotal' = capTotal
    BY <1>21 DEF AdmPrepare, TypeOK, store
  <2>2. fin' = fin \/ Fail(adm.job)
    BY <1>21 DEF AdmPrepare, AdmFail
  <2>3. QED
    BY <1>1, <2>1, <2>2, FinHolds, HoldLess
<1>22. CASE AdmAdmit
  <2>1. adm.job \in Jobs /\ reserved' = reserved /\ capReserved' = capReserved /\ capTotal' = capTotal
    BY <1>22 DEF AdmAdmit, TypeOK, store
  <2>2. fin' = fin \/ Fail(adm.job)
    BY <1>22 DEF AdmAdmit, AdmFail
  <2>3. QED
    BY <1>1, <2>1, <2>2, FinHolds, HoldLess
<1>23. CASE Crash
  <2>1. reserved' = reserved /\ capReserved' = capReserved /\ capTotal' = capTotal
        /\ fin' = [j \in Jobs |-> IdleFin]
    BY <1>23 DEF Crash, store
  <2>2. \A k \in Jobs : HeldBy'[k] <= HeldBy[k]
    BY <2>1 DEF HeldBy, TypeOK, FinRecord, IdleFin
  <2>3. QED
    BY <2>1, <2>2, HoldLess
<1>24. ASSUME NEW j \in Jobs, GcExpire(j) PROVE CapacityCovers'
  <2>1. CASE j \in Abandoned
    <3>1. /\ state[j] \in {"PENDING", "ADMITTED", "UPLOADING"}
          /\ reserved' = [reserved EXCEPT ![j] = 0] /\ fin' = fin
          /\ capReserved' = Minus(capReserved, reserved[j]) /\ capTotal' = capTotal
      BY <1>24, <2>1 DEF GcExpire, Abandoned, Expiring, Open, process
    <3>2. fin[j].pc = "idle"
      BY <1>24, <3>1 DEF GcExpire, Discipline
    <3>3. /\ HeldBy[j] = reserved[j] /\ HeldBy'[j] = 0 /\ reserved[j] \in Nat
          /\ \A k \in Jobs : k # j => HeldBy'[k] = HeldBy[k]
      BY <3>1, <3>2 DEF HeldBy, TypeOK
    <3>4. QED
      BY <3>1, <3>3, GiveBack
  <2>2. CASE j \notin Abandoned
    BY <1>24, <1>1, <2>2 DEF GcExpire
  <2>3. QED
    BY <2>1, <2>2
<1>25. ASSUME NEW j \in Jobs, Reconcile(j) PROVE CapacityCovers'
  <2>1. /\ state[j] \in {"PENDING", "ADMITTED", "UPLOADING"}
        /\ reserved' = [reserved EXCEPT ![j] = 0] /\ fin' = fin
        /\ capReserved' = Minus(capReserved, reserved[j]) /\ capTotal' = capTotal
    BY <1>25 DEF Reconcile, Abandoned, Expiring, Open, process
  <2>2. fin[j].pc = "idle"
    BY <1>25 DEF Reconcile, Open, Discipline
  <2>3. /\ HeldBy[j] = reserved[j] /\ HeldBy'[j] = 0 /\ reserved[j] \in Nat
        /\ \A k \in Jobs : k # j => HeldBy'[k] = HeldBy[k]
    BY <2>1, <2>2 DEF HeldBy, TypeOK
  <2>4. QED
    BY <2>1, <2>3, GiveBack
<1>26. ASSUME NEW j \in Jobs, Finish(j) PROVE CapacityCovers'
  <2>1. fin'[j].pc # "capacity" /\ \A k \in Jobs : k # j => fin'[k] = fin[k]
    BY <1>26, FinElsewhere DEF Finish, TypeOK
  <2>2. reserved' = reserved /\ capReserved' = capReserved /\ capTotal' = capTotal
    BY <1>26 DEF Finish
  <2>3. \A k \in Jobs : HeldBy'[k] <= HeldBy[k]
    BY <2>1, <2>2, FinLess
  <2>4. QED
    BY <2>2, <2>3, HoldLess
<1>27. ASSUME NEW j \in Jobs, ReadJob(j) PROVE CapacityCovers'
  <2>1. fin'[j].pc # "capacity" /\ \A k \in Jobs : k # j => fin'[k] = fin[k]
    <3>1. CASE GoFin(j, "record")
      BY <3>1, FinElsewhere DEF TypeOK
    <3>2. CASE fin' = [fin EXCEPT ![j].pc = IF reserved[j] > 0 THEN "release" ELSE "record",
                                  ![j].amount = reserved[j]]
      BY <3>2 DEF TypeOK, FinRecord
    <3>3. QED
      BY <1>27, <3>1, <3>2 DEF ReadJob
  <2>2. reserved' = reserved /\ capReserved' = capReserved /\ capTotal' = capTotal
    BY <1>27 DEF ReadJob, store
  <2>3. \A k \in Jobs : HeldBy'[k] <= HeldBy[k]
    BY <2>1, <2>2, FinLess
  <2>4. QED
    BY <2>2, <2>3, HoldLess
<1>28. ASSUME NEW j \in Jobs, ReleaseJob(j) PROVE CapacityCovers'
  <2>1. capReserved' = capReserved /\ capTotal' = capTotal
    BY <1>28 DEF ReleaseJob
  <2>2. CASE GoFin(j, "capacity") /\ reserved[j] = fin[j].amount /\ reserved' = [reserved EXCEPT ![j] = 0]
    <3>1. /\ fin'[j].pc = "capacity" /\ fin'[j].amount = fin[j].amount
          /\ \A k \in Jobs : k # j => fin'[k] = fin[k]
      BY <2>2, FinElsewhere DEF TypeOK
    <3>2. fin[j].pc = "release"
      BY <1>28 DEF ReleaseJob, FinAt
    <3>3. \A k \in Jobs : HeldBy'[k] = HeldBy[k] /\ HeldBy[k] \in Nat
      BY <2>2, <3>1, <3>2 DEF HeldBy, TypeOK, FinRecord
    <3>4. QED
      BY <2>1, <3>3, HoldLess
  <2>3. CASE GoFin(j, AfterRelease(j)) /\ reserved' = reserved
    <3>1. AfterRelease(j) \in {"cleanup", "record"}
      BY DEF AfterRelease
    <3>2. QED
      BY <2>1, <2>3, <3>1, FinHolds, HoldLess
  <2>4. QED
    BY <1>28, <2>2, <2>3 DEF ReleaseJob
<1>29. ASSUME NEW j \in Jobs, ReleaseCapacity(j) PROVE CapacityCovers'
  <2>1. /\ capTotal' = capTotal /\ reserved' = reserved /\ GoFin(j, "rows")
        /\ fin[j].pc = "capacity" /\ reserved[j] = 0
    BY <1>29 DEF ReleaseCapacity, FinAt, Discipline
  <2>2. CASE capReserved' = capReserved
    BY <2>1, <2>2, FinHolds, HoldLess
  <2>3. CASE capReserved' = Minus(capReserved, fin[j].amount)
    <3>1. /\ fin'[j].pc = "rows" /\ fin[j].amount \in Nat
          /\ \A k \in Jobs : k # j => fin'[k] = fin[k]
      BY <2>1, FinElsewhere DEF TypeOK, FinRecord
    <3>2. /\ HeldBy[j] = fin[j].amount /\ HeldBy'[j] = 0
          /\ \A k \in Jobs : k # j => HeldBy'[k] = HeldBy[k]
      BY <2>1, <3>1 DEF HeldBy
    <3>3. QED
      BY <2>1, <2>3, <3>1, <3>2, GiveBack
  <2>4. QED
    BY <1>29, <2>2, <2>3 DEF ReleaseCapacity
<1>30. ASSUME NEW j \in Jobs, ReleaseRow(j) PROVE CapacityCovers'
  <2>1. /\ capTotal' = capTotal /\ capReserved' = capReserved /\ reserved' = reserved
        /\ GoFin(j, AfterRelease(j)) /\ AfterRelease(j) \in {"cleanup", "record"}
    BY <1>30 DEF ReleaseRow, AfterRelease
  <2>2. QED
    BY <2>1, FinHolds, HoldLess
<1>31. ASSUME NEW j \in Jobs, RecordFailed(j) PROVE CapacityCovers'
  <2>1. /\ capTotal' = capTotal /\ capReserved' = capReserved /\ reserved' = reserved
        /\ GoFin(j, "cleanup")
    BY <1>31 DEF RecordFailed
  <2>2. QED
    BY <2>1, FinHolds, HoldLess
<1>32. ASSUME NEW j \in Jobs, CleanupSpool(j) PROVE CapacityCovers'
  <2>1. /\ capTotal' = capTotal /\ capReserved' = capReserved /\ reserved' = reserved
        /\ fin' = [fin EXCEPT ![j] = IdleFin]
    BY <1>32 DEF CleanupSpool, store
  <2>2. \A k \in Jobs : HeldBy'[k] <= HeldBy[k]
    BY <2>1 DEF HeldBy, TypeOK, FinRecord, IdleFin
  <2>3. QED
    BY <2>1, <2>2, HoldLess
<1>33. CASE UNCHANGED vars
  BY <1>33, <1>1 DEF vars, store, disk, process, env
<1>34. QED
  BY <1>2, <1>3, <1>4, <1>5, <1>6, <1>7, <1>8, <1>9, <1>10, <1>11, <1>12, <1>13, <1>14, <1>15, <1>16, <1>17, <1>18, <1>19, <1>20, <1>21, <1>22, <1>23, <1>24, <1>25, <1>26, <1>27, <1>28, <1>29, <1>30, <1>31, <1>32, <1>33 DEF Next, AdmStep, GcStep, BootStep, FinStep

-----------------------------------------------------------------------------
(* Part 5: where chunks are accepted, the file and the reservation exist *)

\* Every step keeps open uploads backed by a file and a reservation.
LEMMA BackedStep ==
  ASSUME TypeOK, TypeOK', Discipline, UploadNeedsSpool, AdmitHasSpool, [Next]_vars
  PROVE  UploadNeedsSpool' /\ AdmitHasSpool'
<1> USE DEF TypeOK, UploadNeedsSpool, AdmitHasSpool, Open, store, disk, process, env
<1>1. CASE AdmStart
  BY <1>1 DEF AdmStart, IdleAdm
<1>2. CASE AdmScan
  BY <1>2 DEF AdmScan, AdmGo, IdleAdm
<1>3. CASE AdmReserve
  BY <1>3 DEF AdmReserve, AdmGo, AdmFail, IdleAdm
<1>4. CASE AdmPrepare
  BY <1>4 DEF AdmPrepare, AdmGo, AdmFail
<1>5. CASE AdmAdmit
  BY <1>5 DEF AdmAdmit, AdmGo, AdmFail
<1>6. CASE AdmFailed
  BY <1>6 DEF AdmFailed, AdmGo
<1>7. CASE GcStart
  BY <1>7 DEF GcStart
<1>8. CASE GcRemove
  BY <1>8 DEF GcRemove, RemoveSpool, Discipline
<1>9. CASE GcEnd
  BY <1>9 DEF GcEnd
<1>10. CASE GcAbort
  BY <1>10 DEF GcAbort
<1>11. CASE Crash
  BY <1>11 DEF Crash, IdleAdm
<1>12. CASE Restart
  BY <1>12 DEF Restart
<1>13. CASE EndReconcile
  BY <1>13 DEF EndReconcile
<1>14. CASE EndRecover
  BY <1>14 DEF EndRecover
<1>15. ASSUME NEW j \in Jobs, GcExpire(j) PROVE UploadNeedsSpool' /\ AdmitHasSpool'
  BY <1>15 DEF GcExpire, Discipline
<1>16. ASSUME NEW j \in Jobs, Reconcile(j) PROVE UploadNeedsSpool' /\ AdmitHasSpool'
  BY <1>16 DEF Reconcile, Discipline
<1>17. ASSUME NEW j \in Jobs, Sweep(j) PROVE UploadNeedsSpool' /\ AdmitHasSpool'
  BY <1>17 DEF Sweep, RemoveSpool, Stale, Terminal, Discipline
<1>18. ASSUME NEW j \in Jobs, Arrive(j) PROVE UploadNeedsSpool' /\ AdmitHasSpool'
  BY <1>18 DEF Arrive
<1>19. ASSUME NEW j \in Jobs, Insert(j) PROVE UploadNeedsSpool' /\ AdmitHasSpool'
  BY <1>19 DEF Insert, Discipline
<1>20. ASSUME NEW j \in Jobs, TimePasses(j) PROVE UploadNeedsSpool' /\ AdmitHasSpool'
  BY <1>20 DEF TimePasses
<1>21. ASSUME NEW j \in Jobs, Finish(j) PROVE UploadNeedsSpool' /\ AdmitHasSpool'
  BY <1>21 DEF Finish
<1>22. ASSUME NEW j \in Jobs, ReadJob(j) PROVE UploadNeedsSpool' /\ AdmitHasSpool'
  BY <1>22 DEF ReadJob
<1>23. ASSUME NEW j \in Jobs, ReleaseJob(j) PROVE UploadNeedsSpool' /\ AdmitHasSpool'
  BY <1>23 DEF ReleaseJob, FinAt, Discipline
<1>24. ASSUME NEW j \in Jobs, ReleaseCapacity(j) PROVE UploadNeedsSpool' /\ AdmitHasSpool'
  BY <1>24 DEF ReleaseCapacity
<1>25. ASSUME NEW j \in Jobs, ReleaseRow(j) PROVE UploadNeedsSpool' /\ AdmitHasSpool'
  BY <1>25 DEF ReleaseRow
<1>26. ASSUME NEW j \in Jobs, RecordFailed(j) PROVE UploadNeedsSpool' /\ AdmitHasSpool'
  BY <1>26 DEF RecordFailed, FinAt, Discipline
<1>27. ASSUME NEW j \in Jobs, CleanupSpool(j) PROVE UploadNeedsSpool' /\ AdmitHasSpool'
  BY <1>27 DEF CleanupSpool, RemoveSpool, FinAt, Discipline
<1>28. ASSUME NEW j \in Jobs, ChunkStored(j) PROVE UploadNeedsSpool' /\ AdmitHasSpool'
  BY <1>28 DEF ChunkStored
<1>29. ASSUME NEW j \in Jobs, ChunkRejected(j) PROVE UploadNeedsSpool' /\ AdmitHasSpool'
  BY <1>29 DEF ChunkRejected
<1>30. ASSUME NEW j \in Jobs, ChunkReplayed(j) PROVE UploadNeedsSpool' /\ AdmitHasSpool'
  BY <1>30 DEF ChunkReplayed
<1>31. ASSUME NEW j \in Jobs, Complete(j) PROVE UploadNeedsSpool' /\ AdmitHasSpool'
  BY <1>31 DEF Complete
<1>32. CASE UNCHANGED vars
  BY <1>32 DEF vars
<1>33. QED
  BY <1>1, <1>2, <1>3, <1>4, <1>5, <1>6, <1>7, <1>8, <1>9, <1>10, <1>11, <1>12, <1>13, <1>14, <1>15, <1>16, <1>17, <1>18, <1>19, <1>20, <1>21, <1>22, <1>23, <1>24, <1>25, <1>26, <1>27, <1>28, <1>29, <1>30, <1>31, <1>32 DEF Next, AdmStep, GcStep, BootStep, FinStep

-----------------------------------------------------------------------------
(* Part 6: the disk holds all that is written and all that is promised *)

\* Nothing new is on the disk or promised.
LEMMA CoverLess ==
  ASSUME TypeOK, TypeOK', NoOvercommit,
         \A k \in Jobs : /\ written'[k] <= written[k] \/ written'[k] <= reserved[k]
                         /\ reserved'[k] <= reserved[k]
  PROVE  NoOvercommit'
<1>1. /\ written \in Amounts /\ reserved \in Amounts /\ written' \in Amounts /\ reserved' \in Amounts
  BY DEF TypeOK, Amounts
<1>2. OnDisk' = Cells(written') /\ Promised' = Cells(reserved')
  BY DEF OnDisk, Promised, Cells
<1>3. (OnDisk \cup Promised)' \subseteq OnDisk \cup Promised
  <2>1. SUFFICES ASSUME NEW u \in Jobs \X Units, u[2] <= written'[u[1]] \/ u[2] <= reserved'[u[1]]
                 PROVE  u[2] <= written[u[1]] \/ u[2] <= reserved[u[1]]
    BY <1>2 DEF OnDisk, Promised, Cells
  <2>2. u[1] \in Jobs /\ u[2] \in Nat
    BY SizeAssumption DEF Units
  <2>3. /\ written[u[1]] \in Nat /\ reserved[u[1]] \in Nat
        /\ written'[u[1]] \in Nat /\ reserved'[u[1]] \in Nat
    BY <1>1, <2>2, SizeAssumption DEF Amounts
  <2>4. QED
    BY <2>1, <2>2, <2>3
<1>4. IsFiniteSet(OnDisk \cup Promised)
  BY CellsFinite, FS_Union DEF OnDisk, Promised
<1>5. /\ Cardinality((OnDisk \cup Promised)') <= Cardinality(OnDisk \cup Promised)
      /\ Cardinality((OnDisk \cup Promised)') \in Nat /\ Cardinality(OnDisk \cup Promised) \in Nat
  <2>1. IsFiniteSet((OnDisk \cup Promised)')
    BY <1>3, <1>4, FS_Subset
  <2>2. QED
    BY <1>3, <1>4, <2>1, FS_Subset, FS_CardinalityType
<1>6. QED
  BY <1>5, CapacityAssumption DEF NoOvercommit

\* A reservation statfs found room for.
LEMMA CoverMore ==
  ASSUME TypeOK, TypeOK', Discipline, CapacityCovers, NEW j \in Jobs, reserved[j] = 0,
         SpaceFor(Size[j]), written' = written, reserved' = [reserved EXCEPT ![j] = Size[j]]
  PROVE  NoOvercommit'
<1>1. /\ written \in Amounts /\ reserved \in Amounts /\ reserved' \in Amounts
      /\ Size[j] \in 0 .. MaxSize /\ Size[j] \in Nat /\ capReserved \in Nat
  BY SizeAssumption DEF TypeOK, Amounts
<1>2. OnDisk' = Cells(written) /\ Promised' = Cells(reserved')
  BY DEF OnDisk, Promised, Cells
<1>3. Cardinality(Promised') = Cardinality(Promised) + Size[j]
  <2>1. Cardinality(Cells([reserved EXCEPT ![j] = Size[j]])) + reserved[j]
          = Cardinality(Cells(reserved)) + Size[j]
    BY <1>1, CellsUpdate
  <2>2. Cardinality(Cells(reserved)) \in Nat /\ Cardinality(Cells(reserved')) \in Nat
    BY CellsFinite
  <2>3. QED
    BY <1>1, <1>2, <2>1, <2>2 DEF Promised
<1>4. Cardinality(Promised) <= Cardinality(Held)
  <2>1. HeldBy \in Amounts /\ Held = Cells(HeldBy)
    BY HeldAmounts
  <2>2. \A k \in Jobs : reserved[k] <= HeldBy[k]
    BY SizeAssumption DEF HeldBy, TypeOK, FinRecord
  <2>3. QED
    BY <1>1, <2>1, <2>2, CellsMono DEF Promised
<1>5. /\ Cardinality(OnDisk) \in Nat /\ Cardinality(Promised) \in Nat /\ Cardinality(Held) \in Nat
      /\ IsFiniteSet(OnDisk) /\ IsFiniteSet(Promised') /\ Cardinality(Promised') \in Nat
  BY <1>2, CellsFinite DEF OnDisk, Promised, Held
<1>6. /\ Cardinality(OnDisk \cup Promised') <= Cardinality(OnDisk) + Cardinality(Promised')
      /\ Cardinality(OnDisk \cup Promised') \in Nat
  <2>1. /\ IsFiniteSet(OnDisk \cup Promised')
        /\ Cardinality(OnDisk \cup Promised')
             = Cardinality(OnDisk) + Cardinality(Promised') - Cardinality(OnDisk \cap Promised')
    BY <1>5, FS_Union
  <2>2. Cardinality(OnDisk \cap Promised') \in Nat /\ Cardinality(OnDisk \cup Promised') \in Nat
    BY <1>5, <2>1, FS_Intersection, FS_CardinalityType
  <2>3. QED
    BY <1>5, <2>1, <2>2
<1>7. Cardinality(Held) <= capReserved /\ capReserved + Size[j] + Cardinality(OnDisk) <= Disk
  BY DEF CapacityCovers, SpaceFor
<1>8. Cardinality(OnDisk \cup Promised') <= Disk
  BY <1>1, <1>3, <1>4, <1>5, <1>6, <1>7, CapacityAssumption
<1>9. QED
  BY <1>2, <1>8 DEF NoOvercommit, OnDisk

\* Every step leaves room for what is promised.
LEMMA OvercommitStep ==
  ASSUME TypeOK, TypeOK', Discipline, CapacityCovers, UploadNeedsSpool, NoOvercommit, [Next]_vars
  PROVE  NoOvercommit'
<1>1. CASE AdmStart
  <2>1. written' = written /\ reserved' = reserved
    BY <1>1 DEF AdmStart, store, disk
  <2>2. QED
    BY <2>1, CoverLess DEF TypeOK
<1>2. CASE AdmScan
  <2>1. written' = written /\ reserved' = reserved
    BY <1>2 DEF AdmScan, store, disk
  <2>2. QED
    BY <2>1, CoverLess DEF TypeOK
<1>3. CASE AdmReserve
  <2>1. adm.job \in Jobs /\ written' = written
    BY <1>3 DEF AdmReserve, TypeOK, disk
  <2>2. CASE reserved' = reserved
    BY <2>1, <2>2, CoverLess DEF TypeOK
  <2>3. CASE /\ Fits(adm.job) /\ reserved[adm.job] = 0
             /\ reserved' = [reserved EXCEPT ![adm.job] = Size[adm.job]]
    BY <2>1, <2>3, CoverMore DEF Fits
  <2>4. QED
    BY <1>3, <2>2, <2>3 DEF AdmReserve
<1>4. CASE AdmPrepare
  <2>1. written' = written /\ reserved' = reserved
    BY <1>4 DEF AdmPrepare, store, disk
  <2>2. QED
    BY <2>1, CoverLess DEF TypeOK
<1>5. CASE AdmAdmit
  <2>1. written' = written /\ reserved' = reserved
    BY <1>5 DEF AdmAdmit, store, disk
  <2>2. QED
    BY <2>1, CoverLess DEF TypeOK
<1>6. CASE AdmFailed
  <2>1. written' = written /\ reserved' = reserved
    BY <1>6 DEF AdmFailed, store, disk
  <2>2. QED
    BY <2>1, CoverLess DEF TypeOK
<1>7. CASE GcStart
  <2>1. written' = written /\ reserved' = reserved
    BY <1>7 DEF GcStart, store, disk
  <2>2. QED
    BY <2>1, CoverLess DEF TypeOK
<1>8. CASE GcRemove
  <2>1. reserved' = reserved /\ \A k \in Jobs : written'[k] <= written[k]
    BY <1>8 DEF GcRemove, RemoveSpool, disk, store, TypeOK
  <2>2. QED
    BY <2>1, CoverLess, SizeAssumption DEF TypeOK
<1>9. CASE GcEnd
  <2>1. written' = written /\ reserved' = reserved
    BY <1>9 DEF GcEnd, store, disk
  <2>2. QED
    BY <2>1, CoverLess DEF TypeOK
<1>10. CASE GcAbort
  <2>1. written' = written /\ reserved' = reserved
    BY <1>10 DEF GcAbort, store, disk
  <2>2. QED
    BY <2>1, CoverLess DEF TypeOK
<1>11. CASE Crash
  <2>1. reserved' = reserved /\ \A k \in Jobs : written'[k] <= written[k]
    BY <1>11 DEF Crash, store, TypeOK
  <2>2. QED
    BY <2>1, CoverLess, SizeAssumption DEF TypeOK
<1>12. CASE Restart
  <2>1. written' = written /\ reserved' = reserved
    BY <1>12 DEF Restart, store, disk
  <2>2. QED
    BY <2>1, CoverLess DEF TypeOK
<1>13. CASE EndReconcile
  <2>1. written' = written /\ reserved' = reserved
    BY <1>13 DEF EndReconcile, store, disk
  <2>2. QED
    BY <2>1, CoverLess DEF TypeOK
<1>14. CASE EndRecover
  <2>1. written' = written /\ reserved' = reserved
    BY <1>14 DEF EndRecover, store, disk
  <2>2. QED
    BY <2>1, CoverLess DEF TypeOK
<1>15. ASSUME NEW j \in Jobs, GcExpire(j) PROVE NoOvercommit'
  <2>1. written' = written /\ \A k \in Jobs : reserved'[k] <= reserved[k]
    BY <1>15 DEF GcExpire, disk, TypeOK
  <2>2. QED
    BY <2>1, CoverLess, SizeAssumption DEF TypeOK
<1>16. ASSUME NEW j \in Jobs, Reconcile(j) PROVE NoOvercommit'
  <2>1. written' = written /\ \A k \in Jobs : reserved'[k] <= reserved[k]
    BY <1>16 DEF Reconcile, disk, TypeOK
  <2>2. QED
    BY <2>1, CoverLess, SizeAssumption DEF TypeOK
<1>17. ASSUME NEW j \in Jobs, Sweep(j) PROVE NoOvercommit'
  <2>1. reserved' = reserved /\ \A k \in Jobs : written'[k] <= written[k]
    BY <1>17 DEF Sweep, RemoveSpool, store, TypeOK
  <2>2. QED
    BY <2>1, CoverLess, SizeAssumption DEF TypeOK
<1>18. ASSUME NEW j \in Jobs, Arrive(j) PROVE NoOvercommit'
  <2>1. written' = written /\ reserved' = reserved
    BY <1>18 DEF Arrive, store, disk
  <2>2. QED
    BY <2>1, CoverLess DEF TypeOK
<1>19. ASSUME NEW j \in Jobs, Insert(j) PROVE NoOvercommit'
  <2>1. written' = written /\ reserved' = reserved
    BY <1>19 DEF Insert, store, disk
  <2>2. QED
    BY <2>1, CoverLess DEF TypeOK
<1>20. ASSUME NEW j \in Jobs, TimePasses(j) PROVE NoOvercommit'
  <2>1. written' = written /\ reserved' = reserved
    BY <1>20 DEF TimePasses, store, disk
  <2>2. QED
    BY <2>1, CoverLess DEF TypeOK
<1>21. ASSUME NEW j \in Jobs, Finish(j) PROVE NoOvercommit'
  <2>1. written' = written /\ reserved' = reserved
    BY <1>21 DEF Finish, store, disk
  <2>2. QED
    BY <2>1, CoverLess DEF TypeOK
<1>22. ASSUME NEW j \in Jobs, ReadJob(j) PROVE NoOvercommit'
  <2>1. written' = written /\ reserved' = reserved
    BY <1>22 DEF ReadJob, store, disk
  <2>2. QED
    BY <2>1, CoverLess DEF TypeOK
<1>23. ASSUME NEW j \in Jobs, ReleaseJob(j) PROVE NoOvercommit'
  <2>1. written' = written /\ \A k \in Jobs : reserved'[k] <= reserved[k]
    BY <1>23 DEF ReleaseJob, disk, TypeOK
  <2>2. QED
    BY <2>1, CoverLess, SizeAssumption DEF TypeOK
<1>24. ASSUME NEW j \in Jobs, ReleaseCapacity(j) PROVE NoOvercommit'
  <2>1. written' = written /\ reserved' = reserved
    BY <1>24 DEF ReleaseCapacity, store, disk
  <2>2. QED
    BY <2>1, CoverLess DEF TypeOK
<1>25. ASSUME NEW j \in Jobs, ReleaseRow(j) PROVE NoOvercommit'
  <2>1. written' = written /\ reserved' = reserved
    BY <1>25 DEF ReleaseRow, store, disk
  <2>2. QED
    BY <2>1, CoverLess DEF TypeOK
<1>26. ASSUME NEW j \in Jobs, RecordFailed(j) PROVE NoOvercommit'
  <2>1. written' = written /\ reserved' = reserved
    BY <1>26 DEF RecordFailed, store, disk
  <2>2. QED
    BY <2>1, CoverLess DEF TypeOK
<1>27. ASSUME NEW j \in Jobs, CleanupSpool(j) PROVE NoOvercommit'
  <2>1. reserved' = reserved /\ \A k \in Jobs : written'[k] <= written[k]
    BY <1>27 DEF CleanupSpool, RemoveSpool, disk, store, TypeOK
  <2>2. QED
    BY <2>1, CoverLess, SizeAssumption DEF TypeOK
<1>28. ASSUME NEW j \in Jobs, ChunkStored(j) PROVE NoOvercommit'
  <2>1. reserved[j] = Size[j]
    BY <1>28 DEF ChunkStored, UploadNeedsSpool
  <2>2. /\ reserved' = reserved
        /\ \A k \in Jobs : k # j => written'[k] = written[k]
        /\ written'[j] <= Size[j]
    BY <1>28, SizeAssumption DEF ChunkStored, store, TypeOK
  <2>3. QED
    BY <2>1, <2>2, CoverLess DEF TypeOK
<1>29. ASSUME NEW j \in Jobs, ChunkRejected(j) PROVE NoOvercommit'
  <2>1. reserved[j] = Size[j]
    BY <1>29 DEF ChunkRejected, UploadNeedsSpool
  <2>2. reserved' = reserved
    BY <1>29 DEF ChunkRejected, store
  <2>3. /\ \A k \in Jobs : k # j => written'[k] = written[k]
        /\ written'[j] <= Size[j]
    <3>1. written \in [Jobs -> 0 .. MaxSize] /\ Size[j] \in 1 .. MaxSize /\ MaxSize \in Nat
      BY SizeAssumption DEF TypeOK
    <3>2. written[j] < Size[j] /\ written' = [written EXCEPT ![j] = written[j] + 1]
      BY <1>29 DEF ChunkRejected
    <3>3. QED
      BY <3>1, <3>2
  <2>4. QED
    BY <2>1, <2>2, <2>3, CoverLess DEF TypeOK
<1>30. ASSUME NEW j \in Jobs, ChunkReplayed(j) PROVE NoOvercommit'
  <2>1. written' = written /\ reserved' = reserved
    BY <1>30 DEF ChunkReplayed, store, disk
  <2>2. QED
    BY <2>1, CoverLess DEF TypeOK
<1>31. ASSUME NEW j \in Jobs, Complete(j) PROVE NoOvercommit'
  <2>1. written' = written /\ reserved' = reserved
    BY <1>31 DEF Complete, store, disk
  <2>2. QED
    BY <2>1, CoverLess DEF TypeOK
<1>32. CASE UNCHANGED vars
  <2>1. written' = written /\ reserved' = reserved
    BY <1>32 DEF vars, store, disk
  <2>2. QED
    BY <2>1, CoverLess DEF TypeOK
<1>33. QED
  BY <1>1, <1>2, <1>3, <1>4, <1>5, <1>6, <1>7, <1>8, <1>9, <1>10, <1>11, <1>12, <1>13, <1>14, <1>15, <1>16, <1>17, <1>18, <1>19, <1>20, <1>21, <1>22, <1>23, <1>24, <1>25, <1>26, <1>27, <1>28, <1>29, <1>30, <1>31, <1>32 DEF Next, AdmStep, GcStep, BootStep, FinStep

-----------------------------------------------------------------------------
(* Part 7: the theorems *)

\* The initial states satisfy the inductive invariant: nothing is reserved.
LEMMA InitIInv == Init => IInv
<1> SUFFICES ASSUME Init PROVE IInv
  OBVIOUS
<1>1. TypeOK
  <2>1. IdleFin \in FinRecord /\ IdleAdm \in AdmRecord /\ IdleGc \in GcRecord
    BY SizeAssumption DEF IdleFin, IdleAdm, IdleGc, FinRecord, AdmRecord, GcRecord
  <2>2. adm.pc = "idle" /\ gc.pc = "idle"
    BY DEF Init, IdleAdm, IdleGc
  <2>3. 0 \in 0 .. MaxSize /\ 0 \in 0 .. MaxScans
    BY SizeAssumption, BoundAssumption
  <2>4. QED
    BY <2>1, <2>2, <2>3, CapacityAssumption DEF Init, TypeOK, States
<1>2. Discipline
  BY DEF Init, Discipline, IdleFin, IdleAdm, IdleGc
<1>3. \A f \in {written, reserved, HeldBy} : Cells(f) = {}
  <2>1. \A j \in Jobs : written[j] = 0 /\ reserved[j] = 0 /\ HeldBy[j] = 0
    BY DEF Init, HeldBy, IdleFin
  <2>2. \A u \in Jobs \X Units : u[1] \in Jobs /\ ~(u[2] <= 0)
    BY SizeAssumption DEF Units
  <2>3. QED
    BY <2>1, <2>2 DEF Cells
<1>4. Cardinality(Held) = 0 /\ Cardinality(OnDisk \cup Promised) = 0
  BY <1>3, FS_EmptySet DEF Held, OnDisk, Promised
<1>5. CapacityCovers /\ NoOvercommit
  BY <1>4, CapacityAssumption DEF Init, CapacityCovers, NoOvercommit
<1>6. UploadNeedsSpool /\ AdmitHasSpool
  BY DEF Init, UploadNeedsSpool, AdmitHasSpool, Open, IdleAdm
<1>7. QED
  BY <1>1, <1>2, <1>5, <1>6 DEF IInv

\* Every step keeps the inductive invariant.
LEMMA NextIInv == IInv /\ [Next]_vars => IInv'
<1> SUFFICES ASSUME IInv, [Next]_vars PROVE IInv'
  OBVIOUS
<1> USE DEF IInv
<1>1. TypeOK'
  BY TypeStep
<1>2. Discipline'
  BY DisciplineStep
<1>3. CapacityCovers'
  BY <1>1, <1>2, CapacityStep
<1>4. UploadNeedsSpool' /\ AdmitHasSpool'
  BY <1>1, BackedStep
<1>5. NoOvercommit'
  BY <1>1, OvercommitStep
<1>6. QED
  BY <1>1, <1>2, <1>3, <1>4, <1>5

\* The inductive invariant holds in every reachable state.
THEOREM Invariance == Spec => []IInv
BY InitIInv, NextIInv, PTL DEF Spec

\* Every variable keeps its type, whatever interleaves, fails or crashes.
THEOREM Typing == Spec => []TypeOK
<1>1. IInv => TypeOK
  BY DEF IInv
<1>2. QED
  BY <1>1, Invariance, PTL

\* capacity.reserved covers all that jobs hold, and never exceeds the total,
\* although release() gives capacity back in three separate statements any
\* of which may fail or be cut short by a crash.
THEOREM CapacitySafe == Spec => []CapacityCovers
<1>1. IInv => CapacityCovers
  BY DEF IInv
<1>2. QED
  BY <1>1, Invariance, PTL

\* The sparse input files never overcommit the disk: what is written and what
\* is still promised fit together, for any sizes, capacity and disk.
THEOREM DiskSafe == Spec => []NoOvercommit
<1>1. IInv => NoOvercommit
  BY DEF IInv
<1>2. QED
  BY <1>1, Invariance, PTL

\* A job accepts chunks only with its file in place and its input reserved.
THEOREM UploadsBacked == Spec => []UploadNeedsSpool
<1>1. IInv => UploadNeedsSpool
  BY DEF IInv
<1>2. QED
  BY <1>1, Invariance, PTL

-----------------------------------------------------------------------------
(* Part 8: without crashes and failing statements the row is exact *)

\* Crashes and failures are only counted up.
LEMMA Counted ==
  ASSUME TypeOK, [Next]_vars
  PROVE  (crashes' = 0 => crashes = 0) /\ (faults' = 0 => faults = 0)
<1>1. CASE AdmStart \/ AdmStep
  BY <1>1 DEF AdmStart, AdmStep, AdmScan, AdmReserve, AdmPrepare, AdmAdmit, AdmFailed, Fault,
     TypeOK, env
<1>2. CASE GcStart \/ GcStep \/ GcAbort
  <2>1. ASSUME NEW j \in Jobs, GcExpire(j) PROVE crashes' = crashes /\ faults' = faults
    BY <2>1 DEF GcExpire, env
  <2>2. CASE GcStart \/ GcRemove \/ GcEnd \/ GcAbort
    BY <2>2 DEF GcStart, GcRemove, GcEnd, GcAbort, Fault, TypeOK, env
  <2>3. QED
    BY <1>2, <2>1, <2>2 DEF GcStep
<1>3. CASE Crash \/ Restart \/ BootStep
  BY <1>3 DEF Crash, Restart, BootStep, Reconcile, EndReconcile, Sweep, EndRecover, Fault, TypeOK,
     env
<1>4. ASSUME NEW j \in Jobs, Arrive(j) \/ Insert(j) \/ TimePasses(j) \/ Finish(j)
      PROVE  crashes' = crashes /\ faults' = faults
  BY <1>4 DEF Arrive, Insert, TimePasses, Finish, env
<1>5. ASSUME NEW j \in Jobs, FinStep(j)
      PROVE  crashes' = crashes /\ (faults' = faults \/ Fault)
  BY <1>5 DEF FinStep, ReadJob, ReleaseJob, ReleaseCapacity, ReleaseRow, RecordFailed, CleanupSpool
<1>6. ASSUME NEW j \in Jobs, ChunkStored(j) \/ ChunkRejected(j) \/ ChunkReplayed(j) \/ Complete(j)
      PROVE  crashes' = crashes /\ faults' = faults
  BY <1>6 DEF ChunkStored, ChunkRejected, ChunkReplayed, Complete, env
<1>7. QED
  BY <1>1, <1>2, <1>3, <1>4, <1>5, <1>6 DEF Next, Fault, TypeOK, vars, env

\* What is held and the row change together, or not at all.
LEMMA ExactStep ==
  ASSUME IInv, IInv', ExactCapacity, [Next]_vars
  PROVE  ExactCapacity'
<1> SUFFICES ASSUME crashes' = 0, faults' = 0 PROVE capReserved' = Cardinality(Held')
  BY DEF ExactCapacity
<1> USE DEF IInv
<1>0. /\ capReserved = Cardinality(Held) /\ crashes = 0 /\ faults = 0 /\ ~Fault
      /\ Cardinality(Held) \in Nat /\ Cardinality(Held') \in Nat
  BY Counted, HeldAmounts, HeldAmountsNext DEF ExactCapacity, Fault
<1>1. ASSUME capReserved' = capReserved, \A k \in Jobs : HeldBy'[k] = HeldBy[k]
      PROVE  capReserved' = Cardinality(Held')
  <2>1. HeldBy' = HeldBy
    BY <1>1, HeldAmounts, HeldAmountsNext DEF Amounts
  <2>2. Held' = Held
    BY <2>1, HeldAmounts, HeldAmountsNext
  <2>3. QED
    BY <1>0, <1>1, <2>2
<1>2. ASSUME capReserved' = capReserved, reserved' = reserved, NEW j \in Jobs,
             fin[j].pc # "capacity", fin'[j].pc # "capacity",
             \A k \in Jobs : k # j => fin'[k] = fin[k]
      PROVE  capReserved' = Cardinality(Held')
  <2>1. \A k \in Jobs : HeldBy'[k] = HeldBy[k]
    BY <1>2 DEF HeldBy
  <2>2. QED
    BY <1>1, <1>2, <2>1
<1>3. ASSUME capReserved' = capReserved, reserved' = reserved, fin' = fin
      PROVE  capReserved' = Cardinality(Held')
  BY <1>1, <1>3 DEF HeldBy
<1>4. ASSUME capReserved' = capReserved, reserved' = reserved, NEW j \in Jobs,
             fin[j].pc # "capacity",
             \/ Fail(j)
             \/ \E pc \in {"idle", "read", "release", "rows", "record", "cleanup"} : GoFin(j, pc)
      PROVE  capReserved' = Cardinality(Held')
  <2>1. fin'[j].pc # "capacity" /\ \A k \in Jobs : k # j => fin'[k] = fin[k]
    BY <1>4, FinElsewhere DEF TypeOK
  <2>2. QED
    BY <1>2, <1>4, <2>1
<1>5. CASE AdmStart \/ AdmScan \/ AdmFailed \/ GcStart \/ GcRemove \/ GcEnd \/ GcAbort
  BY <1>3, <1>5 DEF AdmStart, AdmScan, AdmFailed, GcStart, GcRemove, GcEnd, GcAbort, store, process
<1>6. CASE Restart \/ EndReconcile \/ EndRecover \/ UNCHANGED vars
  BY <1>3, <1>6 DEF Restart, EndReconcile, EndRecover, vars, store, process
<1>7. CASE Crash
  BY <1>0, <1>7 DEF Crash
<1>8. ASSUME NEW j \in Jobs,
             \/ Sweep(j) \/ Arrive(j) \/ Insert(j) \/ TimePasses(j)
             \/ ChunkStored(j) \/ ChunkRejected(j) \/ ChunkReplayed(j) \/ Complete(j)
      PROVE  capReserved' = Cardinality(Held')
  BY <1>3, <1>8 DEF Sweep, Arrive, Insert, TimePasses, ChunkStored, ChunkRejected, ChunkReplayed,
     Complete, store, process
<1>9. CASE AdmReserve
  <2>1. adm.job \in Jobs /\ state[adm.job] = "PENDING" /\ fin[adm.job].pc = "idle"
    BY <1>9 DEF AdmReserve, TypeOK, Discipline
  <2>2. CASE adm'.pc = "prepare"
    <3>1. /\ Fits(adm.job) /\ fin' = fin /\ reserved[adm.job] = 0
          /\ capReserved' = capReserved + Size[adm.job]
          /\ reserved' = [reserved EXCEPT ![adm.job] = Size[adm.job]]
          /\ capTotal' = capTotal
      BY <1>9, <2>2 DEF AdmReserve, AdmFail, AdmGo, IdleAdm
    <3>2. Size[adm.job] \in Nat /\ capReserved + Size[adm.job] <= capTotal
      BY <2>1, <3>1, SizeAssumption DEF Fits, RoomFor
    <3>3. /\ HeldBy[adm.job] = 0 /\ HeldBy'[adm.job] = Size[adm.job]
          /\ \A k \in Jobs : k # adm.job => HeldBy'[k] = HeldBy[k]
      BY <2>1, <3>1, <3>2 DEF HeldBy, TypeOK
    <3>4. Cardinality(Held') = Cardinality(Held) + Size[adm.job]
      BY <2>1, <3>1, <3>2, <3>3, TakeMore
    <3>5. QED
      BY <1>0, <3>1, <3>4
  <2>3. CASE adm'.pc = "failing"
    <3>1. Fail(adm.job) /\ reserved' = reserved /\ capReserved' = capReserved
      BY <1>9, <2>3 DEF AdmReserve, AdmFail, AdmGo, IdleAdm
    <3>2. QED
      BY <1>4, <2>1, <3>1
  <2>4. CASE adm' = IdleAdm
    <3>1. reserved' = reserved /\ fin' = fin /\ capReserved' = capReserved
      BY <1>9, <2>4 DEF AdmReserve, AdmFail, AdmGo, IdleAdm
    <3>2. QED
      BY <1>3, <3>1
  <2>5. QED
    BY <1>9, <2>2, <2>3, <2>4 DEF AdmReserve, AdmFail, AdmGo
<1>10. CASE AdmPrepare \/ AdmAdmit
  <2>1. reserved' = reserved /\ capReserved' = capReserved /\ fin' = fin
    BY <1>0, <1>10 DEF AdmPrepare, AdmAdmit, store
  <2>2. QED
    BY <1>3, <2>1
<1>11. ASSUME NEW j \in Jobs, fin[j].pc = "idle",
              reserved' = [reserved EXCEPT ![j] = 0], fin' = fin, capTotal' = capTotal,
              capReserved' = Minus(capReserved, reserved[j])
       PROVE  capReserved' = Cardinality(Held')
  <2>1. /\ HeldBy[j] = reserved[j] /\ HeldBy'[j] = 0 /\ reserved[j] \in Nat
        /\ \A k \in Jobs : k # j => HeldBy'[k] = HeldBy[k]
    BY <1>11 DEF HeldBy, TypeOK
  <2>2. Cardinality(Held') + reserved[j] = Cardinality(Held) /\ reserved[j] <= capReserved
    BY <1>11, <2>1, GiveBack
  <2>3. QED
    BY <1>0, <1>11, <2>1, <2>2 DEF Minus
<1>12. ASSUME NEW j \in Jobs, GcExpire(j) \/ Reconcile(j)
       PROVE  capReserved' = Cardinality(Held')
  <2>1. CASE GcExpire(j) /\ j \notin Abandoned
    BY <1>3, <2>1 DEF GcExpire, process
  <2>2. CASE (GcExpire(j) /\ j \in Abandoned) \/ Reconcile(j)
    <3>1. /\ state[j] \in {"PENDING", "ADMITTED", "UPLOADING"}
          /\ reserved' = [reserved EXCEPT ![j] = 0] /\ fin' = fin
          /\ capReserved' = Minus(capReserved, reserved[j]) /\ capTotal' = capTotal
      BY <2>2 DEF GcExpire, Reconcile, Abandoned, Expiring, Open, process
    <3>2. fin[j].pc = "idle"
      BY <2>2, <3>1 DEF GcExpire, Reconcile, Open, Discipline
    <3>3. QED
      BY <1>11, <3>1, <3>2
  <2>3. QED
    BY <1>12, <2>1, <2>2
<1>13. ASSUME NEW j \in Jobs, Finish(j)
       PROVE  capReserved' = Cardinality(Held')
  <2>1. fin'[j].pc # "capacity" /\ \A k \in Jobs : k # j => fin'[k] = fin[k]
    BY <1>13, FinElsewhere DEF Finish, TypeOK
  <2>2. QED
    BY <1>2, <1>13, <2>1 DEF Finish, FinAt
<1>14. ASSUME NEW j \in Jobs, ReadJob(j)
       PROVE  capReserved' = Cardinality(Held')
  <2>1. /\ fin[j].pc # "capacity" /\ fin'[j].pc # "capacity"
        /\ \A k \in Jobs : k # j => fin'[k] = fin[k]
    BY <1>0, <1>14 DEF ReadJob, FinAt, TypeOK, FinRecord
  <2>2. QED
    BY <1>2, <1>14, <2>1 DEF ReadJob, store
<1>15. ASSUME NEW j \in Jobs, ReleaseJob(j)
       PROVE  capReserved' = Cardinality(Held')
  <2>1. capReserved' = capReserved /\ fin[j].pc = "release"
    BY <1>15 DEF ReleaseJob, FinAt
  <2>2. CASE /\ GoFin(j, "capacity") /\ reserved[j] = fin[j].amount
             /\ reserved' = [reserved EXCEPT ![j] = 0]
    <3>1. /\ fin'[j].pc = "capacity" /\ fin'[j].amount = fin[j].amount
          /\ \A k \in Jobs : k # j => fin'[k] = fin[k]
      BY <2>2, FinElsewhere DEF TypeOK
    <3>2. \A k \in Jobs : HeldBy'[k] = HeldBy[k]
      BY <2>1, <2>2, <3>1 DEF HeldBy, TypeOK, FinRecord
    <3>3. QED
      BY <1>1, <2>1, <3>2
  <2>3. CASE GoFin(j, AfterRelease(j)) /\ reserved' = reserved
    BY <1>4, <2>1, <2>3 DEF AfterRelease
  <2>4. QED
    BY <1>15, <2>2, <2>3 DEF ReleaseJob
<1>16. ASSUME NEW j \in Jobs, ReleaseCapacity(j)
       PROVE  capReserved' = Cardinality(Held')
  <2>1. /\ capTotal' = capTotal /\ reserved' = reserved /\ GoFin(j, "rows")
        /\ fin[j].pc = "capacity" /\ reserved[j] = 0
        /\ capReserved' = Minus(capReserved, fin[j].amount)
    BY <1>0, <1>16 DEF ReleaseCapacity, FinAt, Discipline
  <2>2. /\ fin'[j].pc = "rows" /\ fin[j].amount \in Nat
        /\ \A k \in Jobs : k # j => fin'[k] = fin[k]
    BY <2>1, FinElsewhere DEF TypeOK, FinRecord
  <2>3. /\ HeldBy[j] = fin[j].amount /\ HeldBy'[j] = 0
        /\ \A k \in Jobs : k # j => HeldBy'[k] = HeldBy[k]
    BY <2>1, <2>2 DEF HeldBy
  <2>4. Cardinality(Held') + fin[j].amount = Cardinality(Held) /\ fin[j].amount <= capReserved
    BY <2>1, <2>2, <2>3, GiveBack
  <2>5. QED
    BY <1>0, <2>1, <2>2, <2>4 DEF Minus
<1>17. ASSUME NEW j \in Jobs, ReleaseRow(j) \/ RecordFailed(j)
       PROVE  capReserved' = Cardinality(Held')
  <2>1. /\ capReserved' = capReserved /\ reserved' = reserved /\ fin[j].pc # "capacity"
        /\ GoFin(j, AfterRelease(j)) \/ GoFin(j, "cleanup")
    BY <1>17 DEF ReleaseRow, RecordFailed, FinAt
  <2>2. QED
    BY <1>4, <2>1 DEF AfterRelease
<1>18. ASSUME NEW j \in Jobs, CleanupSpool(j)
       PROVE  capReserved' = Cardinality(Held')
  <2>1. /\ capReserved' = capReserved /\ reserved' = reserved /\ fin[j].pc # "capacity"
        /\ fin' = [fin EXCEPT ![j] = IdleFin]
    BY <1>18 DEF CleanupSpool, FinAt, store
  <2>2. fin'[j].pc # "capacity" /\ \A k \in Jobs : k # j => fin'[k] = fin[k]
    BY <2>1 DEF TypeOK, IdleFin
  <2>3. QED
    BY <1>2, <2>1, <2>2
<1>19. QED
  BY <1>5, <1>6, <1>7, <1>8, <1>9, <1>10, <1>12, <1>13, <1>14, <1>15, <1>16, <1>17, <1>18
     DEF Next, AdmStep, GcStep, BootStep, FinStep

\* As long as nothing fails and nothing crashes, no capacity is lost: all that
\* is reserved belongs to a job or is on its way back.
THEOREM CapacityExact == Spec => []ExactCapacity
<1>1. Init => ExactCapacity
  <2>1. ASSUME Init PROVE capReserved = 0 /\ Cardinality(Held) = 0
    <3>1. \A j \in Jobs : HeldBy[j] = 0
      BY <2>1 DEF Init, HeldBy, IdleFin
    <3>2. \A u \in Jobs \X Units : u[1] \in Jobs /\ ~(u[2] <= 0)
      BY SizeAssumption DEF Units
    <3>3. Held = {}
      BY <3>1, <3>2 DEF Held, Cells
    <3>4. QED
      BY <2>1, <3>3, FS_EmptySet DEF Init
  <2>2. QED
    BY <2>1 DEF ExactCapacity
<1>2. ExactCapacity /\ IInv /\ IInv' /\ [Next]_vars => ExactCapacity'
  BY ExactStep
<1>3. QED
  BY <1>1, <1>2, Invariance, PTL DEF Spec
=============================================================================
