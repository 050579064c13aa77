---------------------------- MODULE UploadProofs ----------------------------
(***************************************************************************)
(* Theorems about Upload, for any jobs, chunks, contents, stripes and PUT  *)
(* handlers, and any number of crashes.                                    *)
(*                                                                         *)
(* The argument: a PUT that is past its locks is a reader of its job's     *)
(* lifecycle lock and owns its chunk's, so that complete and expire wait   *)
(* for it, and no other PUT writes its chunk; what it has read of the      *)
(* database and of the file therefore stays true until it commits.         *)
(* finalize needs no lock for this: it starts from FINALIZING, which no    *)
(* PUT and no expiry changes.                                              *)
(***************************************************************************)
EXTENDS Upload, FiniteSetTheorems, TLAPS

\* Past the locks, until they are given back
Handling == InHandler \cup {"unlock"}

\* The chunk was found missing, and will be stored.
Storing == {"open"} \cup Writing

\* What a PUT knows: of its locks, of the chunk's row, and of the file
LocksKnown(p) ==
  /\ AtPut(p, "lock") => put[p].locks \in {0, 1}
  /\ put[p].pc \in Handling \/ (AtPut(p, "lock") /\ put[p].locks = 1) =>
       p \in life[LifeStripe[JobOf(p)]].readers
  /\ put[p].pc \in Handling => chunk[ChunkStripe[CellOf(p)]] = p

ChunkKnown(p) ==
  /\ AtPut(p, "replay") \/ put[p].ok => rows[CellOf(p)] = put[p].sum
  /\ put[p].pc \in Storing => state[JobOf(p)] \in Open /\ rows[CellOf(p)] = None

FileKnown(p) ==
  /\ put[p].pc \in Writing => where[JobOf(p)] = "part"
  /\ put[p].pc \in {"sync", "commit"} => cache[CellOf(p)] = put[p].sum
  /\ AtPut(p, "commit") => disk[CellOf(p)] = put[p].sum

PutKnows(p) ==
  ~AtPut(p, "idle") =>
    /\ put[p] \in PutRecords /\ CellOf(p) \in Cells
    /\ ~AtPut(p, "unlock") => ~put[p].ok
    /\ LocksKnown(p) /\ ChunkKnown(p) /\ FileKnown(p)

\* Where the calls that have locked a job, or are about to, can find it
WritersKnow(j) ==
  LET f == writer[<<"finalize", j>>] IN
  /\ f \in {"lock", "locked", "hash"} => state[j] = "FINALIZING"
  /\ f = "probe" => state[j] = "STAGED"
  /\ f \in {"hash", "probe"} => where[j] = "input"
  /\ f # "remove"
  /\ writer[<<"expire", j>>] = "remove" => state[j] = "EXPIRED"

Verified(j) == \A c \in CellsOf(j) : rows[c] # None

\* An upload that is complete.  fail() may take its file before it is queued,
\* and leave its row as it was.
Complete(j) ==
  /\ state[j] \in {"FINALIZING", "STAGED", "QUEUED"} => Verified(j)
  /\ state[j] \in {"STAGED", "QUEUED"} =>
       (j \in Declared => \A c \in CellsOf(j) : rows[c] = Good)
  /\ state[j] = "QUEUED" => where[j] = "input"

JobKnown(j) == WritersKnow(j) /\ Complete(j) /\ (overdue[j] => quiet[j])

Typing == TypeOK /\ received \in [Jobs -> Nat]

IInv ==
  /\ Typing
  /\ \A p \in Puts : PutKnows(p)
  /\ phase = "down" => \A p \in Puts : put[p] = IdlePut
  /\ \A j \in Jobs : JobKnown(j)
  /\ VerifiedDurable /\ CountersAgree

-----------------------------------------------------------------------------
(* Chunks and their number *)

\* A cell is a job and a chunk of it.
LEMMA CellFacts ==
  ASSUME NEW c \in Cells
  PROVE  c[1] \in Jobs /\ c \in CellsOf(c[1])
  BY DEF Cells, CellsOf

\* A job has as many cells as it expects chunks.
LEMMA CellsCounted ==
  ASSUME NEW j \in Jobs
  PROVE  /\ IsFiniteSet(CellsOf(j)) /\ Cardinality(CellsOf(j)) = Expected[j]
         /\ Expected[j] \in Nat \ {0}
<1>1. Expected[j] \in Nat \ {0}
  BY UploadAssumption
<1>2. CellsOf(j) = {j} \X (0 .. Expected[j] - 1)
  BY DEF CellsOf, Cells
<1>3. PICK T : T = 0 .. Expected[j] - 1
  OBVIOUS
<1>4. Expected[j] - 1 \in Int /\ 0 \in Int
  BY <1>1
<1>5. IsFiniteSet(T) /\ Cardinality(T) = IF 0 > Expected[j] - 1 THEN 0 ELSE Expected[j] - 1 - 0 + 1
  BY <1>3, <1>4, FS_Interval, Zenon
<1>6. Cardinality(T) = Expected[j]
  BY <1>1, <1>5
<1>7. IsFiniteSet({j}) /\ Cardinality({j}) = 1
  BY FS_Singleton, Zenon
<1>8. IsFiniteSet({j} \X T) /\ Cardinality({j} \X T) = Cardinality({j}) * Cardinality(T)
  BY <1>5, <1>7, FS_Product, Zenon
<1>9. QED
  BY <1>1, <1>2, <1>3, <1>6, <1>7, <1>8

\* The chunks of a job that have a row
Present(j) == {c \in CellsOf(j) : rows[c] # None}

\* They are as many as expected only if all have one.
LEMMA PresentCounted ==
  ASSUME NEW j \in Jobs
  PROVE  /\ IsFiniteSet(Present(j)) /\ Cardinality(Present(j)) \in 0 .. Expected[j]
         /\ Cardinality(Present(j)) = Expected[j] => Verified(j)
<1>1. Present(j) \in SUBSET CellsOf(j)
  BY DEF Present
<1>2. /\ IsFiniteSet(Present(j)) /\ Cardinality(Present(j)) <= Expected[j]
      /\ Cardinality(Present(j)) = Expected[j] => Present(j) = CellsOf(j)
  BY <1>1, CellsCounted, FS_Subset
<1>3. Cardinality(Present(j)) \in Nat
  BY <1>2, FS_CardinalityType
<1>4. Present(j) = CellsOf(j) => Verified(j)
  BY DEF Present, Verified
<1>5. QED
  BY <1>2, <1>3, <1>4, CellsCounted

-----------------------------------------------------------------------------
(* Steps that leave something alone *)

\* A PUT that moves on changes nothing else of itself, or of the others.
LEMMA PutMoves ==
  ASSUME Typing, NEW p \in Puts, put[p] \in PutRecords,
         NEW l \in {"lock", "unlock"} \cup InHandler, PutTo(p, l)
  PROVE  /\ put' \in [Puts -> PutRecords \cup {IdlePut}] /\ put'[p] \in PutRecords
         /\ put'[p].pc = l /\ put'[p].job = put[p].job /\ put'[p].chunk = put[p].chunk
         /\ put'[p].body = put[p].body /\ put'[p].sum = put[p].sum
         /\ put'[p].locks = put[p].locks /\ put'[p].ok = put[p].ok
         /\ \A q \in Puts \ {p} : put'[q] = put[q]
<1>1. put \in [Puts -> PutRecords \cup {IdlePut}]
  BY DEF Typing, TypeOK
<1>2. PICK r \in PutRecords : r = put[p]
  OBVIOUS
<1>3. PICK s : s = [r EXCEPT !.pc = l]
  OBVIOUS
<1>4. /\ s \in PutRecords /\ s.pc = l /\ s.job = r.job /\ s.chunk = r.chunk /\ s.body = r.body
      /\ s.sum = r.sum /\ s.locks = r.locks /\ s.ok = r.ok
  BY <1>2, <1>3 DEF PutRecords
<1>5. put' = [put EXCEPT ![p] = s]
  BY <1>2, <1>3 DEF PutTo
<1>6. put' \in [Puts -> PutRecords \cup {IdlePut}] /\ put'[p] = s
  BY <1>1, <1>4, <1>5
<1>7. \A q \in Puts \ {p} : put'[q] = put[q]
  BY <1>1, <1>5
<1>8. QED
  BY <1>2, <1>4, <1>6, <1>7

\* A PUT that does not move still knows what it knew, if what it has read
\* and written stays.
LEMMA Bystander ==
  ASSUME NEW p \in Puts, PutKnows(p), put'[p] = put[p],
         AtPut(p, "idle") \/
           /\ p \in life[LifeStripe[JobOf(p)]].readers => p \in life'[LifeStripe[JobOf(p)]].readers
           /\ chunk[ChunkStripe[CellOf(p)]] = p => chunk'[ChunkStripe[CellOf(p)]] = p
           /\ put[p].pc \in Handling => rows'[CellOf(p)] = rows[CellOf(p)]
           /\ put[p].pc \in Storing =>
                /\ state[JobOf(p)] \in Open => state'[JobOf(p)] \in Open
                /\ where'[JobOf(p)] = where[JobOf(p)]
                /\ cache'[CellOf(p)] = cache[CellOf(p)]
                /\ disk'[CellOf(p)] \in {disk[CellOf(p)], cache[CellOf(p)]}
  PROVE  PutKnows(p)'
<1>1. CASE AtPut(p, "idle")
  BY <1>1 DEF PutKnows, AtPut
<1>2. CASE ~AtPut(p, "idle")
  <2>1. CellOf(p)' = CellOf(p) /\ JobOf(p)' = JobOf(p)
    BY DEF CellOf, JobOf
  <2>2. put'[p] \in PutRecords /\ CellOf(p)' \in Cells /\ (~AtPut(p, "unlock")' => ~put'[p].ok)
    BY <1>2, <2>1 DEF PutKnows, AtPut
  <2>3. LocksKnown(p)'
    BY <1>2, <2>1 DEF PutKnows, LocksKnown, AtPut
  <2>4. ChunkKnown(p)'
    BY <1>2, <2>1 DEF PutKnows, ChunkKnown, AtPut, Handling, InHandler, Storing, Writing
  <2>5. FileKnown(p)'
    BY <1>2, <2>1 DEF PutKnows, FileKnown, AtPut, Storing, Writing
  <2>6. QED
    BY <2>2, <2>3, <2>4, <2>5 DEF PutKnows
<1>3. QED
  BY <1>1, <1>2

\* A PUT past its locks keeps them.
LEMMA OneHandler ==
  ASSUME NEW p \in Puts, NEW q \in Puts, PutKnows(p), PutKnows(q),
         put[p].pc \in Handling, put[q].pc \in Handling, CellOf(p) = CellOf(q)
  PROVE  p = q
  BY DEF PutKnows, LocksKnown, AtPut, Handling, InHandler

\* Who writes a job's row or removes its file waits for the PUTs.
LEMMA NoHandler ==
  ASSUME NEW w \in Writers, Holds(w), NEW p \in Puts, PutKnows(p), JobOf(p) = w[2]
  PROVE  put[p].pc \notin Handling
  BY DEF PutKnows, LocksKnown, AtPut, Handling, InHandler, Holds, LockOf

\* Nothing about a job depends on the PUTs and the locks.
LEMMA DataStays ==
  ASSUME Typing, \A j \in Jobs : JobKnown(j), VerifiedDurable, CountersAgree,
         UNCHANGED <<db, files, writer, quiet>>
  PROVE  (\A j \in Jobs : JobKnown(j)') /\ VerifiedDurable' /\ CountersAgree'
<1>1. \A j \in Jobs : JobKnown(j)'
  BY DEF JobKnown, WritersKnow, Complete, Verified, db, files
<1>2. VerifiedDurable'
  BY DEF VerifiedDurable, db, files
<1>3. CountersAgree'
  BY DEF CountersAgree, db, files
<1>4. QED
  BY <1>1, <1>2, <1>3

\* A step of one PUT that changes nothing but itself and its locks
LEMMA PutAlone ==
  ASSUME IInv, NEW p \in Puts, phase = "up",
         UNCHANGED <<db, files, phase, writer, todo, env>>,
         put' \in [Puts -> PutRecords \cup {IdlePut}],
         life' \in [LifeStripes -> [writer : Writers \cup {None}, readers : SUBSET Puts]],
         chunk' \in [ChunkStripes -> Puts \cup {None}],
         \A q \in Puts : PutKnows(q)'
  PROVE  IInv'
<1>1. Typing'
  BY DEF IInv, Typing, TypeOK, db, files, env
<1>2. (\A j \in Jobs : JobKnown(j)') /\ VerifiedDurable' /\ CountersAgree'
  BY DataStays DEF IInv, env
<1>3. phase' = "up"
  OBVIOUS
<1>4. QED
  BY <1>1, <1>2, <1>3 DEF IInv

-----------------------------------------------------------------------------
(* The steps of a PUT *)

\* A PUT at work is a record, the process is up.
LEMMA AtWork ==
  ASSUME IInv, NEW p \in Puts, ~AtPut(p, "idle")
  PROVE  /\ put[p] \in PutRecords /\ CellOf(p) \in Cells /\ JobOf(p) \in Jobs
         /\ CellOf(p)[1] = JobOf(p) /\ PutKnows(p) /\ phase = "up"
         /\ (put[p].pc \notin {"unlock"}) => ~put[p].ok
<1>1. put[p] \in PutRecords /\ CellOf(p) \in Cells /\ PutKnows(p)
  BY DEF IInv, PutKnows
<1>2. JobOf(p) \in Jobs /\ CellOf(p)[1] = JobOf(p)
  BY <1>1 DEF PutRecords, JobOf, CellOf
<1>3. put[p] # IdlePut
  BY DEF AtPut, IdlePut
<1>4. phase = "up"
  BY <1>3 DEF IInv, Typing, TypeOK
<1>5. QED
  BY <1>1, <1>2, <1>4 DEF PutKnows, AtPut

\* A PUT that arrives knows nothing yet.
LEMMA SendStep ==
  ASSUME IInv, NEW p \in Puts, Send(p)
  PROVE  IInv'
<1>1. PICK r \in Requests :
        put' = [put EXCEPT ![p] = [pc |-> "lock", job |-> r.job, chunk |-> r.chunk,
                                   body |-> r.body, sum |-> r.sum,
                                   locks |-> 0, ok |-> FALSE]]
  BY DEF Send
<1>2. /\ <<r.job, r.chunk>> \in Cells /\ r.body \in Contents /\ r.sum \in Contents
      /\ r.job \in Jobs /\ r.chunk \in Nat
  <2>1. <<r.job, r.chunk>> \in Cells /\ r.body \in Contents /\ r.sum \in Contents
    BY UploadAssumption
  <2>2. QED
    BY <2>1, UploadAssumption DEF Cells
<1>3. PICK s \in PutRecords : s = [pc |-> "lock", job |-> r.job, chunk |-> r.chunk,
                                   body |-> r.body, sum |-> r.sum, locks |-> 0, ok |-> FALSE]
  <2>1. PICK s : s = [pc |-> "lock", job |-> r.job, chunk |-> r.chunk,
                      body |-> r.body, sum |-> r.sum, locks |-> 0, ok |-> FALSE]
    OBVIOUS
  <2>2. 0 \in 0 .. Len(LockOrder)
    BY DEF LockOrder
  <2>3. s \in PutRecords
    BY <1>2, <2>1, <2>2 DEF PutRecords
  <2>4. QED
    BY <2>1, <2>3
<1>4. /\ put' \in [Puts -> PutRecords \cup {IdlePut}] /\ put'[p] = s
      /\ \A q \in Puts \ {p} : put'[q] = put[q]
  BY <1>1, <1>3 DEF IInv, Typing, TypeOK
<1>5. PutKnows(p)'
  BY <1>2, <1>3, <1>4 DEF PutKnows, LocksKnown, ChunkKnown, FileKnown, AtPut, CellOf, JobOf,
                          Handling, InHandler, Storing, Writing
<1>6. \A q \in Puts \ {p} : PutKnows(q)'
  BY <1>4, Bystander DEF Send, IInv, db, files
<1>7. QED
  BY <1>4, <1>5, <1>6, PutAlone DEF Send, IInv, Typing, TypeOK

\* A PUT gets the next of its locks.
LEMMA TakeLockStep ==
  ASSUME IInv, NEW p \in Puts, TakeLock(p)
  PROVE  IInv'
<1> DEFINE n == put[p].locks + 1
           s == LifeStripe[JobOf(p)]
           t == ChunkStripe[CellOf(p)]
<1>1. /\ put[p] \in PutRecords /\ CellOf(p) \in Cells /\ JobOf(p) \in Jobs
      /\ PutKnows(p) /\ phase = "up" /\ ~put[p].ok
  BY AtWork DEF TakeLock, AtPut
<1>2. Len(LockOrder) = 2 /\ LockOrder[1] = "lifecycle" /\ LockOrder[2] = "chunk"
  BY DEF LockOrder
<1>3. n \in {1, 2}
  BY <1>1 DEF PutKnows, LocksKnown, TakeLock, AtPut
<1>4. s \in LifeStripes /\ t \in ChunkStripes
  BY <1>1 DEF LifeStripes, ChunkStripes
<1>5. /\ life \in [LifeStripes -> [writer : Writers \cup {None}, readers : SUBSET Puts]]
      /\ chunk \in [ChunkStripes -> Puts \cup {None}]
      /\ put \in [Puts -> PutRecords \cup {IdlePut}]
  BY DEF IInv, Typing, TypeOK
<1>6. PICK l \in {"lookup", "lock"} : /\ l = IF n = 2 THEN "lookup" ELSE "lock"
                                      /\ put' = [put EXCEPT ![p].locks = n, ![p].pc = l]
  BY <1>2 DEF TakeLock
<1>7. PICK r \in PutRecords : r = put[p]
  BY <1>1
<1>8. PICK v : v = [r EXCEPT !.locks = n, !.pc = l]
  OBVIOUS
<1>9. /\ v \in PutRecords /\ v.pc = l /\ v.locks = n /\ v.job = r.job /\ v.chunk = r.chunk
      /\ v.ok = r.ok
  <2>1. n \in 0 .. Len(LockOrder)
    BY <1>2, <1>3
  <2>2. v.pc = l /\ v.locks = n /\ v.job = r.job /\ v.chunk = r.chunk /\ v.ok = r.ok
    BY <1>7, <1>8 DEF PutRecords
  <2>3. v \in PutRecords
    BY <1>7, <1>8, <2>1 DEF PutRecords, InHandler
  <2>4. QED
    BY <2>2, <2>3
<1>10. /\ put' \in [Puts -> PutRecords \cup {IdlePut}] /\ put'[p] = v
       /\ \A q \in Puts \ {p} : put'[q] = put[q]
  BY <1>5, <1>6, <1>7, <1>8, <1>9
<1>11. CellOf(p)' = CellOf(p) /\ JobOf(p)' = JobOf(p)
  BY <1>7, <1>9, <1>10 DEF CellOf, JobOf
<1>12. CASE n = 1
  <2>1. life' = [life EXCEPT ![s].readers = @ \cup {p}] /\ chunk' = chunk
    BY <1>2, <1>12 DEF TakeLock
  <2>2. /\ life' \in [LifeStripes -> [writer : Writers \cup {None}, readers : SUBSET Puts]]
        /\ p \in life'[s].readers
        /\ \A u \in LifeStripes : life[u].readers \subseteq life'[u].readers
    BY <1>4, <1>5, <2>1
  <2>3. PutKnows(p)'
    BY <1>1, <1>6, <1>7, <1>9, <1>10, <1>11, <1>12, <2>2
       DEF PutKnows, LocksKnown, ChunkKnown, FileKnown, AtPut, Handling, InHandler, Storing, Writing
  <2>4. ASSUME NEW q \in Puts \ {p} PROVE PutKnows(q)'
    <3>1. PutKnows(q) /\ put'[q] = put[q]
      BY <1>10 DEF IInv
    <3>2. ~AtPut(q, "idle") => LifeStripe[JobOf(q)] \in LifeStripes
      BY AtWork DEF LifeStripes
    <3>3. QED
      BY <2>1, <2>2, <3>1, <3>2, Bystander DEF TakeLock, db, files
  <2>5. QED
    BY <1>1, <1>5, <1>10, <2>1, <2>2, <2>3, <2>4, PutAlone DEF TakeLock
<1>13. CASE n = 2
  <2>1. chunk' = [chunk EXCEPT ![t] = p] /\ life' = life /\ chunk[t] = None
    BY <1>2, <1>13 DEF TakeLock
  <2>2. /\ chunk' \in [ChunkStripes -> Puts \cup {None}] /\ chunk'[t] = p
        /\ \A u \in ChunkStripes \ {t} : chunk'[u] = chunk[u]
    BY <1>4, <1>5, <2>1
  <2>3. p \in life[s].readers
    BY <1>1, <1>13 DEF PutKnows, LocksKnown, TakeLock, AtPut
  <2>4. PutKnows(p)'
    BY <1>1, <1>6, <1>7, <1>9, <1>10, <1>11, <1>13, <2>1, <2>2, <2>3
       DEF PutKnows, LocksKnown, ChunkKnown, FileKnown, AtPut, Handling, InHandler, Storing, Writing
  <2>5. ASSUME NEW q \in Puts \ {p} PROVE PutKnows(q)'
    <3>1. PutKnows(q) /\ put'[q] = put[q]
      BY <1>10 DEF IInv
    <3>2. ~AtPut(q, "idle") => ChunkStripe[CellOf(q)] \in ChunkStripes
      BY AtWork DEF ChunkStripes
    <3>3. None # q
      BY UploadAssumption
    <3>4. QED
      BY <2>1, <2>2, <3>1, <3>2, <3>3, Bystander DEF TakeLock, db, files
  <2>6. QED
    BY <1>1, <1>5, <1>10, <2>1, <2>2, <2>4, <2>5, PutAlone DEF TakeLock
<1>14. QED
  BY <1>3, <1>12, <1>13

\* What its own move leaves a PUT
LEMMA OwnMove ==
  ASSUME IInv, NEW p \in Puts, ~AtPut(p, "idle"),
         NEW l \in {"unlock"} \cup InHandler, PutTo(p, l), life' = life, chunk' = chunk,
         put[p].pc \in InHandler, ChunkKnown(p)', FileKnown(p)'
  PROVE  PutKnows(p)'
<1>1. put[p] \in PutRecords /\ CellOf(p) \in Cells /\ PutKnows(p) /\ ~put[p].ok
  BY AtWork DEF InHandler
<1>2. /\ put'[p] \in PutRecords /\ put'[p].pc = l /\ put'[p].job = put[p].job
      /\ put'[p].chunk = put[p].chunk /\ put'[p].ok = put[p].ok
  BY <1>1, PutMoves DEF IInv
<1>3. CellOf(p)' = CellOf(p) /\ JobOf(p)' = JobOf(p)
  BY <1>2 DEF CellOf, JobOf
<1>4. LocksKnown(p)'
  BY <1>1, <1>2, <1>3 DEF PutKnows, LocksKnown, AtPut, Handling, InHandler
<1>5. QED
  BY <1>1, <1>2, <1>3, <1>4 DEF PutKnows, AtPut

\* What a PUT reads of the chunk is still so while it has the locks.
LEMMA LookupStep ==
  ASSUME IInv, NEW p \in Puts, Lookup(p)
  PROVE  IInv'
<1>1. put[p] \in PutRecords /\ PutKnows(p) /\ phase = "up" /\ ~put[p].ok /\ ~AtPut(p, "idle")
  BY AtWork DEF Lookup, AtPut
<1>2. PICK l \in {"replay", "open", "unlock"} :
        /\ PutTo(p, l)
        /\ l = "replay" => rows[CellOf(p)] = put[p].sum
        /\ l = "open" => rows[CellOf(p)] = None /\ state[JobOf(p)] \in Open
  BY DEF Lookup
<1>3. /\ put' \in [Puts -> PutRecords \cup {IdlePut}] /\ put'[p].pc = l
      /\ put'[p].job = put[p].job /\ put'[p].chunk = put[p].chunk /\ put'[p].sum = put[p].sum
      /\ put'[p].ok = put[p].ok /\ \A q \in Puts \ {p} : put'[q] = put[q]
  BY <1>1, <1>2, PutMoves DEF IInv, InHandler
<1>4. ChunkKnown(p)' /\ FileKnown(p)'
  BY <1>1, <1>2, <1>3 DEF ChunkKnown, FileKnown, AtPut, CellOf, JobOf, Storing, Writing, Lookup, db
<1>5. PutKnows(p)'
  BY <1>1, <1>2, <1>4, OwnMove DEF Lookup, AtPut, InHandler
<1>6. ASSUME NEW q \in Puts \ {p} PROVE PutKnows(q)'
  BY <1>3, <1>6, Bystander DEF Lookup, IInv, db, files
<1>7. QED
  BY <1>1, <1>3, <1>5, <1>6, PutAlone DEF Lookup, IInv, Typing, TypeOK

\* A PUT that fails leaves the chunk without a row.
LEMMA PutFailsStep ==
  ASSUME IInv, NEW p \in Puts, PutFails(p)
  PROVE  IInv'
<1>1. put[p] \in PutRecords /\ PutKnows(p) /\ phase = "up" /\ ~put[p].ok /\ ~AtPut(p, "idle")
  BY AtWork DEF PutFails, AtPut, InHandler
<1>2. /\ put' \in [Puts -> PutRecords \cup {IdlePut}] /\ put'[p].pc = "unlock"
      /\ put'[p].ok = put[p].ok /\ \A q \in Puts \ {p} : put'[q] = put[q]
  BY <1>1, PutMoves DEF IInv, PutFails
<1>3. ChunkKnown(p)' /\ FileKnown(p)'
  BY <1>1, <1>2 DEF ChunkKnown, FileKnown, AtPut, Storing, Writing
<1>4. PutKnows(p)'
  BY <1>1, <1>3, OwnMove DEF PutFails
<1>5. ASSUME NEW q \in Puts \ {p} PROVE PutKnows(q)'
  BY <1>2, <1>5, Bystander DEF PutFails, IInv, db, files
<1>6. QED
  BY <1>1, <1>2, <1>4, <1>5, PutAlone DEF PutFails, IInv, Typing, TypeOK

\* A PUT gives back its own locks only.
LEMMA UnlockStep ==
  ASSUME IInv, NEW p \in Puts, Unlock(p)
  PROVE  IInv'
<1>1. put[p] \in PutRecords /\ phase = "up" /\ JobOf(p) \in Jobs /\ CellOf(p) \in Cells
  BY AtWork DEF Unlock, AtPut
<1>2. /\ put' \in [Puts -> PutRecords \cup {IdlePut}] /\ put'[p] = IdlePut
      /\ \A q \in Puts \ {p} : put'[q] = put[q]
  BY DEF Unlock, IInv, Typing, TypeOK
<1>3. /\ life \in [LifeStripes -> [writer : Writers \cup {None}, readers : SUBSET Puts]]
      /\ chunk \in [ChunkStripes -> Puts \cup {None}]
  BY DEF IInv, Typing, TypeOK
<1>4. LifeStripe[JobOf(p)] \in LifeStripes /\ ChunkStripe[CellOf(p)] \in ChunkStripes
  BY <1>1 DEF LifeStripes, ChunkStripes
<1>5. /\ life' \in [LifeStripes -> [writer : Writers \cup {None}, readers : SUBSET Puts]]
      /\ \A u \in LifeStripes : life'[u].readers \in {life[u].readers, life[u].readers \ {p}}
  BY <1>3, <1>4 DEF Unlock
<1>6. /\ chunk' \in [ChunkStripes -> Puts \cup {None}]
      /\ \A u \in ChunkStripes : chunk'[u] = chunk[u] \/ chunk[u] = p
  BY <1>3, <1>4 DEF Unlock
<1>7. PutKnows(p)'
  BY <1>2 DEF PutKnows, AtPut, IdlePut
<1>8. ASSUME NEW q \in Puts \ {p} PROVE PutKnows(q)'
  <2>1. PutKnows(q) /\ put'[q] = put[q]
    BY <1>2 DEF IInv
  <2>2. ~AtPut(q, "idle") => /\ LifeStripe[JobOf(q)] \in LifeStripes
                            /\ ChunkStripe[CellOf(q)] \in ChunkStripes
    BY AtWork DEF LifeStripes, ChunkStripes
  <2>3. QED
    BY <1>5, <1>6, <2>1, <2>2, Bystander DEF Unlock, db, files
<1>9. QED
  BY <1>1, <1>2, <1>5, <1>6, <1>7, <1>8, PutAlone DEF Unlock

\* A step of one PUT that changes the file's contents besides
LEMMA FileStep ==
  ASSUME IInv, NEW p \in Puts, phase = "up",
         UNCHANGED <<db, where, phase, writer, todo, life, chunk, env>>,
         put' \in [Puts -> PutRecords \cup {IdlePut}],
         cache' \in [Cells -> Stored], disk' \in [Cells -> Stored],
         VerifiedDurable', \A q \in Puts : PutKnows(q)'
  PROVE  IInv'
<1>1. Typing'
  BY DEF IInv, Typing, TypeOK, db, env
<1>2. \A j \in Jobs : JobKnown(j)'
  BY DEF IInv, JobKnown, WritersKnow, Complete, Verified, db, env
<1>3. CountersAgree'
  BY DEF IInv, CountersAgree, db
<1>4. QED
  BY <1>1, <1>2, <1>3 DEF IInv

\* Two PUTs past their locks are at different chunks.
LEMMA OtherCell ==
  ASSUME IInv, NEW p \in Puts, put[p].pc \in InHandler, NEW q \in Puts \ {p}, put[q].pc \in Handling
  PROVE  CellOf(q) # CellOf(p)
  BY OneHandler DEF IInv, Handling

\* Writing a chunk that has no row
LEMMA WriteStep ==
  ASSUME IInv, NEW p \in Puts, put[p].pc \in {"open", "rest"}, where[JobOf(p)] = "part",
         NEW v \in Stored, Writes(CellOf(p), v), disk' = disk,
         NEW l \in {"rest", "sync", "unlock"}, PutTo(p, l), l = "sync" => v = put[p].sum,
         UNCHANGED <<db, where, disk, phase, writer, todo, life, chunk, env>>
  PROVE  IInv'
<1>1. /\ put[p] \in PutRecords /\ CellOf(p) \in Cells /\ JobOf(p) \in Jobs
      /\ CellOf(p)[1] = JobOf(p) /\ PutKnows(p) /\ phase = "up" /\ ~AtPut(p, "idle") /\ ~put[p].ok
  BY AtWork DEF AtPut
<1>2. cache' = [cache EXCEPT ![CellOf(p)] = v]
  BY <1>1 DEF Writes
<1>3. cache \in [Cells -> Stored]
  BY DEF IInv, Typing, TypeOK
<1>4. /\ cache' \in [Cells -> Stored] /\ cache'[CellOf(p)] = v
      /\ \A c \in Cells \ {CellOf(p)} : cache'[c] = cache[c]
  BY <1>1, <1>2, <1>3
<1>5. rows[CellOf(p)] = None /\ state[JobOf(p)] \in Open
  BY <1>1 DEF PutKnows, ChunkKnown, Storing, Writing
<1>6. VerifiedDurable'
  BY <1>4, <1>5 DEF IInv, VerifiedDurable, db
<1>7. /\ put' \in [Puts -> PutRecords \cup {IdlePut}] /\ put'[p].pc = l
      /\ put'[p].job = put[p].job /\ put'[p].chunk = put[p].chunk /\ put'[p].sum = put[p].sum
      /\ put'[p].ok = put[p].ok /\ \A q \in Puts \ {p} : put'[q] = put[q]
  BY <1>1, PutMoves DEF IInv, InHandler
<1>8. ChunkKnown(p)' /\ FileKnown(p)'
  BY <1>1, <1>4, <1>5, <1>7 DEF ChunkKnown, FileKnown, AtPut, CellOf, JobOf, Storing, Writing, db
<1>9. PutKnows(p)'
  BY <1>1, <1>8, OwnMove DEF InHandler
<1>10. ASSUME NEW q \in Puts \ {p} PROVE PutKnows(q)'
  <2>1. put[q].pc \in Storing => CellOf(q) \in Cells /\ CellOf(q) # CellOf(p)
    BY AtWork, OtherCell DEF Storing, Writing, Handling, InHandler, AtPut
  <2>2. put[q].pc \in Storing => cache'[CellOf(q)] = cache[CellOf(q)]
    BY <1>4, <2>1
  <2>3. QED
    BY <1>7, <2>2, Bystander DEF IInv, db
<1>11. QED
  BY <1>1, <1>4, <1>6, <1>7, <1>9, <1>10, FileStep DEF IInv, Typing, TypeOK

\* A PUT begins to write, or finds no file.
LEMMA OpenPartStep ==
  ASSUME IInv, NEW p \in Puts, OpenPart(p)
  PROVE  IInv'
<1>1. CASE where[JobOf(p)] = "part"
  <2>1. "torn" \in Stored
    BY DEF Stored
  <2>2. QED
    BY <1>1, <2>1, WriteStep DEF OpenPart, AtPut
<1>2. CASE where[JobOf(p)] # "part"
  <2>1. PutTo(p, "unlock") /\ UNCHANGED <<db, files, phase, writer, todo, life, chunk, env>>
    BY <1>2 DEF OpenPart, files
  <2>2. PutFails(p)
    BY <2>1 DEF PutFails, OpenPart, AtPut, InHandler
  <2>3. QED
    BY <2>2, PutFailsStep
<1>3. QED
  BY <1>1, <1>2

\* A PUT has written the whole body.
LEMMA WriteRestStep ==
  ASSUME IInv, NEW p \in Puts, WriteRest(p)
  PROVE  IInv'
<1>1. put[p] \in PutRecords /\ PutKnows(p)
  BY AtWork DEF WriteRest, AtPut
<1>2. put[p].body \in Stored
  BY <1>1 DEF PutRecords, Stored
<1>3. where[JobOf(p)] = "part"
  BY <1>1 DEF PutKnows, FileKnown, WriteRest, AtPut, Writing
<1>4. PICK l \in {"sync", "unlock"} : PutTo(p, l) /\ (l = "sync" => put[p].body = put[p].sum)
  BY DEF WriteRest
<1>5. QED
  BY <1>2, <1>3, <1>4, WriteStep DEF WriteRest, AtPut

\* fdatasync makes durable what every PUT of the file has written.
LEMMA SyncStep ==
  ASSUME IInv, NEW p \in Puts, Sync(p)
  PROVE  IInv'
<1>1. /\ put[p] \in PutRecords /\ CellOf(p) \in Cells /\ JobOf(p) \in Jobs
      /\ CellOf(p)[1] = JobOf(p) /\ PutKnows(p) /\ phase = "up" /\ ~AtPut(p, "idle") /\ ~put[p].ok
  BY AtWork DEF Sync, AtPut
<1>2. cache \in [Cells -> Stored] /\ disk \in [Cells -> Stored]
  BY DEF IInv, Typing, TypeOK
<1>3. /\ disk' \in [Cells -> Stored] /\ disk'[CellOf(p)] = cache[CellOf(p)]
      /\ \A c \in Cells : disk'[c] \in {disk[c], cache[c]}
  BY <1>1, <1>2 DEF Sync
<1>4. VerifiedDurable'
  BY <1>3 DEF IInv, VerifiedDurable, Sync, db
<1>5. /\ put' \in [Puts -> PutRecords \cup {IdlePut}] /\ put'[p].pc = "commit"
      /\ put'[p].job = put[p].job /\ put'[p].chunk = put[p].chunk /\ put'[p].sum = put[p].sum
      /\ put'[p].ok = put[p].ok /\ \A q \in Puts \ {p} : put'[q] = put[q]
  BY <1>1, PutMoves DEF IInv, InHandler, Sync
<1>6. /\ cache[CellOf(p)] = put[p].sum /\ where[JobOf(p)] = "part"
      /\ rows[CellOf(p)] = None /\ state[JobOf(p)] \in Open
  BY <1>1 DEF PutKnows, FileKnown, ChunkKnown, Sync, AtPut, Storing, Writing
<1>7. ChunkKnown(p)' /\ FileKnown(p)'
  BY <1>1, <1>3, <1>5, <1>6
     DEF ChunkKnown, FileKnown, AtPut, CellOf, JobOf, Storing, Writing, Sync, db
<1>8. PutKnows(p)'
  BY <1>1, <1>7, OwnMove DEF InHandler, Sync, AtPut
<1>9. ASSUME NEW q \in Puts \ {p} PROVE PutKnows(q)'
  <2>1. put[q].pc \in Storing => CellOf(q) \in Cells
    BY AtWork DEF Storing, Writing, AtPut
  <2>2. QED
    BY <1>3, <1>5, <2>1, Bystander DEF IInv, Sync, db
<1>10. QED
  BY <1>1, <1>2, <1>3, <1>4, <1>5, <1>8, <1>9, FileStep DEF Sync

\* The answer is 200.
LEMMA Accepts ==
  ASSUME IInv, NEW p \in Puts, put[p].pc \in {"replay", "commit"}, Accept(p),
         life' = life, chunk' = chunk, rows'[CellOf(p)] = put[p].sum
  PROVE  /\ put' \in [Puts -> PutRecords \cup {IdlePut}] /\ PutKnows(p)'
         /\ \A q \in Puts \ {p} : put'[q] = put[q]
<1>1. put[p] \in PutRecords /\ CellOf(p) \in Cells /\ PutKnows(p)
  BY AtWork DEF AtPut
<1>2. PICK r \in PutRecords : r = put[p]
  BY <1>1
<1>3. PICK v : v = [r EXCEPT !.pc = "unlock", !.ok = TRUE]
  OBVIOUS
<1>4. /\ v \in PutRecords /\ v.pc = "unlock" /\ v.job = r.job /\ v.chunk = r.chunk
      /\ v.sum = r.sum
  BY <1>2, <1>3 DEF PutRecords
<1>5. /\ put' \in [Puts -> PutRecords \cup {IdlePut}] /\ put'[p] = v
      /\ \A q \in Puts \ {p} : put'[q] = put[q]
  <2>1. put' = [put EXCEPT ![p] = v]
    BY <1>2, <1>3 DEF Accept
  <2>2. QED
    BY <1>4, <2>1 DEF IInv, Typing, TypeOK
<1>6. CellOf(p)' = CellOf(p) /\ JobOf(p)' = JobOf(p)
  BY <1>2, <1>4, <1>5 DEF CellOf, JobOf
<1>7. LocksKnown(p)'
  BY <1>1, <1>2, <1>4, <1>5, <1>6 DEF PutKnows, LocksKnown, AtPut, Handling, InHandler
<1>8. ChunkKnown(p)' /\ FileKnown(p)'
  BY <1>2, <1>4, <1>5, <1>6 DEF ChunkKnown, FileKnown, AtPut, Storing, Writing
<1>9. PutKnows(p)'
  BY <1>1, <1>4, <1>5, <1>6, <1>7, <1>8 DEF PutKnows, AtPut
<1>10. QED
  BY <1>5, <1>9

\* A repeated chunk changes no more than the deadline.
LEMMA ReplayStep ==
  ASSUME IInv, NEW p \in Puts, Replay(p)
  PROVE  IInv'
<1>1. PutKnows(p) /\ phase = "up" /\ JobOf(p) \in Jobs /\ rows[CellOf(p)] = put[p].sum
  BY AtWork DEF Replay, AtPut, PutKnows, ChunkKnown
<1>2. /\ put' \in [Puts -> PutRecords \cup {IdlePut}] /\ PutKnows(p)'
      /\ \A q \in Puts \ {p} : put'[q] = put[q]
  BY <1>1, Accepts DEF Replay, AtPut
<1>3. ASSUME NEW q \in Puts \ {p} PROVE PutKnows(q)'
  BY <1>2, <1>3, Bystander DEF IInv, Replay, files
<1>4. /\ overdue' \in [Jobs -> BOOLEAN] /\ quiet' \in [Jobs -> BOOLEAN]
      /\ \A j \in Jobs : overdue'[j] => quiet'[j]
  <2>1. /\ overdue \in [Jobs -> BOOLEAN] /\ quiet \in [Jobs -> BOOLEAN]
        /\ \A j \in Jobs : overdue[j] => quiet[j]
    BY DEF IInv, Typing, TypeOK, JobKnown
  <2>2. \/ overdue' = [overdue EXCEPT ![JobOf(p)] = FALSE] /\ quiet' = [quiet EXCEPT ![JobOf(p)] = FALSE]
        \/ overdue' = overdue /\ quiet' = quiet
    BY DEF Replay, Extend
  <2>3. QED
    BY <1>1, <2>1, <2>2
<1>5. Typing'
  BY <1>2, <1>4 DEF IInv, Typing, TypeOK, Replay, files
<1>6. \A j \in Jobs : JobKnown(j)'
  BY <1>4 DEF IInv, JobKnown, WritersKnow, Complete, Verified, Replay, files
<1>7. VerifiedDurable' /\ CountersAgree'
  BY DEF IInv, VerifiedDurable, CountersAgree, Replay, files
<1>8. QED
  BY <1>1, <1>2, <1>3, <1>5, <1>6, <1>7 DEF IInv, Replay

\* The row is that of a durable chunk, and is counted once.
LEMMA CommitStep ==
  ASSUME IInv, NEW p \in Puts, Commit(p)
  PROVE  IInv'
<1> DEFINE j == JobOf(p)
           c == CellOf(p)
<1>1. /\ put[p] \in PutRecords /\ c \in Cells /\ j \in Jobs /\ c[1] = j
      /\ PutKnows(p) /\ phase = "up"
  BY AtWork DEF Commit, AtPut
<1>2. cache[c] = put[p].sum /\ disk[c] = put[p].sum /\ state[j] \in Open /\ rows[c] = None
  BY <1>1 DEF PutKnows, FileKnown, ChunkKnown, Commit, AtPut, Storing, Writing
<1>3. put[p].sum \in Contents /\ put[p].sum # None
  BY <1>1, UploadAssumption DEF PutRecords
<1>4. /\ rows' = [rows EXCEPT ![c] = put[p].sum]
      /\ state' = [state EXCEPT ![j] = "UPLOADING"]
      /\ received' = [received EXCEPT ![j] = @ + 1]
      /\ overdue' = [overdue EXCEPT ![j] = FALSE] /\ quiet' = [quiet EXCEPT ![j] = FALSE]
      /\ Accept(p)
  BY <1>2 DEF Commit, Extend
<1>5. /\ rows \in [Cells -> Contents \cup {None}] /\ received \in [Jobs -> Nat]
      /\ state \in [Jobs -> Open \cup Terminal \cup {"FINALIZING", "STAGED", "QUEUED"}]
      /\ overdue \in [Jobs -> BOOLEAN] /\ quiet \in [Jobs -> BOOLEAN]
  BY DEF IInv, Typing, TypeOK
<1>6. /\ rows' \in [Cells -> Contents \cup {None}] /\ rows'[c] = put[p].sum
      /\ \A d \in Cells \ {c} : rows'[d] = rows[d]
  BY <1>1, <1>3, <1>4, <1>5
<1>7. /\ state' \in [Jobs -> Open \cup Terminal \cup {"FINALIZING", "STAGED", "QUEUED"}]
      /\ state'[j] = "UPLOADING" /\ \A k \in Jobs \ {j} : state'[k] = state[k]
  BY <1>1, <1>4, <1>5 DEF Open
<1>8. /\ overdue' \in [Jobs -> BOOLEAN] /\ quiet' \in [Jobs -> BOOLEAN] /\ ~overdue'[j]
      /\ \A k \in Jobs \ {j} : overdue'[k] = overdue[k] /\ quiet'[k] = quiet[k]
  BY <1>1, <1>4, <1>5
<1>9. /\ received' \in [Jobs -> Nat] /\ received'[j] = received[j] + 1
      /\ \A k \in Jobs \ {j} : received'[k] = received[k]
  BY <1>1, <1>4, <1>5
<1>10. received[j] = Cardinality(Present(j))
  BY <1>1, <1>2 DEF IInv, CountersAgree, Present, Open, Terminal
<1>11. c \in CellsOf(j) /\ c \notin Present(j) /\ ~Verified(j)
  BY <1>1, <1>2 DEF CellsOf, Present, Verified
<1>12. received'[j] \in 0 .. Expected[j]
  BY <1>1, <1>9, <1>10, <1>11, PresentCounted, CellsCounted
<1>13. CountersAgree'
  <2>1. {d \in CellsOf(j) : rows'[d] # None} = Present(j) \cup {c}
    BY <1>3, <1>6, <1>11 DEF Present, CellsOf
  <2>2. Cardinality(Present(j) \cup {c}) = Cardinality(Present(j)) + 1
    BY <1>1, <1>11, PresentCounted, FS_AddElement
  <2>3. received'[j] = Cardinality({d \in CellsOf(j) : rows'[d] # None})
    BY <1>9, <1>10, <2>1, <2>2
  <2>4. ASSUME NEW k \in Jobs \ {j}
        PROVE {d \in CellsOf(k) : rows'[d] # None} = {d \in CellsOf(k) : rows[d] # None}
    BY <1>1, <1>6 DEF CellsOf
  <2>5. QED
    BY <1>7, <1>9, <2>3, <2>4 DEF IInv, CountersAgree
<1>14. VerifiedDurable'
  BY <1>2, <1>6 DEF IInv, VerifiedDurable, Commit, files
<1>15. /\ put' \in [Puts -> PutRecords \cup {IdlePut}] /\ PutKnows(p)'
       /\ \A q \in Puts \ {p} : put'[q] = put[q]
  BY <1>4, <1>6, Accepts DEF Commit, AtPut
<1>16. ASSUME NEW q \in Puts \ {p} PROVE PutKnows(q)'
  <2>1. put[q].pc \in Handling => CellOf(q) \in Cells /\ CellOf(q) # c /\ JobOf(q) \in Jobs
    BY AtWork, OtherCell DEF Commit, Handling, InHandler, AtPut
  <2>2. put[q].pc \in Handling => rows'[CellOf(q)] = rows[CellOf(q)]
    BY <1>6, <2>1
  <2>3. put[q].pc \in Storing => (state[JobOf(q)] \in Open => state'[JobOf(q)] \in Open)
    BY <1>7, <2>1 DEF Storing, Writing, Handling, InHandler, Open
  <2>4. QED
    BY <1>15, <2>2, <2>3, Bystander DEF IInv, Commit, files
<1>17. \A k \in Jobs : JobKnown(k)'
  <2>1. ASSUME NEW k \in Jobs, k = j PROVE JobKnown(k)'
    BY <1>1, <1>2, <1>7, <1>8, <2>1 DEF IInv, JobKnown, WritersKnow, Complete, Open, Commit, files
  <2>2. ASSUME NEW k \in Jobs \ {j} PROVE JobKnown(k)'
    <3>1. \A d \in CellsOf(k) : rows'[d] = rows[d]
      BY <1>1, <1>6 DEF CellsOf
    <3>2. QED
      BY <1>7, <1>8, <3>1 DEF IInv, JobKnown, WritersKnow, Complete, Verified, Commit, files
  <2>3. QED
    BY <2>1, <2>2
<1>18. Typing'
  <2>1. \A k \in Jobs : received'[k] \in 0 .. Expected[k]
    BY <1>9, <1>12 DEF IInv, Typing, TypeOK
  <2>2. QED
    BY <1>6, <1>7, <1>8, <1>9, <1>15, <2>1 DEF IInv, Typing, TypeOK, Commit, files
<1>19. QED
  BY <1>1, <1>13, <1>14, <1>15, <1>16, <1>17, <1>18 DEF IInv, Commit

-----------------------------------------------------------------------------
(* The steps of complete, finalize and expireUploads *)

\* A step of a call that holds no PUT up: the PUTs, their locks and the
\* chunks stay.
LEMMA CallStep ==
  ASSUME IInv,
         UNCHANGED <<rows, received, cache, disk, phase, put, chunk, crashes>>,
         state' \in [Jobs -> Open \cup Terminal \cup {"FINALIZING", "STAGED", "QUEUED"}],
         overdue' \in [Jobs -> BOOLEAN], quiet' \in [Jobs -> BOOLEAN],
         where' \in [Jobs -> {"part", "input", "none"}],
         writer' \in [Writers -> {"idle", "lock", "locked", "hash", "probe", "remove"}],
         todo' \subseteq Jobs,
         life' \in [LifeStripes -> [writer : Writers \cup {None}, readers : SUBSET Puts]],
         \A s \in LifeStripes : life'[s].readers = life[s].readers,
         \A p \in Puts : put[p].pc \in Storing =>
            /\ state[JobOf(p)] \in Open => state'[JobOf(p)] \in Open
            /\ where'[JobOf(p)] = where[JobOf(p)],
         \A j \in Jobs : JobKnown(j)',
         \A j \in Jobs : where[j] = "none" => where'[j] = "none",
         \A j \in Jobs : state[j] \in Terminal => state'[j] \in Terminal
  PROVE  IInv'
<1>1. Typing'
  BY DEF IInv, Typing, TypeOK
<1>2. VerifiedDurable'
  BY CellFacts DEF IInv, VerifiedDurable
<1>3. CountersAgree'
  <2>1. ASSUME NEW j \in Jobs, state'[j] \notin Terminal
        PROVE  received[j] = Cardinality({c \in CellsOf(j) : rows[c] # None})
    <3>1. state[j] \notin Terminal
      BY <2>1
    <3>2. QED
      BY <3>1 DEF IInv, CountersAgree
  <2>2. rows' = rows /\ received' = received
    OBVIOUS
  <2>3. ASSUME NEW j \in Jobs, state'[j] \notin Terminal
        PROVE  received'[j] = Cardinality({c \in CellsOf(j) : rows'[c] # None})
    <3>1. {c \in CellsOf(j) : rows'[c] # None} = {c \in CellsOf(j) : rows[c] # None}
      BY <2>2
    <3>2. received'[j] = received[j]
      BY <2>2
    <3>3. received[j] = Cardinality({c \in CellsOf(j) : rows[c] # None})
      BY <2>1, <2>3
    <3>4. QED
      BY <3>1, <3>2, <3>3
  <2>4. QED
    BY <2>3, Zenon DEF CountersAgree, Terminal
<1>4. ASSUME NEW p \in Puts PROVE PutKnows(p)'
  <2>1. ~AtPut(p, "idle") => LifeStripe[JobOf(p)] \in LifeStripes
    BY AtWork DEF LifeStripes
  <2>2. QED
    BY <2>1, Bystander DEF IInv
<1>5. QED
  BY <1>1, <1>2, <1>3, <1>4 DEF IInv

\* The stripe of a call is a stripe.
LEMMA StripeOfCall ==
  ASSUME NEW w \in Writers
  PROVE  LockOf(w) \in LifeStripes /\ w[2] \in Jobs
  BY DEF Writers, LockOf, LifeStripes

\* Giving the lifecycle lock back
LEMMA Releases ==
  ASSUME Typing, NEW w \in Writers, Release(w)
  PROVE  /\ life' \in [LifeStripes -> [writer : Writers \cup {None}, readers : SUBSET Puts]]
         /\ \A s \in LifeStripes : life'[s].readers = life[s].readers
  BY StripeOfCall DEF Typing, TypeOK, Release

\* The calls are different calls.
LEMMA CallsDiffer ==
  ASSUME NEW j \in Jobs
  PROVE  /\ <<"complete", j>> \in Writers /\ <<"finalize", j>> \in Writers
         /\ <<"expire", j>> \in Writers
         /\ <<"complete", j>>[2] = j /\ <<"finalize", j>>[2] = j /\ <<"expire", j>>[2] = j
         /\ \A k \in Jobs : /\ <<"complete", j>> # <<"finalize", k>>
                            /\ <<"complete", j>> # <<"expire", k>>
                            /\ <<"finalize", j>> # <<"expire", k>>
                            /\ <<"finalize", j>> = <<"finalize", k>> => j = k
                            /\ <<"expire", j>> = <<"expire", k>> => j = k
  BY DEF Writers

\* A call waits for its lock, and gets it.
LEMMA AnnounceStep ==
  ASSUME IInv, NEW w \in Writers, Announce(w)
  PROVE  IInv'
<1>1. LockOf(w) \in LifeStripes
  BY StripeOfCall
<1>2. /\ life' \in [LifeStripes -> [writer : Writers \cup {None}, readers : SUBSET Puts]]
      /\ \A s \in LifeStripes : life'[s].readers = life[s].readers
  BY <1>1 DEF Announce, IInv, Typing, TypeOK
<1>3. /\ writer' \in [Writers -> {"idle", "lock", "locked", "hash", "probe", "remove"}]
      /\ \A v \in Writers : writer'[v] = writer[v] \/ (writer[v] = "lock" /\ writer'[v] = "locked")
  BY DEF Announce, WriterTo, At, IInv, Typing, TypeOK
<1>4. ASSUME NEW j \in Jobs PROVE JobKnown(j)'
  <2>1. PICK f, e : f = writer[<<"finalize", j>>] /\ e = writer[<<"expire", j>>]
    OBVIOUS
  <2>2. /\ writer'[<<"finalize", j>>] = f \/ (f = "lock" /\ writer'[<<"finalize", j>>] = "locked")
        /\ writer'[<<"expire", j>>] = e \/ writer'[<<"expire", j>>] = "locked"
    BY <1>3, <2>1, CallsDiffer
  <2>3. WritersKnow(j)'
    BY <2>1, <2>2 DEF IInv, JobKnown, WritersKnow, Announce, db, files
  <2>4. QED
    BY <2>3 DEF IInv, JobKnown, Complete, Verified, Announce, db, files, env
<1>5. QED
  BY <1>2, <1>3, <1>4, CallStep DEF Announce, db, files, env, IInv, Typing, TypeOK

\* A client asks for completion.
LEMMA CallCompleteStep ==
  ASSUME IInv, NEW j \in Jobs, CallComplete(j)
  PROVE  IInv'
<1>1. /\ writer' \in [Writers -> {"idle", "lock", "locked", "hash", "probe", "remove"}]
      /\ \A k \in Jobs : /\ writer'[<<"finalize", k>>] = writer[<<"finalize", k>>]
                         /\ writer'[<<"expire", k>>] = writer[<<"expire", k>>]
  BY CallsDiffer DEF CallComplete, WriterTo, IInv, Typing, TypeOK
<1>2. ASSUME NEW k \in Jobs PROVE JobKnown(k)'
  BY <1>1 DEF IInv, JobKnown, WritersKnow, Complete, Verified, CallComplete, db, files, env
<1>3. QED
  BY <1>1, <1>2, CallStep DEF CallComplete, db, files, env, IInv, Typing, TypeOK

\* An upload starts to be finalised only when every chunk has a row.
LEMMA CompleteTxStep ==
  ASSUME IInv, NEW j \in Jobs, CompleteTx(j)
  PROVE  IInv'
<1>1. <<"complete", j>> \in Writers /\ Holds(<<"complete", j>>) /\ Release(<<"complete", j>>)
  BY CallsDiffer DEF CompleteTx
<1>2. /\ life' \in [LifeStripes -> [writer : Writers \cup {None}, readers : SUBSET Puts]]
      /\ \A s \in LifeStripes : life'[s].readers = life[s].readers
  BY <1>1, Releases DEF IInv
<1>3. CASE writer' = [writer EXCEPT ![<<"complete", j>>] = "idle"] /\ UNCHANGED <<state, overdue>>
  <2>1. /\ writer' \in [Writers -> {"idle", "lock", "locked", "hash", "probe", "remove"}]
        /\ \A k \in Jobs : /\ writer'[<<"finalize", k>>] = writer[<<"finalize", k>>]
                           /\ writer'[<<"expire", k>>] = writer[<<"expire", k>>]
    BY <1>3, CallsDiffer DEF IInv, Typing, TypeOK
  <2>2. ASSUME NEW k \in Jobs PROVE JobKnown(k)'
    BY <1>3, <2>1 DEF IInv, JobKnown, WritersKnow, Complete, Verified, CompleteTx, files, env
  <2>3. QED
    BY <1>2, <1>3, <2>1, <2>2, CallStep DEF CompleteTx, files, env, IInv, Typing, TypeOK
<1>4. CASE /\ state[j] \in Open /\ AllReceived(j)
           /\ state' = [state EXCEPT ![j] = "FINALIZING"]
           /\ overdue' = [overdue EXCEPT ![j] = FALSE]
           /\ writer' = [writer EXCEPT ![<<"complete", j>>] = "idle", ![<<"finalize", j>>] = "lock"]
  <2>1. /\ writer' \in [Writers -> {"idle", "lock", "locked", "hash", "probe", "remove"}]
        /\ writer'[<<"finalize", j>>] = "lock"
        /\ \A k \in Jobs : /\ k # j => writer'[<<"finalize", k>>] = writer[<<"finalize", k>>]
                           /\ writer'[<<"expire", k>>] = writer[<<"expire", k>>]
    BY <1>4, CallsDiffer DEF IInv, Typing, TypeOK
  <2>2. /\ state' \in [Jobs -> Open \cup Terminal \cup {"FINALIZING", "STAGED", "QUEUED"}]
        /\ state'[j] = "FINALIZING" /\ \A k \in Jobs \ {j} : state'[k] = state[k]
    BY <1>4 DEF IInv, Typing, TypeOK
  <2>3. /\ overdue' \in [Jobs -> BOOLEAN] /\ ~overdue'[j]
        /\ \A k \in Jobs \ {j} : overdue'[k] = overdue[k]
    BY <1>4 DEF IInv, Typing, TypeOK
  <2>4. Verified(j)
    <3>1. received[j] = Cardinality(Present(j))
      BY <1>4 DEF IInv, CountersAgree, Present, Open, Terminal
    <3>2. QED
      BY <1>4, <3>1, PresentCounted DEF AllReceived
  <2>5. JobKnown(j)'
    <3>1. rows' = rows /\ where' = where
      BY DEF CompleteTx, files
    <3>2. Complete(j)'
      BY <2>2, <2>4, <3>1 DEF Complete, Verified
    <3>3. writer[<<"expire", j>>] # "remove"
      BY <1>4 DEF IInv, JobKnown, WritersKnow, Open
    <3>4. WritersKnow(j)'
      BY <2>1, <2>2, <3>3 DEF WritersKnow
    <3>5. QED
      BY <2>3, <3>2, <3>4 DEF JobKnown
  <2>6. ASSUME NEW k \in Jobs \ {j} PROVE JobKnown(k)'
    BY <2>1, <2>2, <2>3
       DEF IInv, JobKnown, WritersKnow, Complete, Verified, CompleteTx, files, env
  <2>7. ASSUME NEW p \in Puts, put[p].pc \in Storing PROVE JobOf(p) \in Jobs \ {j}
    BY <1>1, <2>7, AtWork, NoHandler, CallsDiffer
       DEF Storing, Writing, Handling, InHandler, AtPut
  <2>8. QED
    BY <1>2, <1>4, <2>1, <2>2, <2>3, <2>5, <2>6, <2>7, CallStep
       DEF CompleteTx, files, env, IInv, Typing, TypeOK, Open, Terminal
<1>5. QED
  BY <1>3, <1>4 DEF CompleteTx, WriterTo

\* A job is given up by finalize or by the sweep: its directory is removed and
\* its row updated, unless either fails.
LEMMA RemoveStep ==
  ASSUME IInv, NEW j \in Jobs, NEW w \in Writers, CleanUp(j),
         writer' = [writer EXCEPT ![w] = "idle"], Release(w),
         UNCHANGED <<rows, received, overdue, phase, put, todo, chunk, env>>,
         \/ /\ w = <<"finalize", j>> /\ state[j] \in {"FINALIZING", "STAGED"}
            /\ state' = [state EXCEPT ![j] = "FAILED"] \/ UNCHANGED state
         \/ w = <<"expire", j>> /\ state[j] = "EXPIRED" /\ state' = state
  PROVE  IInv'
<1>1. /\ life' \in [LifeStripes -> [writer : Writers \cup {None}, readers : SUBSET Puts]]
      /\ \A s \in LifeStripes : life'[s].readers = life[s].readers
  BY Releases DEF IInv
<1>2. /\ state' \in [Jobs -> Open \cup Terminal \cup {"FINALIZING", "STAGED", "QUEUED"}]
      /\ state[j] \notin Open \cup {"QUEUED"} /\ state'[j] \in Terminal \cup {state[j]}
      /\ \A k \in Jobs \ {j} : state'[k] = state[k]
  BY DEF IInv, Typing, TypeOK, Open, Terminal
<1>3. /\ where' \in [Jobs -> {"part", "input", "none"}] /\ where'[j] \in {"none", where[j]}
      /\ \A k \in Jobs \ {j} : where'[k] = where[k]
  BY DEF CleanUp, RemoveDir, files, IInv, Typing, TypeOK
<1>4. "zero" \in Stored
  BY DEF Stored
<1>5. /\ cache' \in [Cells -> Stored] /\ disk' \in [Cells -> Stored]
      /\ \A c \in Cells : c[1] # j \/ where'[j] # "none" =>
                           cache'[c] = cache[c] /\ disk'[c] = disk[c]
  BY <1>4 DEF CleanUp, RemoveDir, files, IInv, Typing, TypeOK
<1>6. /\ writer' \in [Writers -> {"idle", "lock", "locked", "hash", "probe", "remove"}]
      /\ writer'[w] = "idle" /\ \A v \in Writers \ {w} : writer'[v] = writer[v]
  BY DEF IInv, Typing, TypeOK
<1>7. Typing'
  BY <1>1, <1>2, <1>3, <1>5, <1>6 DEF IInv, Typing, TypeOK, env
<1>8. VerifiedDurable'
  BY <1>3, <1>5, CellFacts DEF IInv, VerifiedDurable
<1>9. CountersAgree'
  <2>1. rows' = rows /\ received' = received
    OBVIOUS
  <2>2. ASSUME NEW k \in Jobs, state'[k] \notin Terminal
        PROVE  received'[k] = Cardinality({c \in CellsOf(k) : rows'[c] # None})
    <3>1. {c \in CellsOf(k) : rows'[c] # None} = {c \in CellsOf(k) : rows[c] # None}
      BY <2>1
    <3>2. state[k] \notin Terminal
      BY <1>2, <2>2
    <3>3. received[k] = Cardinality({c \in CellsOf(k) : rows[c] # None})
      BY <3>2 DEF IInv, CountersAgree
    <3>4. received'[k] = received[k]
      BY <2>1
    <3>5. QED
      BY <3>1, <3>3, <3>4
  <2>3. QED
    BY <2>2, Zenon DEF CountersAgree, Terminal
<1>10. ASSUME NEW p \in Puts PROVE PutKnows(p)'
  <2>1. ~AtPut(p, "idle") => /\ LifeStripe[JobOf(p)] \in LifeStripes /\ JobOf(p) \in Jobs
                            /\ CellOf(p) \in Cells /\ CellOf(p)[1] = JobOf(p)
    BY AtWork DEF LifeStripes
  <2>2. PutKnows(p) /\ put'[p] = put[p]
    BY DEF IInv
  <2>3. put[p].pc \in Storing => ~AtPut(p, "idle") /\ JobOf(p) # j
    BY <1>2, <2>2 DEF PutKnows, ChunkKnown, Storing, Writing, AtPut
  <2>4. put[p].pc \in Storing => /\ state'[JobOf(p)] = state[JobOf(p)]
                                 /\ where'[JobOf(p)] = where[JobOf(p)]
                                 /\ cache'[CellOf(p)] = cache[CellOf(p)]
                                 /\ disk'[CellOf(p)] = disk[CellOf(p)]
    BY <1>2, <1>3, <1>5, <2>1, <2>3
  <2>5. QED
    BY <1>1, <2>1, <2>2, <2>4, Bystander
<1>11. ASSUME NEW k \in Jobs \ {j} PROVE JobKnown(k)'
  <2>1. /\ writer'[<<"finalize", k>>] = writer[<<"finalize", k>>]
        /\ writer'[<<"expire", k>>] = writer[<<"expire", k>>]
    BY <1>6, CallsDiffer
  <2>2. QED
    BY <1>2, <1>3, <2>1 DEF IInv, JobKnown, WritersKnow, Complete, Verified, env
<1>12. JobKnown(j)'
  <2>1. Complete(j)'
    BY <1>2 DEF IInv, JobKnown, Complete, Verified, Terminal
  <2>2. WritersKnow(j)'
    <3>1. /\ writer'[<<"finalize", j>>] = "idle"
          /\ writer'[<<"expire", j>>] = "remove" => state'[j] = "EXPIRED"
      <4>1. CASE w = <<"finalize", j>>
        BY <1>6, <4>1, CallsDiffer DEF IInv, JobKnown, WritersKnow
      <4>2. CASE w = <<"expire", j>>
        <5>1. writer[<<"finalize", j>>] \notin {"lock", "locked", "hash", "probe", "remove"}
          BY <4>2, CallsDiffer DEF IInv, JobKnown, WritersKnow
        <5>2. PICK v \in Writers : v = <<"finalize", j>>
          BY CallsDiffer
        <5>3. writer[v] \in {"idle", "lock", "locked", "hash", "probe", "remove"}
          BY DEF IInv, Typing, TypeOK
        <5>4. writer'[v] = writer[v] /\ state'[j] = "EXPIRED"
          BY <1>6, <4>2, <5>2, CallsDiffer
        <5>5. QED
          BY <5>1, <5>2, <5>3, <5>4
      <4>3. QED
        BY <4>1, <4>2
    <3>2. QED
      BY <3>1 DEF WritersKnow
  <2>3. overdue'[j] => quiet'[j]
    BY DEF IInv, JobKnown, env
  <2>4. QED
    BY <2>1, <2>2, <2>3 DEF JobKnown
<1>13. QED
  BY <1>7, <1>8, <1>9, <1>10, <1>11, <1>12 DEF IInv

\* The steps of finalize on its way, of a job nobody else touches
LEMMA FinalizeOn ==
  ASSUME IInv, NEW j \in Jobs, At(<<"finalize", j>>, "locked") \/ At(<<"finalize", j>>, "hash")
                               \/ At(<<"finalize", j>>, "probe"),
         NEW l \in {"idle", "hash", "probe"}, WriterTo(<<"finalize", j>>, l),
         NEW s \in {"FINALIZING", "STAGED", "QUEUED"}, state' = [state EXCEPT ![j] = s],
         NEW f \in {"part", "input", "none"}, where' = [where EXCEPT ![j] = f],
         where[j] = "none" => f = "none",
         life' = life \/ Release(<<"finalize", j>>),
         UNCHANGED <<rows, received, overdue, cache, disk, phase, put, todo, chunk, env>>,
         l \in {"hash", "probe"} => f = "input",
         l = "hash" => s = "FINALIZING",
         l = "probe" => s = "STAGED",
         s = "QUEUED" => f = "input",
         s \in {"STAGED", "QUEUED"} =>
           (j \in Declared => \A c \in CellsOf(j) : rows[c] = Good)
  PROVE  IInv'
<1>1. /\ life' \in [LifeStripes -> [writer : Writers \cup {None}, readers : SUBSET Puts]]
      /\ \A u \in LifeStripes : life'[u].readers = life[u].readers
  <2>1. CASE life' = life
    BY <2>1 DEF IInv, Typing, TypeOK
  <2>2. CASE Release(<<"finalize", j>>)
    BY <2>2, Releases, CallsDiffer DEF IInv
  <2>3. QED
    BY <2>1, <2>2
<1>2. state[j] \in {"FINALIZING", "STAGED"}
  BY DEF IInv, JobKnown, WritersKnow, At
<1>3. /\ state' \in [Jobs -> Open \cup Terminal \cup {"FINALIZING", "STAGED", "QUEUED"}]
      /\ state'[j] = s /\ \A k \in Jobs \ {j} : state'[k] = state[k]
  BY DEF IInv, Typing, TypeOK
<1>4. /\ where' \in [Jobs -> {"part", "input", "none"}] /\ where'[j] = f
      /\ \A k \in Jobs \ {j} : where'[k] = where[k]
  BY DEF IInv, Typing, TypeOK
<1>5. /\ writer' \in [Writers -> {"idle", "lock", "locked", "hash", "probe", "remove"}]
      /\ writer'[<<"finalize", j>>] = l
      /\ \A v \in Writers \ {<<"finalize", j>>} : writer'[v] = writer[v]
  BY CallsDiffer DEF WriterTo, IInv, Typing, TypeOK
<1>6. ASSUME NEW k \in Jobs \ {j} PROVE JobKnown(k)'
  <2>1. /\ writer'[<<"finalize", k>>] = writer[<<"finalize", k>>]
        /\ writer'[<<"expire", k>>] = writer[<<"expire", k>>]
    BY <1>5, CallsDiffer
  <2>2. QED
    BY <1>3, <1>4, <2>1 DEF IInv, JobKnown, WritersKnow, Complete, Verified, env
<1>7. JobKnown(j)'
  <2>1. Verified(j)
    BY <1>2 DEF IInv, JobKnown, Complete
  <2>2. Complete(j)'
    BY <1>3, <1>4, <2>1 DEF Complete, Verified
  <2>3. writer'[<<"expire", j>>] # "remove"
    BY <1>2, <1>5, CallsDiffer DEF IInv, JobKnown, WritersKnow
  <2>4. WritersKnow(j)'
    BY <1>3, <1>4, <1>5, <2>3 DEF WritersKnow
  <2>5. overdue'[j] => quiet'[j]
    BY DEF IInv, JobKnown, env
  <2>6. QED
    BY <2>2, <2>4, <2>5 DEF JobKnown
<1>8. ASSUME NEW p \in Puts, put[p].pc \in Storing
      PROVE  state'[JobOf(p)] = state[JobOf(p)] /\ where'[JobOf(p)] = where[JobOf(p)]
  <2>1. JobOf(p) \in Jobs /\ state[JobOf(p)] \in Open
    BY <1>8, AtWork DEF PutKnows, ChunkKnown, Storing, Writing, AtPut
  <2>2. QED
    BY <1>2, <1>3, <1>4, <2>1 DEF Open
<1>9. \A k \in Jobs : state[k] \in Terminal => state'[k] \in Terminal
  BY <1>2, <1>3 DEF Terminal
<1>10. \A k \in Jobs : where[k] = "none" => where'[k] = "none"
  BY <1>4
<1>11. /\ overdue' \in [Jobs -> BOOLEAN] /\ quiet' \in [Jobs -> BOOLEAN] /\ todo' \subseteq Jobs
       /\ crashes' = crashes
  BY DEF IInv, Typing, TypeOK, env
<1>12. \A k \in Jobs : JobKnown(k)'
  BY <1>6, <1>7
<1>13. QED
  BY <1>1, <1>3, <1>4, <1>5, <1>8, <1>9, <1>10, <1>11, <1>12, CallStep

\* The file gets its name.
LEMMA FinalizeRenameStep ==
  ASSUME IInv, NEW j \in Jobs, FinalizeRename(j)
  PROVE  IInv'
<1>1. /\ <<"finalize", j>> \in Writers /\ At(<<"finalize", j>>, "locked")
      /\ state[j] = "FINALIZING"
  BY CallsDiffer DEF FinalizeRename, IInv, JobKnown, WritersKnow, At
<1>2. CASE FinalizeFails(j)
  BY <1>1, <1>2, RemoveStep DEF FinalizeRename, FinalizeFails, WriterTo
<1>3. CASE /\ where[j] # "none" /\ where' = [where EXCEPT ![j] = "input"]
           /\ WriterTo(<<"finalize", j>>, "hash") /\ UNCHANGED <<state, cache, disk, life>>
  <2>1. state' = [state EXCEPT ![j] = "FINALIZING"]
    BY <1>1, <1>3 DEF IInv, Typing, TypeOK
  <2>2. QED
    BY <1>1, <1>3, <2>1, FinalizeOn DEF FinalizeRename
<1>4. QED
  BY <1>2, <1>3 DEF FinalizeRename

\* The whole input is what was declared.
LEMMA FinalizeHashStep ==
  ASSUME IInv, NEW j \in Jobs, FinalizeHash(j)
  PROVE  IInv'
<1>1. /\ <<"finalize", j>> \in Writers /\ At(<<"finalize", j>>, "hash")
      /\ state[j] = "FINALIZING" /\ where[j] = "input"
  BY CallsDiffer DEF FinalizeHash, IInv, JobKnown, WritersKnow, At
<1>2. where = [where EXCEPT ![j] = "input"]
  BY <1>1 DEF IInv, Typing, TypeOK
<1>3. CASE FinalizeFails(j)
  BY <1>1, <1>3, RemoveStep DEF FinalizeHash, FinalizeFails, WriterTo
<1>4. CASE /\ MatchesDeclared(j) /\ state' = [state EXCEPT ![j] = "STAGED"]
           /\ WriterTo(<<"finalize", j>>, "probe") /\ UNCHANGED <<files, life>>
  <2>1. ASSUME j \in Declared, NEW c \in CellsOf(j) PROVE rows[c] = Good
    <3>1. cache[c] = Good
      BY <1>4, <2>1 DEF MatchesDeclared
    <3>2. rows[c] # None
      BY <1>1, <2>1 DEF IInv, JobKnown, Complete, Verified
    <3>3. c \in Cells /\ where[c[1]] # "none"
      BY <1>1, <2>1 DEF CellsOf
    <3>4. QED
      BY <3>1, <3>2, <3>3 DEF IInv, VerifiedDurable
  <2>2. where' = [where EXCEPT ![j] = "input"] /\ cache' = cache /\ disk' = disk
    BY <1>2, <1>4 DEF files
  <2>3. QED
    BY <1>1, <1>4, <2>1, <2>2, FinalizeOn DEF FinalizeHash
<1>5. CASE /\ WriterTo(<<"finalize", j>>, "idle") /\ Release(<<"finalize", j>>)
           /\ UNCHANGED <<state, files>>
  <2>1. /\ where' = [where EXCEPT ![j] = "input"] /\ cache' = cache /\ disk' = disk
        /\ state' = [state EXCEPT ![j] = "FINALIZING"]
    BY <1>1, <1>2, <1>5 DEF files, IInv, Typing, TypeOK
  <2>2. QED
    BY <1>1, <1>5, <2>1, FinalizeOn DEF FinalizeHash
<1>6. QED
  BY <1>3, <1>4, <1>5 DEF FinalizeHash

\* The input is queued.
LEMMA FinalizeProbeStep ==
  ASSUME IInv, NEW j \in Jobs, FinalizeProbe(j)
  PROVE  IInv'
<1>1. /\ <<"finalize", j>> \in Writers /\ At(<<"finalize", j>>, "probe")
      /\ state[j] = "STAGED" /\ where[j] = "input"
  BY CallsDiffer DEF FinalizeProbe, IInv, JobKnown, WritersKnow, At
<1>2. CASE FinalizeFails(j)
  BY <1>1, <1>2, RemoveStep DEF FinalizeProbe, FinalizeFails, WriterTo
<1>3. CASE /\ state' = [state EXCEPT ![j] = "QUEUED"] /\ WriterTo(<<"finalize", j>>, "idle")
           /\ Release(<<"finalize", j>>) /\ UNCHANGED files
  <2>1. where' = [where EXCEPT ![j] = "input"] /\ cache' = cache /\ disk' = disk
    BY <1>1, <1>3 DEF files, IInv, Typing, TypeOK
  <2>2. j \in Declared => \A c \in CellsOf(j) : rows[c] = Good
    BY <1>1 DEF IInv, JobKnown, Complete
  <2>3. QED
    BY <1>1, <1>3, <2>1, <2>2, FinalizeOn DEF FinalizeProbe
<1>4. QED
  BY <1>2, <1>3 DEF FinalizeProbe

\* An upload becomes overdue.
LEMMA TimePassesStep ==
  ASSUME IInv, NEW j \in Jobs, TimePasses(j)
  PROVE  IInv'
<1>1. /\ overdue' \in [Jobs -> BOOLEAN] /\ quiet' \in [Jobs -> BOOLEAN]
      /\ \A k \in Jobs : overdue'[k] => quiet'[k]
  BY DEF TimePasses, IInv, Typing, TypeOK, JobKnown
<1>2. /\ UNCHANGED <<rows, received, cache, disk, phase, put, chunk, crashes>>
      /\ UNCHANGED <<state, where, writer, todo, life>>
  BY DEF TimePasses, files, process
<1>3. ASSUME NEW k \in Jobs PROVE JobKnown(k)'
  BY <1>1, <1>2 DEF IInv, JobKnown, WritersKnow, Complete, Verified
<1>4. QED
  BY <1>1, <1>2, <1>3, CallStep DEF IInv, Typing, TypeOK

\* The sweep lists its candidates.
LEMMA SweepListStep ==
  ASSUME IInv, SweepList
  PROVE  IInv'
<1>1. /\ UNCHANGED <<rows, received, cache, disk, phase, put, chunk, crashes>>
      /\ UNCHANGED <<state, overdue, quiet, where, writer, life>> /\ todo' \subseteq Jobs
  BY DEF SweepList, files, db, env
<1>2. ASSUME NEW k \in Jobs PROVE JobKnown(k)'
  BY <1>1 DEF IInv, JobKnown, WritersKnow, Complete, Verified
<1>3. QED
  BY <1>1, <1>2, CallStep DEF IInv, Typing, TypeOK

\* The sweep goes on to the next.
LEMMA SweepNextStep ==
  ASSUME IInv, NEW j \in Jobs, SweepNext(j)
  PROVE  IInv'
<1>1. /\ UNCHANGED <<rows, received, cache, disk, phase, put, chunk, crashes>>
      /\ UNCHANGED <<state, overdue, quiet, where, life>>
  BY DEF SweepNext, files, db, env
<1>2. todo' \subseteq Jobs
  BY DEF SweepNext, IInv, Typing, TypeOK
<1>3. /\ writer' \in [Writers -> {"idle", "lock", "locked", "hash", "probe", "remove"}]
      /\ \A k \in Jobs : /\ writer'[<<"finalize", k>>] = writer[<<"finalize", k>>]
                         /\ writer'[<<"expire", k>>] \in {writer[<<"expire", k>>], "lock"}
  BY CallsDiffer DEF SweepNext, WriterTo, IInv, Typing, TypeOK
<1>4. ASSUME NEW k \in Jobs PROVE JobKnown(k)'
  <2>1. WritersKnow(k)'
    BY <1>1, <1>3 DEF IInv, JobKnown, WritersKnow
  <2>2. QED
    BY <1>1, <2>1 DEF IInv, JobKnown, Complete, Verified
<1>5. QED
  BY <1>1, <1>2, <1>3, <1>4, CallStep DEF IInv, Typing, TypeOK

\* The upload is expired in the database, and its rows are gone.
LEMMA ExpireStep ==
  ASSUME IInv, NEW j \in Jobs, Holds(<<"expire", j>>), StillOverdue(j),
         state' = [state EXCEPT ![j] = "EXPIRED"], overdue' = [overdue EXCEPT ![j] = FALSE],
         DeleteRows(j), WriterTo(<<"expire", j>>, "remove"), UNCHANGED <<todo, life>>,
         UNCHANGED <<received, files, phase, put, chunk, env>>
  PROVE  IInv'
<1>1. state[j] \in Open
  BY DEF StillOverdue, Overdue
<1>2. /\ state' \in [Jobs -> Open \cup Terminal \cup {"FINALIZING", "STAGED", "QUEUED"}]
      /\ state'[j] = "EXPIRED" /\ \A k \in Jobs \ {j} : state'[k] = state[k]
  BY DEF IInv, Typing, TypeOK, Terminal
<1>3. /\ overdue' \in [Jobs -> BOOLEAN] /\ ~overdue'[j]
      /\ \A k \in Jobs \ {j} : overdue'[k] = overdue[k]
  BY DEF IInv, Typing, TypeOK
<1>4. /\ rows' \in [Cells -> Contents \cup {None}]
      /\ \A c \in Cells : IF c[1] = j THEN rows'[c] = None ELSE rows'[c] = rows[c]
  BY DEF DeleteRows, IInv, Typing, TypeOK
<1>5. /\ writer' \in [Writers -> {"idle", "lock", "locked", "hash", "probe", "remove"}]
      /\ writer'[<<"expire", j>>] = "remove"
      /\ \A v \in Writers \ {<<"expire", j>>} : writer'[v] = writer[v]
  BY CallsDiffer DEF WriterTo, IInv, Typing, TypeOK
<1>6. where' = where /\ cache' = cache /\ disk' = disk /\ quiet' = quiet
  BY DEF files, env
<1>7. Typing'
  BY <1>2, <1>3, <1>4, <1>5, <1>6 DEF IInv, Typing, TypeOK, env
<1>8. VerifiedDurable'
  BY <1>4, <1>6 DEF IInv, VerifiedDurable
<1>9. CountersAgree'
  <2>1. ASSUME NEW k \in Jobs, state'[k] \notin Terminal
        PROVE  received'[k] = Cardinality({c \in CellsOf(k) : rows'[c] # None})
    <3>1. k # j /\ state[k] \notin Terminal
      BY <1>2, <2>1 DEF Terminal
    <3>2. {c \in CellsOf(k) : rows'[c] # None} = {c \in CellsOf(k) : rows[c] # None}
      BY <1>4, <3>1 DEF CellsOf
    <3>3. received[k] = Cardinality({c \in CellsOf(k) : rows[c] # None})
      BY <3>1 DEF IInv, CountersAgree
    <3>4. received'[k] = received[k]
      OBVIOUS
    <3>5. QED
      BY <3>2, <3>3, <3>4
  <2>2. QED
    BY <2>1, Zenon DEF CountersAgree, Terminal
<1>10. ASSUME NEW p \in Puts PROVE PutKnows(p)'
  <2>1. PutKnows(p) /\ put'[p] = put[p]
    BY DEF IInv
  <2>2. put[p].pc \in Handling => /\ JobOf(p) \in Jobs \ {j} /\ CellOf(p) \in Cells
                                  /\ CellOf(p)[1] # j
    <3>1. put[p].pc \in Handling => JobOf(p) # j
      BY <2>1, NoHandler, CallsDiffer
    <3>2. put[p].pc \in Handling => /\ JobOf(p) \in Jobs /\ CellOf(p) \in Cells
                                    /\ CellOf(p)[1] = JobOf(p)
      BY AtWork DEF Handling, InHandler, AtPut
    <3>3. QED
      BY <3>1, <3>2
  <2>3. put[p].pc \in Handling => rows'[CellOf(p)] = rows[CellOf(p)]
    BY <1>4, <2>2
  <2>4. put[p].pc \in Storing => state'[JobOf(p)] = state[JobOf(p)]
    BY <1>2, <2>2 DEF Storing, Writing, Handling, InHandler
  <2>5. QED
    BY <1>6, <2>1, <2>3, <2>4, Bystander
<1>11. ASSUME NEW k \in Jobs \ {j} PROVE JobKnown(k)'
  <2>1. /\ writer'[<<"finalize", k>>] = writer[<<"finalize", k>>]
        /\ writer'[<<"expire", k>>] = writer[<<"expire", k>>]
    BY <1>5, CallsDiffer
  <2>2. \A c \in CellsOf(k) : rows'[c] = rows[c]
    BY <1>4 DEF CellsOf
  <2>3. QED
    BY <1>2, <1>3, <1>6, <2>1, <2>2 DEF IInv, JobKnown, WritersKnow, Complete, Verified
<1>12. JobKnown(j)'
  <2>1. writer'[<<"finalize", j>>] = writer[<<"finalize", j>>]
    BY <1>5, CallsDiffer
  <2>2. writer[<<"finalize", j>>] \notin {"lock", "locked", "hash", "probe", "remove"}
    BY <1>1 DEF IInv, JobKnown, WritersKnow, Open
  <2>3. WritersKnow(j)'
    BY <1>2, <2>1, <2>2 DEF WritersKnow
  <2>4. QED
    BY <1>2, <1>3, <2>3 DEF JobKnown, Complete
<1>13. QED
  BY <1>7, <1>8, <1>9, <1>10, <1>11, <1>12 DEF IInv

\* The sweep expires the upload, or leaves it.
LEMMA ExpireTxStep ==
  ASSUME IInv, NEW j \in Jobs, ExpireTx(j)
  PROVE  IInv'
<1>1. CASE /\ WriterTo(<<"expire", j>>, "idle") /\ Release(<<"expire", j>>)
           /\ UNCHANGED <<state, overdue, rows>> /\ todo' \in {todo, {}}
  <2>1. /\ life' \in [LifeStripes -> [writer : Writers \cup {None}, readers : SUBSET Puts]]
        /\ \A s \in LifeStripes : life'[s].readers = life[s].readers
    BY <1>1, Releases, CallsDiffer DEF IInv
  <2>2. /\ UNCHANGED <<rows, received, cache, disk, phase, put, chunk, crashes>>
        /\ UNCHANGED <<state, overdue, quiet, where>>
    BY <1>1 DEF ExpireTx, files, env
  <2>3. /\ writer' \in [Writers -> {"idle", "lock", "locked", "hash", "probe", "remove"}]
        /\ \A k \in Jobs : /\ writer'[<<"finalize", k>>] = writer[<<"finalize", k>>]
                           /\ writer'[<<"expire", k>>] \in {writer[<<"expire", k>>], "idle"}
    BY <1>1, CallsDiffer DEF WriterTo, IInv, Typing, TypeOK
  <2>4. ASSUME NEW k \in Jobs PROVE JobKnown(k)'
    <3>1. WritersKnow(k)'
      BY <2>2, <2>3 DEF IInv, JobKnown, WritersKnow
    <3>2. QED
      BY <2>2, <3>1 DEF IInv, JobKnown, Complete, Verified
  <2>5. todo' \subseteq Jobs
    BY <1>1 DEF IInv, Typing, TypeOK
  <2>6. QED
    BY <2>1, <2>2, <2>3, <2>4, <2>5, CallStep DEF IInv, Typing, TypeOK
<1>2. CASE /\ StillOverdue(j)
           /\ state' = [state EXCEPT ![j] = "EXPIRED"]
           /\ overdue' = [overdue EXCEPT ![j] = FALSE]
           /\ DeleteRows(j)
           /\ WriterTo(<<"expire", j>>, "remove") /\ UNCHANGED <<todo, life>>
  BY <1>2, ExpireStep DEF ExpireTx
<1>3. QED
  BY <1>1, <1>2 DEF ExpireTx

\* The sweep removes the directory of an expired upload.
LEMMA ExpireRemoveStep ==
  ASSUME IInv, NEW j \in Jobs, ExpireRemove(j)
  PROVE  IInv'
<1>1. <<"expire", j>> \in Writers /\ state[j] = "EXPIRED"
  BY CallsDiffer DEF ExpireRemove, IInv, JobKnown, WritersKnow, At
<1>2. QED
  BY <1>1, RemoveStep DEF ExpireRemove, WriterTo, db

-----------------------------------------------------------------------------
(* Crash and restart *)

\* No PUT is left.
LEMMA NobodyKnows ==
  ASSUME put' = [p \in Puts |-> IdlePut]
  PROVE  (\A p \in Puts : PutKnows(p)') /\ \A p \in Puts : put'[p] = IdlePut
  BY DEF PutKnows, AtPut, IdlePut

\* A power failure spares what was synced.
LEMMA CrashStep ==
  ASSUME IInv, Crash
  PROVE  IInv'
<1>1. PICK lost \in SUBSET {j \in Jobs : NeverSynced(j)} :
        /\ where' = [j \in Jobs |-> IF j \in lost THEN "none" ELSE where[j]]
        /\ disk' \in {d \in [Cells -> Contents \cup {"zero", "torn"}] :
                        \A c \in Cells : d[c] \in IF c[1] \in lost THEN {"zero"} ELSE AfterCrash(c)}
  BY DEF Crash
<1>2. /\ disk' \in [Cells -> Stored] /\ cache' = disk'
      /\ \A c \in Cells : c[1] \notin lost => disk'[c] \in AfterCrash(c)
  BY <1>1 DEF Crash, Stored
<1>3. /\ where' \in [Jobs -> {"part", "input", "none"}]
      /\ \A j \in Jobs : IF j \in lost THEN where'[j] = "none" ELSE where'[j] = where[j]
  BY <1>1 DEF IInv, Typing, TypeOK
<1>4. \A j \in lost : where[j] = "part"
  BY <1>1 DEF NeverSynced
<1>5. UNCHANGED <<state, rows, received, overdue, quiet>> /\ writer' = [w \in Writers |-> "idle"]
  BY DEF Crash, db
<1>6. Typing'
  <2>1. /\ life' \in [LifeStripes -> [writer : Writers \cup {None}, readers : SUBSET Puts]]
        /\ chunk' \in [ChunkStripes -> Puts \cup {None}] /\ todo' \subseteq Jobs
        /\ put' \in [Puts -> PutRecords \cup {IdlePut}]
    BY DEF Crash, FreeLife
  <2>2. crashes' \in 0 .. MaxCrashes /\ phase' \in {"up", "down"}
    BY UploadAssumption DEF Crash, IInv, Typing, TypeOK
  <2>3. writer' \in [Writers -> {"idle", "lock", "locked", "hash", "probe", "remove"}]
    BY <1>5
  <2>4. QED
    BY <1>2, <1>3, <1>5, <2>1, <2>2, <2>3 DEF IInv, Typing, TypeOK
<1>7. VerifiedDurable'
  <2>1. ASSUME NEW c \in Cells, rows[c] # None, where'[c[1]] # "none"
        PROVE  disk'[c] = rows[c]
    <3>1. c[1] \in Jobs /\ c[1] \notin lost /\ where[c[1]] # "none"
      BY <1>3, <2>1, CellFacts
    <3>2. cache[c] = rows[c] /\ disk[c] = rows[c]
      BY <2>1, <3>1 DEF IInv, VerifiedDurable
    <3>3. QED
      BY <1>2, <3>1, <3>2 DEF AfterCrash
  <2>2. QED
    BY <1>2, <1>5, <2>1 DEF VerifiedDurable
<1>8. CountersAgree'
  BY <1>5 DEF IInv, CountersAgree
<1>9. ASSUME NEW j \in Jobs PROVE JobKnown(j)'
  <2>1. writer'[<<"finalize", j>>] = "idle" /\ writer'[<<"expire", j>>] = "idle"
    BY <1>5, CallsDiffer
  <2>2. WritersKnow(j)'
    BY <2>1 DEF WritersKnow
  <2>3. where[j] = "input" => where'[j] = "input"
    BY <1>3, <1>4
  <2>4. QED
    BY <1>5, <2>2, <2>3 DEF IInv, JobKnown, Complete, Verified
<1>10. (\A p \in Puts : PutKnows(p)') /\ \A p \in Puts : put'[p] = IdlePut
  BY NobodyKnows DEF Crash
<1>11. QED
  BY <1>6, <1>7, <1>8, <1>9, <1>10 DEF IInv

\* recover() keeps whole what it keeps.
LEMMA RestartStep ==
  ASSUME IInv, Restart
  PROVE  IInv'
<1>1. PICK over \in SUBSET Jobs : over = {j \in Jobs : state'[j] \in Terminal}
  OBVIOUS
<1>2. /\ UNCHANGED <<received, put, todo, life, chunk, quiet, crashes>> /\ phase' = "up"
      /\ \A p \in Puts : put[p] = IdlePut
  BY DEF Restart, env, IInv
<1>3. /\ state' \in [Jobs -> Open \cup Terminal \cup {"FINALIZING", "STAGED", "QUEUED"}]
      /\ \A j \in Jobs : state'[j] # state[j] => state[j] \in Open /\ state'[j] \in Terminal
  <2>1. state \in [Jobs -> Open \cup Terminal \cup {"FINALIZING", "STAGED", "QUEUED"}]
    BY DEF IInv, Typing, TypeOK
  <2>2. state' = [j \in Jobs |-> IF Overdue(j) THEN "EXPIRED"
                                 ELSE IF Unresumable(j) THEN "FAILED" ELSE state[j]]
    BY DEF Restart
  <2>3. QED
    BY <2>1, <2>2 DEF Overdue, Unresumable, Terminal
<1>4. /\ overdue' \in [Jobs -> BOOLEAN] /\ \A j \in Jobs : overdue'[j] => overdue[j]
  BY DEF Restart, IInv, Typing, TypeOK
<1>5. /\ rows' \in [Cells -> Contents \cup {None}]
      /\ \A c \in Cells : rows'[c] # rows[c] => c[1] \in over /\ rows'[c] = None
  BY <1>1, CellFacts DEF Restart, IInv, Typing, TypeOK
<1>6. PICK gone \in SUBSET over :
         /\ where' = [j \in Jobs |-> IF j \in gone THEN "none" ELSE where[j]]
         /\ disk' = [c \in Cells |-> IF c[1] \in gone THEN "zero" ELSE disk[c]]
  BY <1>1 DEF Restart
<1>7. /\ where' \in [Jobs -> {"part", "input", "none"}]
      /\ \A j \in Jobs : IF j \in gone THEN where'[j] = "none" ELSE where'[j] = where[j]
  BY <1>6 DEF IInv, Typing, TypeOK
<1>8. /\ disk' \in [Cells -> Stored] /\ cache' = disk'
      /\ \A c \in Cells : c[1] \notin gone => disk'[c] = disk[c]
  <2>1. "zero" \in Stored
    BY DEF Stored
  <2>2. QED
    BY <1>6, <2>1 DEF Restart, IInv, Typing, TypeOK
<1>9. /\ writer' \in [Writers -> {"idle", "lock", "locked", "hash", "probe", "remove"}]
      /\ \A j \in Jobs : /\ writer'[<<"expire", j>>] = "idle"
                         /\ writer'[<<"finalize", j>>] \in {"idle", "lock"}
                         /\ writer'[<<"finalize", j>>] = "lock" => state[j] = "FINALIZING"
  BY CallsDiffer DEF Restart
<1>10. Typing'
  BY <1>2, <1>3, <1>4, <1>5, <1>7, <1>8, <1>9 DEF IInv, Typing, TypeOK
<1>11. VerifiedDurable'
  <2>1. ASSUME NEW c \in Cells, rows'[c] # None, where'[c[1]] # "none"
        PROVE  disk'[c] = rows'[c]
    <3>1. c[1] \in Jobs /\ c[1] \notin gone /\ where[c[1]] # "none" /\ rows'[c] = rows[c]
      BY <1>5, <1>7, <2>1, CellFacts
    <3>2. QED
      BY <1>8, <2>1, <3>1 DEF IInv, VerifiedDurable
  <2>2. QED
    BY <1>8, <2>1 DEF VerifiedDurable
<1>12. ASSUME NEW j \in Jobs, j \notin over
       PROVE  /\ state'[j] = state[j] /\ state[j] \notin Terminal
              /\ \A c \in CellsOf(j) : rows'[c] = rows[c]
  <2>1. state'[j] = state[j] /\ state[j] \notin Terminal
    BY <1>1, <1>3, <1>12
  <2>2. QED
    BY <1>5, <1>12, <2>1 DEF CellsOf
<1>13. CountersAgree'
  <2>1. ASSUME NEW j \in Jobs, state'[j] \notin Terminal
        PROVE  received'[j] = Cardinality({c \in CellsOf(j) : rows'[c] # None})
    <3>1. j \notin over
      BY <1>1, <2>1
    <3>2. {c \in CellsOf(j) : rows'[c] # None} = {c \in CellsOf(j) : rows[c] # None}
      BY <1>12, <3>1
    <3>3. received[j] = Cardinality({c \in CellsOf(j) : rows[c] # None})
      BY <1>12, <3>1 DEF IInv, CountersAgree
    <3>4. received'[j] = received[j]
      BY <1>2
    <3>5. QED
      BY <3>2, <3>3, <3>4
  <2>2. QED
    BY <2>1, Zenon DEF CountersAgree, Terminal
<1>14. ASSUME NEW j \in Jobs PROVE JobKnown(j)'
  <2>1. WritersKnow(j)'
    <3>1. state[j] = "FINALIZING" => state'[j] = "FINALIZING"
      BY <1>3 DEF Open
    <3>2. QED
      BY <1>9, <3>1 DEF WritersKnow
  <2>2. Complete(j)'
    <3>1. CASE j \in over
      BY <1>1, <3>1 DEF Complete, Terminal
    <3>2. CASE j \notin over
      BY <1>7, <1>12, <3>2 DEF IInv, JobKnown, Complete, Verified
    <3>3. QED
      BY <3>1, <3>2
  <2>3. QED
    BY <1>2, <1>4, <2>1, <2>2 DEF IInv, JobKnown
<1>15. \A p \in Puts : PutKnows(p)'
  BY <1>2 DEF PutKnows, AtPut, IdlePut
<1>16. QED
  BY <1>2, <1>10, <1>11, <1>13, <1>14, <1>15 DEF IInv

-----------------------------------------------------------------------------
(* The invariant *)

\* At the start nothing is uploaded.
LEMMA Initially == Init => IInv
<1> SUFFICES ASSUME Init PROVE IInv
  OBVIOUS
<1>1. \A j \in Jobs : received[j] = 0 /\ Expected[j] \in Nat \ {0}
  BY UploadAssumption DEF Init
<1>2. Typing
  <2>1. /\ state \in [Jobs -> Open \cup Terminal \cup {"FINALIZING", "STAGED", "QUEUED"}]
        /\ rows \in [Cells -> Contents \cup {None}] /\ received \in [Jobs -> Nat]
        /\ overdue \in [Jobs -> BOOLEAN] /\ quiet \in [Jobs -> BOOLEAN]
        /\ where \in [Jobs -> {"part", "input", "none"}]
    BY DEF Init, Open
  <2>2. cache \in [Cells -> Stored] /\ disk \in [Cells -> Stored]
    BY DEF Init, Stored
  <2>3. \A j \in Jobs : received[j] \in 0 .. Expected[j]
    BY <1>1
  <2>4. /\ phase \in {"up", "down"} /\ put \in [Puts -> PutRecords \cup {IdlePut}]
        /\ writer \in [Writers -> {"idle", "lock", "locked", "hash", "probe", "remove"}]
        /\ todo \subseteq Jobs
        /\ life \in [LifeStripes -> [writer : Writers \cup {None}, readers : SUBSET Puts]]
        /\ chunk \in [ChunkStripes -> Puts \cup {None}]
    BY DEF Init, FreeLife
  <2>5. crashes \in 0 .. MaxCrashes
    BY UploadAssumption DEF Init
  <2>6. QED
    BY <2>1, <2>2, <2>3, <2>4, <2>5 DEF Typing, TypeOK
<1>3. \A p \in Puts : PutKnows(p)
  BY DEF Init, PutKnows, AtPut, IdlePut
<1>4. ASSUME NEW j \in Jobs PROVE JobKnown(j)
  <2>1. writer[<<"finalize", j>>] = "idle" /\ writer[<<"expire", j>>] = "idle" /\ state[j] = "ADMITTED"
    BY CallsDiffer DEF Init
  <2>2. QED
    BY <2>1 DEF Init, JobKnown, WritersKnow, Complete
<1>5. VerifiedDurable
  BY DEF Init, VerifiedDurable
<1>6. CountersAgree
  <2>1. ASSUME NEW j \in Jobs
        PROVE  received[j] = Cardinality({c \in CellsOf(j) : rows[c] # None})
    <3>1. {c \in CellsOf(j) : rows[c] # None} = {}
      BY DEF Init, CellsOf
    <3>2. QED
      BY <1>1, <3>1, FS_EmptySet
  <2>2. QED
    BY <2>1 DEF CountersAgree
<1>7. phase = "up"
  BY DEF Init
<1>8. QED
  BY <1>2, <1>3, <1>4, <1>5, <1>6, <1>7 DEF IInv

\* Every step keeps the invariant.
LEMMA Inductive == IInv /\ [Next]_vars => IInv'
<1> SUFFICES ASSUME IInv, [Next]_vars PROVE IInv'
  OBVIOUS
<1>1. ASSUME NEW p \in Puts, Send(p) \/ TakeLock(p) PROVE IInv'
  BY <1>1, SendStep, TakeLockStep
<1>2. ASSUME NEW p \in Puts, PutStep(p) PROVE IInv'
  BY <1>2, LookupStep, ReplayStep, OpenPartStep, WriteRestStep, SyncStep, CommitStep,
     PutFailsStep, UnlockStep DEF PutStep
<1>3. ASSUME NEW j \in Jobs, CallComplete(j) \/ CompleteTx(j) \/ Finalize(j) PROVE IInv'
  BY <1>3, CallCompleteStep, CompleteTxStep, FinalizeRenameStep, FinalizeHashStep,
     FinalizeProbeStep DEF Finalize
<1>4. ASSUME NEW j \in Jobs, TimePasses(j) \/ SweepNext(j) \/ Expire(j) PROVE IInv'
  BY <1>4, TimePassesStep, SweepNextStep, ExpireTxStep, ExpireRemoveStep DEF Expire
<1>5. ASSUME NEW w \in Writers, Announce(w) PROVE IInv'
  BY <1>5, AnnounceStep
<1>6. CASE SweepList \/ Crash \/ Restart
  BY <1>6, SweepListStep, CrashStep, RestartStep
<1>7. CASE UNCHANGED vars
  <2>1. /\ UNCHANGED <<db, files, process, env>> /\ UNCHANGED <<phase, put, writer, todo, life, chunk>>
    BY <1>7 DEF vars, process
  <2>2. Typing'
    BY <2>1 DEF IInv, Typing, TypeOK, db, files, env
  <2>3. (\A j \in Jobs : JobKnown(j)') /\ VerifiedDurable' /\ CountersAgree'
    BY <2>1, DataStays DEF IInv, env
  <2>4. \A p \in Puts : PutKnows(p)'
    BY <2>1, Bystander DEF IInv, db, files
  <2>5. QED
    BY <2>1, <2>2, <2>3, <2>4 DEF IInv
<1>8. QED
  BY <1>1, <1>2, <1>3, <1>4, <1>5, <1>6, <1>7 DEF Next

(* IInv, the inductive invariant, holds of every reachable state.           *)
THEOREM Invariance == Spec => []IInv
  BY Initially, Inductive, PTL DEF Spec

-----------------------------------------------------------------------------
(* What follows from it *)

(* Every variable keeps its type, and no counter runs past the number of    *)
(* chunks the job expects.                                                  *)
THEOREM WellFormed == Spec => []TypeOK
<1>1. IInv => TypeOK
  BY DEF IInv, Typing
<1>2. QED
  BY <1>1, Invariance, PTL

(* A chunk the database calls VERIFIED is what its checksum says, in the    *)
(* file and after a power failure (main.go:322-404).                        *)
THEOREM ChunksDurable == Spec => []VerifiedDurable
<1>1. IInv => VerifiedDurable
  BY DEF IInv
<1>2. QED
  BY <1>1, Invariance, PTL

(* The counters complete() trusts are the number of the chunk rows          *)
(* (main.go:396-404, 425).                                                  *)
THEOREM CountersTrue == Spec => []CountersAgree
<1>1. IInv => CountersAgree
  BY DEF IInv
<1>2. QED
  BY <1>1, Invariance, PTL

(* A PUT writes only to an open upload, whose file is neither renamed nor   *)
(* removed: the lifecycle lock holds complete and expireUpload up           *)
(* (main.go:300, 418, 884).                                                 *)
THEOREM WritesInside == Spec => []NoWriteOutsideUpload
<1>1. IInv => NoWriteOutsideUpload
  BY DEF IInv, PutKnows, ChunkKnown, FileKnown, NoWriteOutsideUpload, AtPut, Storing, Writing
<1>2. QED
  BY <1>1, Invariance, PTL

(* What ffprobe is given, and what is queued, is there and whole, of the    *)
(* declared content if one was declared, also when fail() cannot update the *)
(* row of a job whose input it removes (main.go:425, 457-474, 1130).        *)
THEOREM WholeQueued == Spec => []QueuedInputWhole
<1>1. IInv => QueuedInputWhole
  <2>1. ASSUME IInv, NEW j \in Jobs, state[j] = "QUEUED" \/ At(<<"finalize", j>>, "probe")
        PROVE  where[j] = "input"
    BY <2>1 DEF IInv, JobKnown, Complete, WritersKnow, At
  <2>2. ASSUME IInv, NEW j \in Jobs, state[j] \in {"STAGED", "QUEUED"}, NEW c \in CellsOf(j)
        PROVE  /\ rows[c] # None
               /\ where[j] # "none" => cache[c] = rows[c]
               /\ j \in Declared => rows[c] = Good
    <3>1. Verified(j) /\ (j \in Declared => \A d \in CellsOf(j) : rows[d] = Good)
      BY <2>2 DEF IInv, JobKnown, Complete
    <3>2. c \in Cells /\ c[1] = j
      BY <2>2 DEF CellsOf
    <3>3. QED
      BY <2>2, <3>1, <3>2 DEF IInv, VerifiedDurable, Verified
  <2>3. QED
    BY <2>1, <2>2 DEF QueuedInputWhole
<1>2. QED
  BY <1>1, Invariance, PTL

(* A chunk answered with 200 has the row that was sent, and keeps it until  *)
(* the upload fails or expires, through any number of crashes               *)
(* (main.go:316-404, README:236-237).                                       *)
THEOREM AckedKept == Spec => AckedSurvives
<1> DEFINE A == \A p \in Puts : (~AtPut(p, "idle") /\ put[p].ok) => rows[CellOf(p)] = put[p].sum
           B == \A c \in Cells : (rows[c] # None /\ rows'[c] # rows[c]) => state'[c[1]] \in Terminal
<1>1. IInv => A
  BY DEF IInv, PutKnows, ChunkKnown
<1>2. IInv /\ [Next]_vars => [B]_vars
  <2>1. SUFFICES ASSUME IInv, Next, NEW c \in Cells, rows[c] # None, rows'[c] # rows[c]
                 PROVE  state'[c[1]] \in Terminal
    OBVIOUS
  <2>2. rows' # rows
    BY <2>1
  <2>3. c[1] \in Jobs
    BY CellFacts
  <2>4. ASSUME NEW p \in Puts PROVE ~(Send(p) \/ TakeLock(p) \/ PutStep(p))
    <3>1. ~Commit(p)
      <4>1. SUFFICES ASSUME Commit(p) PROVE FALSE
        OBVIOUS
      <4>2. rows[CellOf(p)] = None /\ rows' = [rows EXCEPT ![CellOf(p)] = put[p].sum]
        BY <2>2, <4>1 DEF Commit, db
      <4>3. rows'[c] = rows[c]
        BY <2>1, <4>2 DEF IInv, Typing, TypeOK
      <4>4. QED
        BY <2>1, <4>3
    <3>2. QED
      BY <2>2, <3>1 DEF Send, TakeLock, PutStep, Lookup, Replay, OpenPart, WriteRest, Sync,
                        PutFails, Unlock, db
  <2>5. ASSUME NEW j \in Jobs
        PROVE ~(CallComplete(j) \/ CompleteTx(j) \/ Finalize(j) \/ TimePasses(j) \/ SweepNext(j))
    BY <2>2 DEF CallComplete, CompleteTx, Finalize, FinalizeRename, FinalizeHash, FinalizeProbe,
                TimePasses, SweepNext, db
  <2>6. ASSUME NEW w \in Writers PROVE ~Announce(w)
    BY <2>2 DEF Announce, db
  <2>7. ~SweepList /\ ~Crash
    BY <2>2 DEF SweepList, Crash, db
  <2>8. ASSUME NEW j \in Jobs, Expire(j) PROVE state'[c[1]] \in Terminal
    <3>1. DeleteRows(j) /\ state' = [state EXCEPT ![j] = "EXPIRED"]
      BY <2>2, <2>8 DEF Expire, ExpireTx, ExpireRemove, db
    <3>2. c[1] = j
      BY <2>1, <3>1 DEF DeleteRows
    <3>3. QED
      BY <2>1, <3>1, <3>2 DEF IInv, Typing, TypeOK, Terminal
  <2>9. CASE Restart
    BY <2>1, <2>3, <2>9 DEF Restart
  <2>10. QED
    BY <2>1, <2>4, <2>5, <2>6, <2>7, <2>8, <2>9 DEF Next
<1>3. QED
  BY <1>1, <1>2, Invariance, PTL DEF Spec, AckedSurvives

(* No upload expires unless the retention has passed since the last chunk   *)
(* was accepted: the row is read again under the lifecycle lock             *)
(* (main.go:884, README:242).                                               *)
THEOREM QuietExpires == Spec => NoExpiryAfterChunk
<1> DEFINE A == \A j \in Jobs : (state[j] # "EXPIRED" /\ state'[j] = "EXPIRED") => quiet[j]
<1>1. IInv /\ [Next]_vars => [A]_vars
  <2>1. SUFFICES ASSUME IInv, Next, NEW j \in Jobs, state[j] # "EXPIRED", state'[j] = "EXPIRED"
                 PROVE  quiet[j]
    OBVIOUS
  <2>2. overdue[j] => quiet[j]
    BY <2>1 DEF IInv, JobKnown
  <2>3. state' # state
    BY <2>1
  <2>4. state \in [Jobs -> Open \cup Terminal \cup {"FINALIZING", "STAGED", "QUEUED"}]
    BY <2>1 DEF IInv, Typing, TypeOK
  <2>5. ASSUME NEW p \in Puts PROVE ~(Send(p) \/ TakeLock(p) \/ PutStep(p))
    <3>1. ~Commit(p)
      BY <2>1, <2>3, <2>4 DEF Commit, db
    <3>2. QED
      BY <2>3, <3>1 DEF Send, TakeLock, PutStep, Lookup, Replay, OpenPart, WriteRest, Sync,
                        PutFails, Unlock, db
  <2>6. ASSUME NEW k \in Jobs
        PROVE ~(CallComplete(k) \/ CompleteTx(k) \/ Finalize(k) \/ TimePasses(k) \/ SweepNext(k))
    <3>1. ~CompleteTx(k)
      BY <2>1, <2>4 DEF CompleteTx
    <3>2. ~FinalizeRename(k) /\ ~FinalizeHash(k) /\ ~FinalizeProbe(k)
      BY <2>1, <2>4 DEF FinalizeRename, FinalizeHash, FinalizeProbe, FinalizeFails
    <3>3. QED
      BY <2>3, <3>1, <3>2 DEF CallComplete, Finalize, TimePasses, SweepNext, db
  <2>7. ASSUME NEW w \in Writers PROVE ~Announce(w)
    BY <2>3 DEF Announce, db
  <2>8. ~SweepList /\ ~Crash
    BY <2>3 DEF SweepList, Crash, db
  <2>9. ASSUME NEW k \in Jobs, Expire(k) PROVE quiet[j]
    <3>1. StillOverdue(k) /\ state' = [state EXCEPT ![k] = "EXPIRED"]
      BY <2>3, <2>9 DEF Expire, ExpireTx, ExpireRemove, db
    <3>2. k = j
      BY <2>1, <2>4, <3>1
    <3>3. QED
      BY <2>2, <3>1, <3>2 DEF StillOverdue, Overdue
  <2>10. CASE Restart
    BY <2>1, <2>2, <2>10 DEF Restart, Overdue
  <2>11. QED
    BY <2>1, <2>5, <2>6, <2>7, <2>8, <2>9, <2>10 DEF Next
<1>2. QED
  BY <1>1, Invariance, PTL DEF Spec, NoExpiryAfterChunk

-----------------------------------------------------------------------------
(* The client's view *)

\* The stage a client sees, and the lifecycle of one job: a restart may end
\* several uploads at once.
Stage(s) ==
  CASE s \in Open -> "Receiving" [] s \in {"FINALIZING", "STAGED", "QUEUED"} -> "Processing"
    [] s = "FAILED" -> "Failed" [] s = "EXPIRED" -> "Expired"

Seen(j) == [k \in {j} |-> Stage(state[k])]

Lifecycle(j) == INSTANCE JobLifecycle WITH Jobs <- {j}, stage <- Seen(j)

\* What a step may do to the state of a job
StateMoves(j) ==
  \/ Stage(state'[j]) = Stage(state[j])
  \/ state[j] \in Open /\ state'[j] \in {"FINALIZING"} \cup Terminal
  \/ state[j] \in {"FINALIZING", "STAGED"} /\ state'[j] = "FAILED"

\* Every state has its stage.
LEMMA StagesKnown ==
  /\ \A s \in Open : Stage(s) = "Receiving"
  /\ \A s \in {"FINALIZING", "STAGED", "QUEUED"} : Stage(s) = "Processing"
  /\ Stage("FAILED") = "Failed" /\ Stage("EXPIRED") = "Expired"
  BY DEF Stage, Open

\* These moves are arrows of the lifecycle.
LEMMA Arrow ==
  ASSUME NEW j \in Jobs, StateMoves(j)
  PROVE  [Lifecycle(j)!Next]_(Seen(j))
<1>1. CASE Stage(state'[j]) = Stage(state[j])
  BY <1>1 DEF Seen
<1>2. CASE state[j] \in Open /\ state'[j] = "FINALIZING"
  <2>1. Stage(state[j]) = "Receiving" /\ Stage(state'[j]) = "Processing"
    BY <1>2, StagesKnown
  <2>2. Lifecycle(j)!Process(j)
    BY <2>1 DEF Lifecycle!Process, Lifecycle!Move, Seen
  <2>3. QED
    BY <2>2 DEF Lifecycle!Next
<1>3. CASE state[j] \in Open /\ state'[j] = "EXPIRED"
  <2>1. Stage(state[j]) = "Receiving" /\ Stage(state'[j]) = "Expired"
    BY <1>3, StagesKnown
  <2>2. Lifecycle(j)!Expire(j)
    BY <2>1 DEF Lifecycle!Expire, Lifecycle!Move, Seen
  <2>3. QED
    BY <2>2 DEF Lifecycle!Next
<1>4. CASE state[j] \in Open \cup {"FINALIZING", "STAGED"} /\ state'[j] = "FAILED"
  <2>1. Stage(state[j]) \in {"Receiving", "Processing"} /\ Stage(state'[j]) = "Failed"
    BY <1>4, StagesKnown
  <2>2. Lifecycle(j)!Fail(j)
    BY <2>1 DEF Lifecycle!Fail, Lifecycle!Move, Seen
  <2>3. QED
    BY <2>2 DEF Lifecycle!Next
<1>5. QED
  BY <1>1, <1>2, <1>3, <1>4 DEF StateMoves, Terminal

\* A transaction that updates one row moves that job alone.
LEMMA OneRow ==
  ASSUME TypeOK, NEW j \in Jobs, NEW k \in Jobs, NEW to, state' = [state EXCEPT ![k] = to],
         \/ Stage(to) = Stage(state[k])
         \/ state[k] \in Open /\ to \in {"FINALIZING"} \cup Terminal
         \/ state[k] \in {"FINALIZING", "STAGED"} /\ to = "FAILED"
  PROVE  StateMoves(j)
<1>1. CASE j # k
  BY <1>1 DEF StateMoves, TypeOK
<1>2. CASE j = k
  BY <1>2 DEF StateMoves, TypeOK
<1>3. QED
  BY <1>1, <1>2

\* The goroutine of finalize moves a job that is FINALIZING or STAGED: it is
\* the only one to leave these states.
LEMMA FinalizeMoves ==
  ASSUME IInv, NEW j \in Jobs, NEW k \in Jobs, Finalize(k)
  PROVE  StateMoves(j)
<1> DEFINE w == <<"finalize", k>>
<1>1. TypeOK /\ WritersKnow(k)
  BY DEF IInv, JobKnown, Typing
<1>2. \/ writer[w] \in {"locked", "hash"} /\ state[k] = "FINALIZING"
      \/ writer[w] = "probe" /\ state[k] = "STAGED"
  BY <1>1 DEF Finalize, FinalizeRename, FinalizeHash, FinalizeProbe, WritersKnow, At
<1>3. CASE state' = state
  BY <1>3 DEF StateMoves
<1>4. CASE state' = [state EXCEPT ![k] = "FAILED"]
  BY <1>1, <1>2, <1>4, OneRow
<1>5. CASE state' = [state EXCEPT ![k] = "STAGED"] \/ state' = [state EXCEPT ![k] = "QUEUED"]
  <2>1. Stage("STAGED") = Stage(state[k]) /\ Stage("QUEUED") = Stage(state[k])
    BY <1>2, StagesKnown
  <2>2. QED
    BY <1>1, <1>5, <2>1, OneRow
<1>6. QED
  BY <1>3, <1>4, <1>5 DEF Finalize, FinalizeRename, FinalizeHash, FinalizeProbe, FinalizeFails

\* Every step moves each job along an arrow, or keeps its stage.
LEMMA ClientStep ==
  ASSUME IInv, [Next]_vars, NEW j \in Jobs
  PROVE  StateMoves(j)
<1>1. TypeOK
  BY DEF IInv, Typing
<1>2. ASSUME state' = state PROVE StateMoves(j)
  BY <1>2 DEF StateMoves
<1>3. ASSUME NEW p \in Puts, Send(p) \/ TakeLock(p) \/ PutStep(p) PROVE StateMoves(j)
  <2>1. CASE Commit(p)
    <3>1. CASE state[JobOf(p)] \in Open /\ state' = [state EXCEPT ![JobOf(p)] = "UPLOADING"]
      <4>1. JobOf(p) \in Jobs
        <5>1. ~AtPut(p, "idle")
          BY <2>1 DEF Commit, AtPut
        <5>2. put[p] \in PutRecords
          BY <5>1 DEF IInv, PutKnows
        <5>3. QED
          BY <5>2 DEF PutRecords, JobOf
      <4>2. Stage("UPLOADING") = Stage(state[JobOf(p)])
        BY <3>1, StagesKnown DEF Open
      <4>3. QED
        BY <1>1, <3>1, <4>1, <4>2, OneRow
    <3>2. QED
      BY <1>2, <2>1, <3>1 DEF Commit, db
  <2>2. QED
    BY <1>2, <1>3, <2>1 DEF Send, TakeLock, PutStep, Lookup, Replay, OpenPart, WriteRest, Sync,
                            PutFails, Unlock, db
<1>4. ASSUME NEW k \in Jobs, CompleteTx(k) PROVE StateMoves(j)
  BY <1>1, <1>2, <1>4, OneRow DEF CompleteTx
<1>5. ASSUME NEW k \in Jobs, Expire(k) PROVE StateMoves(j)
  BY <1>1, <1>2, <1>5, OneRow DEF Expire, ExpireTx, ExpireRemove, StillOverdue, Overdue, Terminal, db
<1>6. ASSUME NEW k \in Jobs, CallComplete(k) \/ TimePasses(k) \/ SweepNext(k) PROVE StateMoves(j)
  BY <1>2, <1>6 DEF CallComplete, TimePasses, SweepNext, db
<1>7. ASSUME NEW w \in Writers, Announce(w) PROVE StateMoves(j)
  BY <1>2, <1>7 DEF Announce, db
<1>8. CASE SweepList \/ Crash \/ UNCHANGED vars
  BY <1>2, <1>8 DEF SweepList, Crash, vars, db
<1>9. CASE Restart
  <2>1. state'[j] = IF Overdue(j) THEN "EXPIRED" ELSE IF Unresumable(j) THEN "FAILED" ELSE state[j]
    BY <1>9 DEF Restart
  <2>2. QED
    BY <2>1 DEF Overdue, Unresumable, StateMoves, Terminal
<1>10. QED
  BY <1>3, <1>4, <1>5, <1>6, <1>7, <1>8, <1>9, FinalizeMoves DEF Next

(* Whatever PUTs, calls, sweeps and crashes interleave, every step is one   *)
(* of JobLifecycle for each upload, or changes nothing its client sees: an  *)
(* upload that is being processed is never open again and never expires,    *)
(* and one that failed or expired stays so (main.go:322-474, 884).          *)
ClientsSee == \A j \in Jobs : [Lifecycle(j)!Next]_(Seen(j))

(* The upload implements JobLifecycle, job by job.                          *)
THEOREM ClientsSeeLifecycle == Spec => [][ClientsSee]_vars
<1>1. IInv /\ [Next]_vars => [ClientsSee]_vars
  <2>1. SUFFICES ASSUME IInv, [Next]_vars, NEW j \in Jobs
                 PROVE  [Lifecycle(j)!Next]_(Seen(j))
    BY DEF ClientsSee
  <2>2. QED
    BY <2>1, ClientStep, Arrow
<1>2. QED
  BY <1>1, Invariance, PTL DEF Spec
=============================================================================
