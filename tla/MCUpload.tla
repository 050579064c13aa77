------------------------------ MODULE MCUpload ------------------------------
(***************************************************************************)
(* Instances of Upload for TLC: one job, and clients that repeat its first *)
(* chunk damaged or with another content.                                  *)
(***************************************************************************)
EXTENDS Upload, TLC

CONSTANTS
  a,        \* job
  x, y, z,  \* contents
  p, q,     \* PUT handlers
  s1, s2    \* stripes

OneChunk  == a :> 1
TwoChunks == a :> 2

LifeOfA   == a :> s1
ChunksOfA == (<<a, 0>> :> s1) @@ (<<a, 1>> :> s2)

Chunk(n, body, sum) == [job |-> a, chunk |-> n, body |-> body, sum |-> sum]

\* The second chunk; the first one whole, damaged, and another in its place,
\* which is not what the job declared.
Repeats == {Chunk(1, x, x), Chunk(0, x, x), Chunk(0, y, x), Chunk(0, y, y)}

\* Of one chunk: whole, and damaged with another checksum.
Retries == {Chunk(0, x, x), Chunk(0, y, z)}

EitherPut == Permutations(Puts)
=============================================================================
