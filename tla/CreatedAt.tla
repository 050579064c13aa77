------------------------------ MODULE CreatedAt ------------------------------
(***************************************************************************)
(* jobs.created_at as SQLite compares it.  create() formats the instant    *)
(* with time.RFC3339Nano, which drops the trailing zeros of the fraction   *)
(* (and the point, when nothing follows it); oldestPendingJob and schedule *)
(* say ORDER BY created_at on the TEXT column.  An instant is a number of  *)
(* ticks, 10^Places to a second; a text is a sequence of characters by     *)
(* their rank in the collation.  Everything in front of the fraction has a *)
(* fixed width and sorts like the second it says: it is one character.     *)
(***************************************************************************)
EXTENDS Naturals, Sequences, FiniteSets

CONSTANT Places    \* digits of the fraction (nine in the program)

\* 10 ^ n, for the nine digits there can be.
Ticks(n) ==
  <<1, 10, 100, 1000, 10000, 100000, 1000000, 10000000, 100000000, 1000000000>>[n + 1]

\* '.' sorts before the digits, 'Z' after them.
Point    == 0
Digit(d) == d + 1
Zulu     == 11

\* What t is to the i-th digit of the fraction, and that digit
Upto(t, i)  == t \div Ticks(Places - i)
Place(t, i) == Upto(t, i) % 10
Seconds(t)  == Upto(t, 0)

\* Digits of the fraction that are printed.
Kept(t) ==
  CHOOSE k \in 0 .. Places : /\ \A i \in k + 1 .. Places : Place(t, i) = 0
                             /\ k = 0 \/ Place(t, k) # 0

Fraction(t) == IF Kept(t) = 0 THEN <<>>
               ELSE <<Point>> \o [i \in 1 .. Kept(t) |-> Digit(Place(t, i))]

Text(t) == <<Seconds(t)>> \o Fraction(t) \o <<Zulu>>

\* Byte-wise comparison of two texts; every text ends in Z, none is a prefix
\* of another.
SortsBefore(p, q) ==
  \E i \in DOMAIN p \cap DOMAIN q :
    /\ p[i] < q[i]
    /\ \A h \in 1 .. i - 1 : p[h] = q[h]

\* The rank of every instant of a set in ORDER BY created_at.
RankIn(T) == [t \in T |-> Cardinality({u \in T : SortsBefore(Text(u), Text(t))})]

\* The weight of the last digit of t that is printed
Grain(t) == Ticks(Places - Kept(t))
=============================================================================
