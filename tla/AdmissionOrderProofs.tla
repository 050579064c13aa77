------------------------- MODULE AdmissionOrderProofs -------------------------
(***************************************************************************)
(* Theorems about Admission that relate steps to each other: FIFO order,   *)
(* removal of finished inputs, and the client's view of a job's life; and  *)
(* how far the texts that FIFO order rests on sort like instants.          *)
(***************************************************************************)
EXTENDS AdmissionProofs, CreatedAt, Integers, SequenceTheorems, WellFoundedInduction

-----------------------------------------------------------------------------
(* created_at texts *)

\* The least element of a set of numbers
LEMMA Least ==
  ASSUME NEW T, T \subseteq Nat, T # {}
  PROVE  \E x \in T : \A y \in T : x <= y
<1> DEFINE R == OpToRel(<, Nat)
<1>1. IsWellFoundedOn(R, Nat)
  BY Zenon, NatLessThanWellFounded
<1>2. \A x, y \in Nat : x < y => <<x, y>> \in R
  BY Zenon DEF OpToRel
<1> HIDE DEF R
<1>3. PICK x \in T : \A y \in T : ~(<<y, x>> \in R)
  BY <1>1, WFMin
<1>4. ASSUME NEW y \in T PROVE x <= y
  <2>1. x \in Nat /\ y \in Nat /\ ~(y < x)
    BY <1>2, <1>3
  <2>2. QED
    BY <2>1
<1>5. QED
  BY <1>4

\* The digits an instant may have
DigitsKnown == Places \in 0 .. 9

\* The powers of ten
LEMMA TicksKnown ==
  /\ Ticks(0) = 1
  /\ \A n \in 0 .. 9 : Ticks(n) \in Nat \ {0}
  /\ \A n \in 0 .. 8 : Ticks(n + 1) = 10 * Ticks(n)
<1>1. \A n \in 0 .. 9 : n \in {0, 1, 2, 3, 4, 5, 6, 7, 8, 9}
  OBVIOUS
<1>2. \A n \in 0 .. 8 : n \in {0, 1, 2, 3, 4, 5, 6, 7, 8}
  OBVIOUS
<1>3. /\ Ticks(0) = 1 /\ Ticks(1) = 10 /\ Ticks(2) = 100 /\ Ticks(3) = 1000 /\ Ticks(4) = 10000
      /\ Ticks(5) = 100000 /\ Ticks(6) = 1000000 /\ Ticks(7) = 10000000
      /\ Ticks(8) = 100000000 /\ Ticks(9) = 1000000000
  BY SMT DEF Ticks
<1>4. \A n \in 0 .. 9 : Ticks(n) \in Nat \ {0}
  BY SMT, <1>1, <1>3
<1>5. ASSUME NEW n \in 0 .. 8 PROVE Ticks(n + 1) = 10 * Ticks(n)
  BY SMT, <1>2, <1>3
<1>6. QED
  BY <1>3, <1>4, <1>5

\* Dividing twice
LEMMA Twice ==
  ASSUME NEW t \in Nat, NEW a \in Nat \ {0}
  PROVE  (t \div a) \div 10 = t \div (10 * a)
<1> DEFINE q == t \div a
           p == q \div 10
<1>1. q \in Nat /\ a * q <= t /\ t < a * q + a
  OBVIOUS
<1> HIDE DEF q
<1>2. p \in Nat /\ 10 * p <= q /\ q + 1 <= 10 * p + 10
  BY <1>1
<1> HIDE DEF p
<1>3. a * (10 * p) <= a * q /\ a * (q + 1) <= a * (10 * p + 10)
  BY <1>1, <1>2
<1>4. (10 * a) * p <= t /\ t < (10 * a) * p + 10 * a
  BY <1>1, <1>2, <1>3
<1>5. p = t \div (10 * a)
  BY <1>2, <1>4
<1>6. QED
  BY <1>5 DEF p, q

\* The quotient of larger numbers is no smaller.
LEMMA QuotientGrows ==
  ASSUME NEW t \in Nat, NEW u \in Nat, t <= u, NEW a \in Nat \ {0}
  PROVE  t \div a <= u \div a
  OBVIOUS

\* An instant, digit by digit
LEMMA UptoKnown ==
  ASSUME DigitsKnown, NEW t \in Nat
  PROVE  /\ \A i \in 0 .. Places : Upto(t, i) \in Nat /\ Place(t, i) \in 0 .. 9
         /\ Upto(t, Places) = t
         /\ \A i \in 1 .. Places : Upto(t, i) = 10 * Upto(t, i - 1) + Place(t, i)
<1>1. ASSUME NEW i \in 0 .. Places PROVE Ticks(Places - i) \in Nat \ {0}
  BY TicksKnown DEF DigitsKnown
<1>2. ASSUME NEW i \in 0 .. Places PROVE Upto(t, i) \in Nat
  BY <1>1 DEF Upto
<1>3. ASSUME NEW i \in 0 .. Places PROVE Place(t, i) \in 0 .. 9
  BY <1>2 DEF Place
<1>4. Upto(t, Places) = t
  <2>1. Ticks(Places - Places) = 1
    BY TicksKnown DEF DigitsKnown
  <2>2. QED
    BY <2>1 DEF Upto
<1>5. ASSUME NEW i \in 1 .. Places PROVE Upto(t, i) = 10 * Upto(t, i - 1) + Place(t, i)
  <2>1. i \in 0 .. Places /\ Places - i \in 0 .. 8 /\ Places - (i - 1) = (Places - i) + 1
    BY DEF DigitsKnown
  <2>2. Ticks(Places - (i - 1)) = 10 * Ticks(Places - i)
    BY <2>1, TicksKnown
  <2>3. Upto(t, i - 1) = Upto(t, i) \div 10
    BY <1>1, <2>1, <2>2, Twice DEF Upto
  <2>4. QED
    BY <1>2, <2>1, <2>3 DEF Place
<1>6. QED
  BY <1>2, <1>3, <1>4, <1>5

\* What is printed: the digits up to the last that is not zero
LEMMA KeptKnown ==
  ASSUME DigitsKnown, NEW t \in Nat
  PROVE  /\ Kept(t) \in 0 .. Places
         /\ \A i \in Kept(t) + 1 .. Places : Place(t, i) = 0
         /\ Kept(t) = 0 \/ Place(t, Kept(t)) # 0
<1> DEFINE Enough == {k \in 0 .. Places : \A i \in k + 1 .. Places : Place(t, i) = 0}
<1>1. Places \in Enough
  BY DEF DigitsKnown
<1>2. Enough \subseteq Nat
  BY DEF DigitsKnown
<1>3. PICK k \in Enough : \A y \in Enough : k <= y
  BY <1>1, <1>2, Least
<1>4. ASSUME k # 0, Place(t, k) = 0 PROVE FALSE
  <2>1. k - 1 \in 0 .. Places
    BY <1>3, <1>4 DEF DigitsKnown
  <2>2. \A i \in (k - 1) + 1 .. Places : i = k \/ i \in k + 1 .. Places
    BY <1>3, <1>4 DEF DigitsKnown
  <2>3. k - 1 \in Enough
    BY <1>3, <1>4, <2>1, <2>2
  <2>4. QED
    BY <1>2, <1>3, <2>3
<1>5. QED
  BY <1>3, <1>4 DEF Kept

\* What is left of an instant after the digits dropped: nothing
LEMMA KeptWhole ==
  ASSUME DigitsKnown, NEW t \in Nat, NEW k \in 0 .. Places,
         \A i \in k + 1 .. Places : Place(t, i) = 0
  PROVE  t = Ticks(Places - k) * Upto(t, k)
<1> DEFINE Lost == {d \in 0 .. Places - k : t # Ticks(d) * Upto(t, Places - d)}
<1>1. SUFFICES Lost = {}
  BY DEF DigitsKnown
<1>2. SUFFICES ASSUME Lost # {} PROVE FALSE
  OBVIOUS
<1>3. Lost \subseteq Nat
  BY DEF DigitsKnown
<1>4. PICK d \in Lost : \A y \in Lost : d <= y
  BY <1>2, <1>3, Least
<1>5. d # 0
  <2>1. Ticks(0) * Upto(t, Places - 0) = t
    BY TicksKnown, UptoKnown DEF DigitsKnown
  <2>2. QED
    BY <1>4, <2>1
<1>6. d \in 1 .. 9 /\ d - 1 \in 0 .. Places - k /\ d - 1 \in 0 .. 8
  BY <1>4, <1>5 DEF DigitsKnown
<1>7. t = Ticks(d - 1) * Upto(t, Places - (d - 1))
  <2>1. d - 1 \notin Lost
    BY <1>3, <1>4, <1>6
  <2>2. QED
    BY <1>6, <2>1
<1> DEFINE i == Places - (d - 1)
<1>8. i \in k + 1 .. Places /\ i \in 1 .. Places /\ i - 1 = Places - d /\ i - 1 \in 0 .. Places
  BY <1>6 DEF DigitsKnown
<1> HIDE DEF i
<1>9. Upto(t, i) = 10 * Upto(t, Places - d) + Place(t, i) /\ Place(t, i) = 0
  BY <1>8, UptoKnown
<1>10. Upto(t, Places - d) \in Nat
  BY <1>8, UptoKnown
<1>11. Ticks(d) = 10 * Ticks(d - 1) /\ Ticks(d - 1) \in Nat
  BY <1>6, TicksKnown
<1>12. t = Ticks(d - 1) * Upto(t, i)
  BY <1>7 DEF i
<1>13. Upto(t, i) = 10 * Upto(t, Places - d)
  BY <1>9, <1>10
<1>14. t = Ticks(d) * Upto(t, Places - d)
  BY <1>10, <1>11, <1>12, <1>13
<1>15. QED
  BY <1>4, <1>14

\* The characters of two sequences put together
LEMMA Joined ==
  ASSUME NEW p \in Seq(Nat), NEW q \in Seq(Nat)
  PROVE  /\ p \o q \in Seq(Nat) /\ Len(p \o q) = Len(p) + Len(q)
         /\ \A i \in 1 .. Len(p) : (p \o q)[i] = p[i]
         /\ \A i \in 1 .. Len(q) : (p \o q)[Len(p) + i] = q[i]
<1>1. p \o q \in Seq(Nat) /\ Len(p \o q) = Len(p) + Len(q)
  BY ConcatProperties
<1>2. \A i \in 1 .. Len(p) + Len(q) : (p \o q)[i] = IF i <= Len(p) THEN p[i] ELSE q[i - Len(p)]
  BY ConcatProperties
<1>3. Len(p) \in Nat /\ Len(q) \in Nat
  OBVIOUS
<1>4. ASSUME NEW i \in 1 .. Len(p) PROVE (p \o q)[i] = p[i]
  <2>1. i \in 1 .. Len(p) + Len(q) /\ i <= Len(p)
    BY <1>3
  <2>2. QED
    BY <1>2, <2>1
<1>5. ASSUME NEW i \in 1 .. Len(q) PROVE (p \o q)[Len(p) + i] = q[i]
  <2>1. Len(p) + i \in 1 .. Len(p) + Len(q) /\ ~(Len(p) + i <= Len(p)) /\ (Len(p) + i) - Len(p) = i
    BY <1>3
  <2>2. QED
    BY <1>2, <2>1
<1>6. QED
  BY <1>1, <1>4, <1>5

\* The characters of a fraction
LEMMA FractionKnown ==
  ASSUME DigitsKnown, NEW t \in Nat, NEW k, k = Kept(t), k # 0
  PROVE  /\ Fraction(t) \in Seq(Nat) /\ Len(Fraction(t)) = k + 1
         /\ Fraction(t)[1] = Point
         /\ \A i \in 1 .. k : Fraction(t)[i + 1] = Digit(Place(t, i))
<1> DEFINE point == <<Point>>
           digits == [i \in 1 .. k |-> Digit(Place(t, i))]
<1>1. k \in 0 .. Places /\ k \in Nat
  BY KeptKnown DEF DigitsKnown
<1>2. ASSUME NEW i \in 1 .. k PROVE Digit(Place(t, i)) \in Nat
  <2>1. i \in 0 .. Places
    BY <1>1 DEF DigitsKnown
  <2>2. Place(t, i) \in 0 .. 9
    BY <2>1, UptoKnown
  <2>3. QED
    BY <2>2 DEF Digit
<1>3. point \in Seq(Nat) /\ Len(point) = 1 /\ point[1] = Point
  BY DEF Point
<1>4. digits \in Seq(Nat) /\ Len(digits) = k
  BY <1>1, <1>2
<1>5. \A i \in 1 .. k : digits[i] = Digit(Place(t, i))
  OBVIOUS
<1>6. Fraction(t) = point \o digits
  BY DEF Fraction
<1> HIDE DEF point, digits
<1>7. /\ point \o digits \in Seq(Nat) /\ Len(point \o digits) = 1 + k
      /\ \A i \in 1 .. 1 : (point \o digits)[i] = point[i]
      /\ \A i \in 1 .. k : (point \o digits)[1 + i] = digits[i]
  <2>1. /\ point \o digits \in Seq(Nat) /\ Len(point \o digits) = Len(point) + Len(digits)
        /\ \A i \in 1 .. Len(point) : (point \o digits)[i] = point[i]
        /\ \A i \in 1 .. Len(digits) : (point \o digits)[Len(point) + i] = digits[i]
    BY <1>3, <1>4, Joined, Zenon
  <2>2. QED
    BY <1>3, <1>4, <2>1
<1>8. (point \o digits)[1] = Point
  BY <1>3, <1>7
<1>9. ASSUME NEW i \in 1 .. k PROVE (point \o digits)[i + 1] = Digit(Place(t, i))
  <2>1. i + 1 = 1 + i
    BY <1>1
  <2>2. QED
    BY <1>5, <1>7, <2>1
<1>10. QED
  BY <1>1, <1>6, <1>7, <1>8, <1>9

\* The characters of a text
LEMMA TextKnown ==
  ASSUME DigitsKnown, NEW t \in Nat
  PROVE  /\ Text(t) \in Seq(Nat)
         /\ Text(t)[1] = Seconds(t)
         /\ Kept(t) = 0 => Len(Text(t)) = 2 /\ Text(t)[2] = Zulu
         /\ Kept(t) # 0 => Len(Text(t)) = Kept(t) + 3 /\ Text(t)[2] = Point /\ Text(t)[Kept(t) + 3] = Zulu
         /\ \A i \in 1 .. Kept(t) : Text(t)[i + 2] = Digit(Place(t, i))
<1> SUFFICES ASSUME NEW k, k = Kept(t)
             PROVE  /\ Text(t) \in Seq(Nat)
                    /\ Text(t)[1] = Seconds(t)
                    /\ k = 0 => Len(Text(t)) = 2 /\ Text(t)[2] = Zulu
                    /\ k # 0 => Len(Text(t)) = k + 3 /\ Text(t)[2] = Point /\ Text(t)[k + 3] = Zulu
                    /\ \A i \in 1 .. k : Text(t)[i + 2] = Digit(Place(t, i))
  BY Zenon
<1> DEFINE head == <<Seconds(t)>>
           tail == <<Zulu>>
           middle == Fraction(t)
           n == IF k = 0 THEN 0 ELSE k + 1
<1>1. k \in 0 .. Places /\ k \in Nat
  BY KeptKnown DEF DigitsKnown
<1>2. Seconds(t) \in Nat
  <2>1. 0 \in 0 .. Places
    BY DEF DigitsKnown
  <2>2. QED
    BY <2>1, UptoKnown DEF Seconds
<1>3. head \in Seq(Nat) /\ Len(head) = 1 /\ head[1] = Seconds(t)
  BY <1>2
<1>4. tail \in Seq(Nat) /\ Len(tail) = 1 /\ tail[1] = Zulu
  BY DEF Zulu
<1>5. middle \in Seq(Nat) /\ Len(middle) = n /\ n \in Nat
  <2>1. CASE k = 0
    BY <2>1 DEF Fraction
  <2>2. CASE k # 0
    BY <1>1, <2>2, FractionKnown
  <2>3. QED
    BY <2>1, <2>2
<1>6. Text(t) = (head \o middle) \o tail
  BY DEF Text
<1> HIDE DEF head, tail, middle, n
<1> DEFINE front == head \o middle
<1>7. /\ front \in Seq(Nat) /\ Len(front) = 1 + n
      /\ \A i \in 1 .. 1 : front[i] = head[i]
      /\ \A i \in 1 .. n : front[1 + i] = middle[i]
  <2>1. /\ front \in Seq(Nat) /\ Len(front) = Len(head) + Len(middle)
        /\ \A i \in 1 .. Len(head) : front[i] = head[i]
        /\ \A i \in 1 .. Len(middle) : front[Len(head) + i] = middle[i]
    BY <1>3, <1>5, Joined, Zenon
  <2>2. QED
    BY <1>3, <1>5, <2>1
<1>8. Text(t) = front \o tail /\ 1 + n \in Nat
  BY <1>5, <1>6
<1> HIDE DEF front
<1>9. /\ Text(t) \in Seq(Nat) /\ Len(Text(t)) = (1 + n) + 1
      /\ \A i \in 1 .. 1 + n : Text(t)[i] = front[i]
      /\ \A i \in 1 .. 1 : Text(t)[(1 + n) + i] = tail[i]
  <2>1. /\ front \o tail \in Seq(Nat) /\ Len(front \o tail) = Len(front) + Len(tail)
        /\ \A i \in 1 .. Len(front) : (front \o tail)[i] = front[i]
        /\ \A i \in 1 .. Len(tail) : (front \o tail)[Len(front) + i] = tail[i]
    BY <1>4, <1>7, Joined, Zenon
  <2>2. Len(front) = 1 + n /\ Len(tail) = 1
    BY <1>4, <1>7
  <2>3. QED
    BY <1>8, <2>1, <2>2
<1>10. ASSUME NEW i \in 1 .. n PROVE Text(t)[i + 1] = middle[i]
  <2>1. 1 + i \in 1 .. 1 + n /\ i + 1 = 1 + i
    BY <1>5
  <2>2. Text(t)[1 + i] = front[1 + i]
    BY <1>9, <2>1
  <2>3. QED
    BY <1>7, <2>1, <2>2
<1>11. Text(t)[1] = Seconds(t)
  <2>1. 1 \in 1 .. 1 + n /\ 1 \in 1 .. 1
    BY <1>5
  <2>2. Text(t)[1] = front[1] /\ front[1] = head[1]
    BY <1>7, <1>9, <2>1
  <2>3. QED
    BY <1>3, <2>2
<1>12. (1 + n) + 1 = IF k = 0 THEN 2 ELSE k + 3
  BY <1>1 DEF n
<1>13. Text(t)[(1 + n) + 1] = Zulu
  <2>1. 1 \in 1 .. 1
    OBVIOUS
  <2>2. QED
    BY <1>4, <1>9, <2>1
<1>14. ASSUME k # 0
       PROVE  Text(t)[2] = Point /\ \A i \in 1 .. k : Text(t)[i + 2] = Digit(Place(t, i))
  <2>1. n = k + 1 /\ 1 \in 1 .. n
    BY <1>1, <1>14 DEF n
  <2>2. middle[1] = Point /\ \A i \in 1 .. k : middle[i + 1] = Digit(Place(t, i))
    BY <1>14, FractionKnown DEF middle
  <2>3. Text(t)[1 + 1] = Point
    BY <1>10, <2>1, <2>2
  <2>4. ASSUME NEW i \in 1 .. k PROVE Text(t)[i + 2] = Digit(Place(t, i))
    <3>1. i + 1 \in 1 .. n /\ (i + 1) + 1 = i + 2
      BY <1>1, <2>1
    <3>2. Text(t)[(i + 1) + 1] = middle[i + 1]
      BY <1>10, <3>1
    <3>3. QED
      BY <2>2, <3>1, <3>2
  <2>5. QED
    BY <2>3, <2>4
<1>15. k = 0 => \A i \in 1 .. k : Text(t)[i + 2] = Digit(Place(t, i))
  OBVIOUS
<1>16. QED
  BY <1>9, <1>11, <1>12, <1>13, <1>14, <1>15

\* How texts begin and end
LEMMA TextEnds ==
  ASSUME DigitsKnown, NEW t \in Nat
  PROVE  /\ Text(t) \in Seq(Nat) /\ Text(t)[1] = Seconds(t)
         /\ Kept(t) = 0 => Len(Text(t)) = 2 /\ Text(t)[2] = Zulu
         /\ Kept(t) # 0 => Len(Text(t)) = Kept(t) + 3 /\ Text(t)[2] = Point
  BY TextKnown, Zenon

\* Every text has a first character.
LEMMA TextStarts ==
  ASSUME DigitsKnown, NEW t \in Nat
  PROVE  DOMAIN Text(t) = 1 .. Len(Text(t)) /\ 1 \in DOMAIN Text(t)
<1>1. /\ Text(t) \in Seq(Nat)
      /\ Kept(t) = 0 => Len(Text(t)) = 2
      /\ Kept(t) # 0 => Len(Text(t)) = Kept(t) + 3
  BY TextEnds, Zenon
<1>2. Kept(t) \in Nat
  BY KeptKnown DEF DigitsKnown
<1>3. \A n \in Nat : \A m : ((n = 0 => m = 2) /\ (n # 0 => m = n + 3)) => m >= 2
  BY SMT
<1>4. Len(Text(t)) >= 2
  BY <1>1, <1>2, <1>3, Zenon
<1>5. QED
  BY <1>1, <1>4

\* Where two instants first differ, the later one has the larger digit.
LEMMA FirstDifference ==
  ASSUME DigitsKnown, NEW t \in Nat, NEW u \in Nat, t <= u,
         NEW m \in 0 .. Places, Upto(t, m) # Upto(u, m)
  PROVE  \/ Seconds(t) < Seconds(u)
         \/ \E i \in 1 .. m : /\ Seconds(t) = Seconds(u)
                              /\ \A h \in 1 .. i - 1 : Place(t, h) = Place(u, h)
                              /\ Place(t, i) < Place(u, i)
<1> DEFINE Differ == {i \in 0 .. m : Upto(t, i) # Upto(u, i)}
<1>1. m \in Nat /\ m <= Places /\ Places \in Nat
  BY DEF DigitsKnown
<1>2. m \in Differ /\ Differ \subseteq Nat
  BY <1>1
<1>3. PICK i \in Differ : \A y \in Differ : i <= y
  BY <1>2, Least
<1>4. i \in 0 .. m /\ i \in 0 .. Places /\ Upto(t, i) # Upto(u, i)
  BY <1>1, <1>3
<1>5. ASSUME NEW h \in 0 .. i - 1 PROVE Upto(t, h) = Upto(u, h)
  <2>1. h \in 0 .. m /\ ~(i <= h)
    BY <1>1, <1>4
  <2>2. QED
    BY <1>3, <2>1
<1> HIDE DEF Differ
<1>6. Upto(t, i) < Upto(u, i)
  <2>1. Ticks(Places - i) \in Nat \ {0}
    BY <1>4, TicksKnown DEF DigitsKnown
  <2>2. Upto(t, i) <= Upto(u, i)
    BY <2>1, QuotientGrows DEF Upto
  <2>3. QED
    BY <1>4, <2>2, UptoKnown
<1>7. CASE i = 0
  BY <1>6, <1>7 DEF Seconds
<1>8. CASE i # 0
  <2>1. i \in 1 .. m /\ i \in 1 .. Places /\ 0 \in 0 .. i - 1 /\ i - 1 \in 0 .. i - 1
        /\ i - 1 \in 0 .. Places
    BY <1>1, <1>4, <1>8
  <2>2. Seconds(t) = Seconds(u)
    BY <1>5, <2>1 DEF Seconds
  <2>3. Place(t, i) < Place(u, i)
    <3>1. Upto(t, i - 1) = Upto(u, i - 1)
      BY <1>5, <2>1
    <3>2. /\ Upto(t, i) = 10 * Upto(t, i - 1) + Place(t, i)
          /\ Upto(u, i) = 10 * Upto(u, i - 1) + Place(u, i)
          /\ Upto(t, i - 1) \in Nat /\ Place(t, i) \in 0 .. 9 /\ Place(u, i) \in 0 .. 9
      BY <1>4, <2>1, UptoKnown
    <3>3. QED
      BY <1>6, <3>1, <3>2
  <2>4. ASSUME NEW h \in 1 .. i - 1 PROVE Place(t, h) = Place(u, h)
    <3>1. h \in 0 .. i - 1
      BY <2>1
    <3>2. QED
      BY <1>5, <3>1 DEF Place
  <2>5. QED
    BY <2>1, <2>2, <2>3, <2>4
<1>9. QED
  BY <1>7, <1>8

\* Up to a digit that is equal, instants are equal digit by digit.
LEMMA SameUpto ==
  ASSUME DigitsKnown, NEW t \in Nat, NEW u \in Nat, NEW k \in 0 .. Places, Upto(t, k) = Upto(u, k)
  PROVE  /\ \A i \in 0 .. k : Upto(t, i) = Upto(u, i)
         /\ Seconds(t) = Seconds(u)
         /\ \A i \in 1 .. k : Place(t, i) = Place(u, i)
<1> DEFINE Differ == {d \in 0 .. k : Upto(t, k - d) # Upto(u, k - d)}
<1>1. k \in Nat /\ k <= Places /\ Places \in Nat
  BY DEF DigitsKnown
<1>2. ASSUME Differ # {} PROVE FALSE
  <2>1. Differ \subseteq Nat
    BY <1>1
  <2>2. PICK d \in Differ : \A y \in Differ : d <= y
    BY <1>2, <2>1, Least
  <2>3. d \in 0 .. k /\ Upto(t, k - d) # Upto(u, k - d)
    BY <2>2
  <2>4. d # 0
    <3>1. k - 0 = k
      BY <1>1
    <3>2. QED
      BY <2>3, <3>1
  <2>5. d - 1 \in 0 .. k /\ ~(d <= d - 1)
    BY <1>1, <2>3, <2>4
  <2>6. Upto(t, k - (d - 1)) = Upto(u, k - (d - 1))
    <3>1. d - 1 \notin Differ
      BY <2>2, <2>5
    <3>2. QED
      BY <2>5, <3>1
  <2>7. PICK i \in 1 .. Places : i = k - (d - 1) /\ i - 1 = k - d
    BY <1>1, <2>3, <2>4
  <2>8. i \in 0 .. Places /\ i - 1 \in 0 .. Places
    BY <1>1, <2>7
  <2>9. /\ Upto(t, i) = 10 * Upto(t, i - 1) + Place(t, i)
        /\ Upto(u, i) = 10 * Upto(u, i - 1) + Place(u, i)
        /\ Upto(t, i - 1) \in Nat /\ Upto(u, i - 1) \in Nat
        /\ Place(t, i) \in 0 .. 9 /\ Place(u, i) \in 0 .. 9
    BY <2>8, UptoKnown
  <2>10. Upto(t, i) = Upto(u, i) /\ Upto(t, i - 1) # Upto(u, i - 1)
    BY <2>3, <2>6, <2>7
  <2>11. QED
    BY <2>9, <2>10
<1>3. ASSUME NEW i \in 0 .. k PROVE Upto(t, i) = Upto(u, i)
  <2>1. k - i \in 0 .. k /\ k - (k - i) = i
    BY <1>1
  <2>2. k - i \notin Differ
    BY <1>2
  <2>3. QED
    BY <2>1, <2>2
<1> HIDE DEF Differ
<1>4. Seconds(t) = Seconds(u)
  BY <1>1, <1>3 DEF Seconds
<1>5. \A i \in 1 .. k : Place(t, i) = Place(u, i)
  BY <1>1, <1>3 DEF Place
<1>6. QED
  BY <1>3, <1>4, <1>5

\* Texts whose seconds and first m digits are equal begin alike.
LEMMA SameStart ==
  ASSUME DigitsKnown, NEW t \in Nat, NEW u \in Nat, Kept(t) # 0, Kept(u) # 0,
         NEW m \in Nat, m <= Kept(t), m <= Kept(u), Seconds(t) = Seconds(u),
         \A i \in 1 .. m : Place(t, i) = Place(u, i)
  PROVE  \A h \in 1 .. m + 2 : Text(t)[h] = Text(u)[h]
<1>1. Kept(t) \in Nat /\ Kept(u) \in Nat
  BY KeptKnown DEF DigitsKnown
<1>2. Text(t)[1] = Text(u)[1] /\ Text(t)[2] = Text(u)[2]
  <2>1. Text(t)[1] = Seconds(t) /\ Text(t)[2] = Point
    BY TextEnds, Zenon
  <2>2. Text(u)[1] = Seconds(u) /\ Text(u)[2] = Point
    BY TextEnds, Zenon
  <2>3. QED
    BY <2>1, <2>2
<1>3. ASSUME NEW i \in 1 .. m PROVE Text(t)[i + 2] = Text(u)[i + 2]
  <2>1. i \in 1 .. Kept(t) /\ i \in 1 .. Kept(u)
    BY <1>1
  <2>2. Text(t)[i + 2] = Digit(Place(t, i)) /\ Text(u)[i + 2] = Digit(Place(u, i))
    BY <2>1, TextKnown
  <2>3. QED
    BY <2>2
<1>4. ASSUME NEW h \in 1 .. m + 2 PROVE Text(t)[h] = Text(u)[h]
  <2>1. CASE h > 2
    <3>1. PICK i \in 1 .. m : h = i + 2
      BY <2>1
    <3>2. QED
      BY <1>3, <3>1
  <2>2. CASE h <= 2
    <3>1. h = 1 \/ h = 2
      BY <2>2
    <3>2. QED
      BY <1>2, <3>1
  <2>3. QED
    BY <2>1, <2>2
<1>5. QED
  BY <1>4

\* A multiple and the rest
LEMMA Steps ==
  ASSUME NEW u \in Nat, NEW g \in Nat \ {0}, NEW q \in Nat
  PROVE  /\ u >= g * q + g => q < u \div g
         /\ (g * q <= u /\ u < g * q + g) => u \div g = q
<1> DEFINE p == u \div g
<1>1. p \in Nat /\ g * p <= u /\ u < g * p + g
  OBVIOUS
<1> HIDE DEF p
<1>2. ASSUME u >= g * q + g, p <= q PROVE FALSE
  <2>1. g * p <= g * q
    BY <1>1, <1>2
  <2>2. QED
    BY <1>1, <1>2, <2>1
<1>3. ASSUME g * q <= u, u < g * q + g PROVE p = q
  <2>1. ASSUME p < q PROVE FALSE
    <3>1. g * (p + 1) <= g * q
      BY <1>1, <2>1
    <3>2. g * (p + 1) = g * p + g
      BY <1>1
    <3>3. QED
      BY <1>1, <1>3, <3>1, <3>2
  <2>2. ASSUME q < p PROVE FALSE
    <3>1. g * (q + 1) <= g * p
      BY <1>1, <2>2
    <3>2. g * (q + 1) = g * q + g
      BY <1>1
    <3>3. QED
      BY <1>1, <1>3, <3>1, <3>2
  <2>3. QED
    BY <1>1, <2>1, <2>2
<1>4. QED
  BY <1>1, <1>2, <1>3 DEF p

\* What an instant is above its dropped digits
LEMMA GrainKnown ==
  ASSUME DigitsKnown, NEW t \in Nat
  PROVE  /\ Grain(t) \in Nat \ {0} /\ t = Grain(t) * Upto(t, Kept(t))
         /\ \A u \in Nat : Upto(u, Kept(t)) = u \div Grain(t)
<1>1. Places - Kept(t) \in 0 .. 9 /\ Kept(t) \in 0 .. Places
  <2>1. Kept(t) \in 0 .. Places
    BY KeptKnown
  <2>2. QED
    BY <2>1 DEF DigitsKnown
<1>2. Grain(t) \in Nat \ {0}
  BY <1>1, TicksKnown DEF Grain
<1>3. t = Grain(t) * Upto(t, Kept(t))
  BY <1>1, KeptKnown, KeptWhole DEF Grain
<1>4. QED
  BY <1>2, <1>3 DEF Upto, Grain

\* An instant that is later by more than the digits dropped sorts later.
LEMMA SortsLater ==
  ASSUME DigitsKnown, NEW t \in Nat, NEW u \in Nat, u - t >= Grain(t)
  PROVE  SortsBefore(Text(t), Text(u))
<1> DEFINE k == Kept(t)
           l == Kept(u)
           p == Text(t)
           q == Text(u)
<1>1. k \in 0 .. Places /\ l \in 0 .. Places /\ k \in Nat /\ l \in Nat
  BY KeptKnown DEF DigitsKnown
<1>2. t <= u /\ Upto(t, k) # Upto(u, k)
  <2>1. /\ Grain(t) \in Nat \ {0} /\ t = Grain(t) * Upto(t, k) /\ Upto(u, k) = u \div Grain(t)
        /\ Upto(t, k) \in Nat
    BY <1>1, GrainKnown, UptoKnown
  <2>2. t <= u /\ u >= Grain(t) * Upto(t, k) + Grain(t)
    BY <2>1
  <2>3. Upto(t, k) < Upto(u, k)
    BY <2>1, <2>2, Steps
  <2>4. QED
    BY <2>1, <2>2, <2>3
<1>3. DOMAIN p = 1 .. Len(p) /\ DOMAIN q = 1 .. Len(q) /\ 1 \in DOMAIN p /\ 1 \in DOMAIN q
  BY TextStarts, Zenon
<1>4. CASE Seconds(t) < Seconds(u)
  <2>1. p[1] = Seconds(t) /\ q[1] = Seconds(u)
    BY TextKnown
  <2>2. \A h \in 1 .. 1 - 1 : p[h] = q[h]
    OBVIOUS
  <2>3. QED
    BY <1>3, <1>4, <2>1, <2>2 DEF SortsBefore
<1>5. ASSUME NEW i \in 1 .. k, Seconds(t) = Seconds(u),
             \A h \in 1 .. i - 1 : Place(t, h) = Place(u, h), Place(t, i) < Place(u, i)
      PROVE  SortsBefore(Text(t), Text(u))
  <2>1. i \in 0 .. Places /\ i \in 1 .. Places /\ i - 1 \in Nat /\ k # 0
    BY <1>1 DEF DigitsKnown
  <2>2. Place(t, i) \in 0 .. 9 /\ Place(u, i) \in 0 .. 9
    BY <2>1, UptoKnown
  <2>3. i <= l
    <3>1. SUFFICES ASSUME l < i PROVE FALSE
      BY <1>1
    <3>2. i \in l + 1 .. Places
      BY <1>1, <2>1, <3>1
    <3>3. Place(u, i) = 0
      BY <3>2, KeptKnown
    <3>4. QED
      BY <1>5, <2>2, <3>3
  <2>4. l # 0 /\ i \in 1 .. l
    BY <1>1, <2>1, <2>3
  <2>5. p[i + 2] = Digit(Place(t, i)) /\ q[i + 2] = Digit(Place(u, i))
    BY <2>4, TextKnown
  <2>6. p[i + 2] < q[i + 2]
    BY <1>5, <2>2, <2>5 DEF Digit
  <2>7. i + 2 \in DOMAIN p \cap DOMAIN q
    <3>1. Len(p) = k + 3 /\ Len(q) = l + 3
      BY <2>1, <2>4, TextKnown
    <3>2. QED
      BY <1>1, <1>3, <2>3, <3>1
  <2>8. \A h \in 1 .. (i - 1) + 2 : p[h] = q[h]
    <3>1. i - 1 <= k /\ i - 1 <= l
      BY <1>1, <2>3
    <3>2. QED
      BY <1>5, <2>1, <2>4, <3>1, SameStart
  <2>9. (i + 2) - 1 = (i - 1) + 2
    BY <2>1
  <2>10. QED
    BY <2>6, <2>7, <2>8, <2>9 DEF SortsBefore
<1>6. \/ Seconds(t) < Seconds(u)
      \/ \E i \in 1 .. k : /\ Seconds(t) = Seconds(u)
                           /\ \A h \in 1 .. i - 1 : Place(t, h) = Place(u, h)
                           /\ Place(t, i) < Place(u, i)
  BY <1>1, <1>2, FirstDifference
<1>7. QED
  BY <1>4, <1>5, <1>6

\* A later instant within the digits dropped sorts earlier.
LEMMA SortsSwapped ==
  ASSUME DigitsKnown, NEW t \in Nat, NEW u \in Nat, t < u, u - t < Grain(t)
  PROVE  SortsBefore(Text(u), Text(t))
<1> DEFINE k == Kept(t)
           l == Kept(u)
           p == Text(t)
           q == Text(u)
<1>1. k \in 0 .. Places /\ l \in 0 .. Places /\ k \in Nat /\ l \in Nat /\ Places \in Nat
  BY KeptKnown DEF DigitsKnown
<1>2. /\ Grain(t) \in Nat \ {0} /\ t = Grain(t) * Upto(t, k) /\ Upto(u, k) = u \div Grain(t)
      /\ Upto(t, k) \in Nat
  BY <1>1, GrainKnown, UptoKnown
<1>3. Upto(u, k) = Upto(t, k)
  <2>1. Grain(t) * Upto(t, k) <= u /\ u < Grain(t) * Upto(t, k) + Grain(t)
    BY <1>2
  <2>2. QED
    BY <1>2, <2>1, Steps
<1>4. Seconds(u) = Seconds(t) /\ \A i \in 1 .. k : Place(u, i) = Place(t, i)
  BY <1>1, <1>3, SameUpto
<1>5. k < l
  <2>1. SUFFICES ASSUME l <= k PROVE FALSE
    BY <1>1
  <2>2. \A i \in k + 1 .. Places : Place(u, i) = 0
    <3>1. \A i \in k + 1 .. Places : i \in l + 1 .. Places
      BY <1>1, <2>1
    <3>2. QED
      BY <3>1, KeptKnown
  <2>3. u = Ticks(Places - k) * Upto(u, k)
    BY <1>1, <2>2, KeptWhole
  <2>4. u = t
    BY <1>2, <1>3, <2>3 DEF Grain
  <2>5. QED
    BY <2>4
<1>6. /\ DOMAIN p = 1 .. Len(p) /\ DOMAIN q = 1 .. Len(q)
      /\ Len(p) = (IF k = 0 THEN 2 ELSE k + 3) /\ Len(q) = l + 3
  <2>1. p \in Seq(Nat) /\ q \in Seq(Nat)
    BY TextEnds
  <2>2. l # 0
    BY <1>1, <1>5
  <2>3. /\ k = 0 => Len(p) = 2
        /\ k # 0 => Len(p) = k + 3
        /\ Len(q) = l + 3
    BY <2>2, TextEnds, Zenon
  <2>4. QED
    BY <2>1, <2>3
<1>7. CASE k = 0
  <2>1. p[2] = Zulu /\ q[2] = Point /\ p[1] = q[1]
    <3>1. l # 0
      BY <1>1, <1>5
    <3>2. QED
      BY <1>4, <1>7, <3>1, TextEnds, Zenon
  <2>2. q[2] < p[2]
    BY <2>1 DEF Zulu, Point
  <2>3. 2 \in DOMAIN q \cap DOMAIN p /\ \A h \in 1 .. 2 - 1 : h = 1
    BY <1>1, <1>6, <1>7
  <2>4. QED
    BY <2>1, <2>2, <2>3 DEF SortsBefore
<1>8. CASE k # 0
  <2>1. k + 1 \in 1 .. l /\ k + 1 \in 0 .. Places /\ l # 0
    BY <1>1, <1>5
  <2>2. p[k + 3] = Zulu
    BY <1>8, TextKnown
  <2>3. q[(k + 1) + 2] = Digit(Place(u, k + 1)) /\ Place(u, k + 1) \in 0 .. 9
    BY <2>1, TextKnown, UptoKnown
  <2>4. (k + 1) + 2 = k + 3 /\ (k + 3) - 1 = k + 2
    BY <1>1
  <2>5. q[k + 3] < p[k + 3]
    BY <2>2, <2>3, <2>4 DEF Zulu, Digit
  <2>6. k + 3 \in DOMAIN q \cap DOMAIN p
    BY <1>1, <1>5, <1>6, <1>8
  <2>7. \A h \in 1 .. k + 2 : q[h] = p[h]
    BY <1>1, <1>4, <1>5, <1>8, <2>1, SameStart
  <2>8. QED
    BY <2>4, <2>5, <2>6, <2>7 DEF SortsBefore
<1>9. QED
  BY <1>7, <1>8

\* ORDER BY is a strict order on texts.
LEMMA SortsStrictly ==
  ASSUME NEW p \in Seq(Nat), NEW q \in Seq(Nat), NEW r \in Seq(Nat)
  PROVE  /\ ~SortsBefore(p, p)
         /\ SortsBefore(p, q) /\ SortsBefore(q, r) => SortsBefore(p, r)
<1>1. ~SortsBefore(p, p)
  BY DEF SortsBefore
<1>2. ASSUME SortsBefore(p, q), SortsBefore(q, r) PROVE SortsBefore(p, r)
  <2>1. PICK i \in DOMAIN p \cap DOMAIN q : p[i] < q[i] /\ \A h \in 1 .. i - 1 : p[h] = q[h]
    BY <1>2 DEF SortsBefore
  <2>2. PICK j \in DOMAIN q \cap DOMAIN r : q[j] < r[j] /\ \A h \in 1 .. j - 1 : q[h] = r[h]
    BY <1>2 DEF SortsBefore
  <2>3. /\ DOMAIN p = 1 .. Len(p) /\ DOMAIN q = 1 .. Len(q) /\ DOMAIN r = 1 .. Len(r)
        /\ Len(p) \in Nat /\ Len(q) \in Nat /\ Len(r) \in Nat
    OBVIOUS
  <2>4. i \in 1 .. Len(p) /\ i \in 1 .. Len(q) /\ j \in 1 .. Len(q) /\ j \in 1 .. Len(r)
    BY <2>1, <2>2, <2>3
  <2>5. i \in Nat \ {0} /\ j \in Nat \ {0}
    BY <2>3, <2>4
  <2>6. p[i] \in Nat /\ q[i] \in Nat /\ q[j] \in Nat /\ r[j] \in Nat
    BY <2>4
  <2>7. CASE i < j
    <3>1. i \in DOMAIN r
      BY <2>3, <2>4, <2>7
    <3>2. i \in 1 .. j - 1 /\ \A h \in 1 .. i - 1 : h \in 1 .. j - 1
      BY <2>5, <2>7
    <3>3. p[i] < r[i] /\ \A h \in 1 .. i - 1 : p[h] = r[h]
      BY <2>1, <2>2, <3>2
    <3>4. QED
      BY <2>1, <3>1, <3>3 DEF SortsBefore
  <2>8. CASE j < i
    <3>1. j \in DOMAIN p
      BY <2>3, <2>4, <2>8
    <3>2. j \in 1 .. i - 1 /\ \A h \in 1 .. j - 1 : h \in 1 .. i - 1
      BY <2>5, <2>8
    <3>3. p[j] < r[j] /\ \A h \in 1 .. j - 1 : p[h] = r[h]
      BY <2>1, <2>2, <3>2
    <3>4. QED
      BY <2>2, <3>1, <3>3 DEF SortsBefore
  <2>9. CASE i = j
    <3>1. p[i] < r[i]
      BY <2>1, <2>2, <2>6, <2>9
    <3>2. \A h \in 1 .. i - 1 : p[h] = r[h]
      BY <2>1, <2>2, <2>9
    <3>3. QED
      BY <2>1, <2>2, <2>9, <3>1, <3>2 DEF SortsBefore
  <2>10. QED
    BY <2>5, <2>7, <2>8, <2>9
<1>3. QED
  BY <1>1, <1>2

\* Texts sort like the instants exactly as far as no digit that was dropped
\* tells them apart.
THEOREM TextOrder ==
  ASSUME DigitsKnown, NEW t \in Nat, NEW u \in Nat, t < u
  PROVE  /\ SortsBefore(Text(t), Text(u)) <=> u - t >= Grain(t)
         /\ SortsBefore(Text(u), Text(t)) <=> u - t < Grain(t)
<1>1. Grain(t) \in Nat
  BY GrainKnown
<1>2. u - t >= Grain(t) => SortsBefore(Text(t), Text(u))
  BY SortsLater
<1>3. u - t < Grain(t) => SortsBefore(Text(u), Text(t))
  BY SortsSwapped
<1>4. Text(t) \in Seq(Nat) /\ Text(u) \in Seq(Nat)
  BY TextEnds, Zenon
<1>5. ~(SortsBefore(Text(t), Text(u)) /\ SortsBefore(Text(u), Text(t)))
  BY <1>4, SortsStrictly
<1>6. u - t >= Grain(t) \/ u - t < Grain(t)
  BY <1>1
<1>7. QED
  BY <1>2, <1>3, <1>5, <1>6

\* A text that sorts before another has the smaller rank.
LEMMA RankGrows ==
  ASSUME DigitsKnown, NEW T, T \subseteq Nat, IsFiniteSet(T), NEW t \in T, NEW u \in T,
         SortsBefore(Text(t), Text(u))
  PROVE  RankIn(T)[t] < RankIn(T)[u]
<1> DEFINE Before(x) == {y \in T : SortsBefore(Text(y), Text(x))}
<1>1. \A x \in T : Text(x) \in Seq(Nat)
  BY TextEnds
<1>2. IsFiniteSet(Before(u)) /\ IsFiniteSet(Before(t))
  BY FS_Subset
<1>3. Before(t) \subseteq Before(u)
  <2>1. SUFFICES ASSUME NEW y \in T, SortsBefore(Text(y), Text(t))
                 PROVE  SortsBefore(Text(y), Text(u))
    OBVIOUS
  <2>2. Text(y) \in Seq(Nat) /\ Text(t) \in Seq(Nat) /\ Text(u) \in Seq(Nat)
    BY <1>1, Zenon
  <2>3. QED
    BY <2>1, <2>2, SortsStrictly
<1>4. t \in Before(u) /\ t \notin Before(t)
  BY <1>1, SortsStrictly
<1>5. /\ Cardinality(Before(t)) <= Cardinality(Before(u))
      /\ Cardinality(Before(u)) = Cardinality(Before(t)) => Before(u) = Before(t)
  BY <1>2, <1>3, FS_Subset
<1>6. Cardinality(Before(t)) \in Nat /\ Cardinality(Before(u)) \in Nat
  BY <1>2, FS_CardinalityType
<1>7. Cardinality(Before(t)) < Cardinality(Before(u))
  BY <1>4, <1>5, <1>6
<1>8. RankIn(T)[t] = Cardinality(Before(t)) /\ RankIn(T)[u] = Cardinality(Before(u))
  BY Zenon DEF RankIn
<1>9. QED
  BY <1>7, <1>8

\* The digits dropped are less than what instants of different seconds are apart.
THEOREM SecondsApart ==
  ASSUME DigitsKnown, NEW t \in Nat, NEW u \in Nat, Seconds(t) < Seconds(u)
  PROVE  t + Grain(t) <= u
<1>1. Text(t)[1] = Seconds(t) /\ Text(u)[1] = Seconds(u)
  BY TextEnds, Zenon
<1>2. 1 \in DOMAIN Text(t) \cap DOMAIN Text(u)
  BY TextStarts
<1>3. \A h \in 1 .. 1 - 1 : Text(t)[h] = Text(u)[h]
  OBVIOUS
<1>4. SortsBefore(Text(t), Text(u))
  BY <1>1, <1>2, <1>3 DEF SortsBefore
<1>5. t < u
  <2>1. SUFFICES ASSUME u <= t PROVE FALSE
    OBVIOUS
  <2>2. Places \in 0 .. 9 /\ Places - 0 \in 0 .. 9 /\ 0 \in 0 .. Places
    BY DEF DigitsKnown
  <2>3. Seconds(u) <= Seconds(t)
    BY <2>1, <2>2, QuotientGrows, TicksKnown DEF Seconds, Upto
  <2>4. Seconds(t) \in Nat /\ Seconds(u) \in Nat
    BY <2>2, UptoKnown DEF Seconds
  <2>5. QED
    BY <2>3, <2>4
<1>6. u - t >= Grain(t) /\ Grain(t) \in Nat
  BY <1>4, <1>5, TextOrder, GrainKnown
<1>7. QED
  BY <1>6

-----------------------------------------------------------------------------
(* FIFO *)

\* The text order of created_at is the order of time.
InTimeOrder == \A s, t \in Stamps : s < t => SortKey[s] < SortKey[t]

\* SortKey is the rank of the texts in ORDER BY created_at.
ByText == DigitsKnown /\ SortKey = RankIn(Stamps) /\ IsFiniteSet(Stamps)

\* Every step keeps the order.
LEMMA OrderStep ==
  ASSUME TypeOK, TypeOK', Discipline, Order, [Next]_vars
  PROVE  Order'
<1> USE DEF TypeOK, Order, Waiting, store, disk, process, env
<1>1. CASE AdmStart
  BY <1>1 DEF AdmStart, IdleAdm
<1>2. CASE AdmScan
  BY <1>2 DEF AdmScan, AdmGo, IdleAdm, Oldest
<1>3. CASE AdmReserve
  BY <1>3 DEF AdmReserve, AdmGo, AdmFail, IdleAdm
<1>4. CASE AdmPrepare
  BY <1>4 DEF AdmPrepare, AdmGo, AdmFail
<1>5. CASE AdmAdmit
  BY <1>5 DEF AdmAdmit, AdmGo, AdmFail
<1>6. CASE AdmFailed
  BY <1>6 DEF AdmFailed, AdmGo
<1>7. CASE GcStart
  BY <1>7 DEF GcStart
<1>8. CASE GcRemove
  BY <1>8 DEF GcRemove
<1>9. CASE GcEnd
  BY <1>9 DEF GcEnd
<1>10. CASE GcAbort
  BY <1>10 DEF GcAbort
<1>11. CASE Crash
  BY <1>11, StampAssumption DEF Crash, IdleAdm
<1>12. CASE Restart
  BY <1>12 DEF Restart
<1>13. CASE EndReconcile
  BY <1>13 DEF EndReconcile
<1>14. CASE EndRecover
  BY <1>14 DEF EndRecover
<1>15. ASSUME NEW j \in Jobs, GcExpire(j) PROVE Order'
  BY <1>15 DEF GcExpire, Abandoned, Expiring, Open
<1>16. ASSUME NEW j \in Jobs, Reconcile(j) PROVE Order'
  BY <1>16 DEF Reconcile, Open
<1>17. ASSUME NEW j \in Jobs, Sweep(j) PROVE Order'
  BY <1>17 DEF Sweep
<1>18. ASSUME NEW j \in Jobs, Arrive(j) PROVE Order'
  <2>1. PICK t \in Stamps : t > clock /\ clock' = t /\ arrival' = [arrival EXCEPT ![j] = t]
    BY <1>18 DEF Arrive
  <2>2. /\ state' = state /\ stamp' = stamp /\ overdue' = overdue /\ adm' = adm
        /\ state[j] = "ABSENT" /\ stamp[j] = 0
        /\ seen' = [seen EXCEPT ![j] = {k \in Jobs : state[k] = "PENDING"}]
    BY <1>18 DEF Arrive
  <2>3. t \in Nat /\ clock \in Nat /\ t > 0
    BY StampAssumption
  <2>4. \A k \in Jobs : stamp[k] \in Nat /\ arrival[k] \in Nat
    <3>1. {0} \cup Stamps \subseteq Nat
      BY StampAssumption
    <3>2. \A k \in Jobs : stamp[k] \in {0} \cup Stamps /\ arrival[k] \in {0} \cup Stamps
      OBVIOUS
    <3>3. QED
      BY <3>1, <3>2
  <2>5. \A i \in Jobs : stamp'[i] <= clock' /\ arrival'[i] <= clock'
    BY <2>1, <2>2, <2>3, <2>4
  <2>6. \A k \in seen'[j] : k \in Jobs /\ stamp[k] # 0 /\ stamp[k] < t
    BY <2>1, <2>2, <2>3, <2>4
  <2>7. \A i \in Jobs : \A k \in seen'[i] :
          /\ stamp'[k] # 0
          /\ arrival'[i] # 0 => stamp'[k] < arrival'[i]
          /\ stamp'[i] # 0 => stamp'[k] < stamp'[i]
    BY <2>1, <2>2, <2>6
  <2>8. adm.pc \in {"reserve", "prepare", "admit"} => adm.job # j
    BY <2>2 DEF Discipline
  <2>9. Waiting' = Waiting
    BY <2>2
  <2>10. ASSUME adm'.pc \in {"reserve", "prepare", "admit"}, NEW k \in seen'[adm'.job] \cap Waiting'
         PROVE  SortKey[stamp'[adm'.job]] <= SortKey[stamp'[k]]
    <3>1. adm.pc \in {"reserve", "prepare", "admit"} /\ adm'.job = adm.job /\ adm.job # j
      BY <2>2, <2>8, <2>10
    <3>2. seen'[adm.job] = seen[adm.job]
      BY <2>2, <3>1, Zenon
    <3>3. k \in seen[adm.job] \cap Waiting
      BY <2>9, <2>10, <3>1, <3>2
    <3>4. SortKey[stamp[adm.job]] <= SortKey[stamp[k]]
      BY <3>1, <3>3
    <3>5. QED
      BY <2>2, <3>1, <3>4
  <2>11. QED
    BY <2>2, <2>5, <2>7, <2>10
<1>19. ASSUME NEW j \in Jobs, Insert(j) PROVE Order'
  BY <1>19 DEF Insert, Discipline
<1>20. ASSUME NEW j \in Jobs, TimePasses(j) PROVE Order'
  BY <1>20 DEF TimePasses
<1>21. ASSUME NEW j \in Jobs, Finish(j) PROVE Order'
  BY <1>21 DEF Finish
<1>22. ASSUME NEW j \in Jobs, ReadJob(j) PROVE Order'
  BY <1>22 DEF ReadJob
<1>23. ASSUME NEW j \in Jobs, ReleaseJob(j) PROVE Order'
  BY <1>23 DEF ReleaseJob
<1>24. ASSUME NEW j \in Jobs, ReleaseCapacity(j) PROVE Order'
  BY <1>24 DEF ReleaseCapacity
<1>25. ASSUME NEW j \in Jobs, ReleaseRow(j) PROVE Order'
  BY <1>25 DEF ReleaseRow
<1>26. ASSUME NEW j \in Jobs, RecordFailed(j) PROVE Order'
  BY <1>26 DEF RecordFailed, FinAt, Discipline
<1>27. ASSUME NEW j \in Jobs, CleanupSpool(j) PROVE Order'
  BY <1>27 DEF CleanupSpool
<1>28. ASSUME NEW j \in Jobs, ChunkStored(j) PROVE Order'
  BY <1>28 DEF ChunkStored, Open
<1>29. ASSUME NEW j \in Jobs, ChunkRejected(j) PROVE Order'
  BY <1>29 DEF ChunkRejected
<1>30. ASSUME NEW j \in Jobs, ChunkReplayed(j) PROVE Order'
  BY <1>30 DEF ChunkReplayed, Open
<1>31. ASSUME NEW j \in Jobs, Complete(j) PROVE Order'
  BY <1>31 DEF Complete, Open
<1>32. CASE UNCHANGED vars
  BY <1>32 DEF vars
<1>33. QED
  BY <1>1, <1>2, <1>3, <1>4, <1>5, <1>6, <1>7, <1>8, <1>9, <1>10, <1>11, <1>12, <1>13, <1>14, <1>15, <1>16, <1>17, <1>18, <1>19, <1>20, <1>21, <1>22, <1>23, <1>24, <1>25, <1>26, <1>27, <1>28, <1>29, <1>30, <1>31, <1>32 DEF Next, AdmStep, GcStep, BootStep, FinStep

\* Who was seen waiting has the earlier instant.
LEMMA SeenEarlier ==
  ASSUME IInv, Order, NEW j \in Jobs, state[j] = "PENDING", NEW k \in seen[j]
  PROVE  k \in Jobs /\ stamp[k] \in Stamps /\ stamp[j] \in Stamps /\ stamp[k] < stamp[j]
  BY DEF IInv, TypeOK, Order

\* An admission goes over no job that was waiting when its request began and
\* whose created_at sorts before its own.
Precedes(k, j) == SortKey[stamp[k]] < SortKey[stamp[j]]

ByTextStep ==
  \A j \in Jobs : (state[j] = "PENDING" /\ state'[j] = "ADMITTED") =>
    \A k \in seen[j] : Precedes(k, j) => ~(state[k] = "PENDING" /\ ~overdue[k])

LEMMA AdmitsInTextOrder ==
  ASSUME IInv, Order, [Next]_vars
  PROVE  ByTextStep
<1>1. SUFFICES ASSUME NEW j \in Jobs, state[j] = "PENDING", state'[j] = "ADMITTED",
                      NEW k \in seen[j], Precedes(k, j)
               PROVE  ~(state[k] = "PENDING" /\ ~overdue[k])
  BY DEF ByTextStep
<1>2. state \in [Jobs -> States] /\ k \in Jobs
  BY <1>1 DEF IInv, TypeOK
<1>3. AdmAdmit /\ adm.job = j
  <2>1. ASSUME AdmAdmit PROVE adm.job = j
    BY <1>1, <1>2, <2>1 DEF AdmAdmit
  <2>2. ASSUME state' = state PROVE FALSE
    BY <1>1, <2>2
  <2>3. ASSUME NEW i \in Jobs, NEW v \in States \ {"ADMITTED"}, state' = [state EXCEPT ![i] = v]
        PROVE  FALSE
    BY <1>1, <1>2, <2>3
  <2> USE DEF States, store, disk, process, env
  <2>4. ASSUME NEW i \in Jobs,
               \/ GcExpire(i) \/ Reconcile(i) \/ Insert(i) \/ Finish(i) \/ RecordFailed(i)
               \/ ChunkStored(i) \/ Complete(i)
        PROVE  FALSE
    BY <2>2, <2>3, <2>4 DEF GcExpire, Reconcile, Insert, Finish, RecordFailed, ChunkStored, Complete
  <2>5. ASSUME NEW i \in Jobs,
               \/ Sweep(i) \/ Arrive(i) \/ TimePasses(i) \/ ReadJob(i) \/ ReleaseJob(i)
               \/ ReleaseCapacity(i) \/ ReleaseRow(i) \/ CleanupSpool(i)
               \/ ChunkRejected(i) \/ ChunkReplayed(i)
        PROVE  FALSE
    BY <2>2, <2>5 DEF Sweep, Arrive, TimePasses, ReadJob, ReleaseJob, ReleaseCapacity,
                      ReleaseRow, CleanupSpool, ChunkRejected, ChunkReplayed
  <2>6. ASSUME \/ AdmStart \/ AdmScan \/ AdmReserve \/ AdmPrepare \/ AdmFailed \/ GcStart
               \/ GcRemove \/ GcEnd \/ GcAbort \/ Crash \/ Restart \/ EndReconcile
               \/ EndRecover \/ UNCHANGED vars
        PROVE  FALSE
    BY <2>2, <2>6 DEF AdmStart, AdmScan, AdmReserve, AdmPrepare, AdmFailed, GcStart, GcRemove,
                      GcEnd, GcAbort, Crash, Restart, EndReconcile, EndRecover, vars
  <2>7. QED
    BY <1>1, <2>1, <2>4, <2>5, <2>6 DEF Next, AdmStep, GcStep, BootStep, FinStep
<1>4. SortKey[stamp[k]] \in Nat /\ SortKey[stamp[j]] \in Nat
  BY <1>1, SeenEarlier, StampAssumption
<1>5. k \in Waiting => SortKey[stamp[j]] <= SortKey[stamp[k]]
  BY <1>1, <1>3 DEF AdmAdmit, Order
<1>6. k \notin Waiting
  BY <1>1, <1>4, <1>5 DEF Precedes
<1>7. QED
  BY <1>2, <1>6 DEF Waiting

\* Where a job sorts before the one that is admitted: at the time of the step,
\* Order has it that no such job is waiting.
THEOREM FifoByText == Spec => [][ByTextStep]_vars
<1>1. Init => Order
  BY StampAssumption DEF Init, Order, IdleAdm
<1>2. IInv /\ IInv' /\ Order /\ [Next]_vars => Order'
  BY OrderStep DEF IInv
<1>3. IInv /\ Order /\ [Next]_vars => [ByTextStep]_vars
  BY AdmitsInTextOrder
<1>4. QED
  BY Invariance, <1>1, <1>2, <1>3, PTL DEF Spec

\* When created_at texts sort in time order, no job is admitted over one that
\* was already waiting when its request began, through any interleaving of
\* requests, admissions, expiries, failures and restarts.
THEOREM Fifo == InTimeOrder => (Spec => FifoAdmission)
<1> SUFFICES ASSUME InTimeOrder PROVE Spec => FifoAdmission
  OBVIOUS
<1>1. Init => Order
  BY StampAssumption DEF Init, Order, IdleAdm
<1>2. IInv /\ IInv' /\ Order /\ [Next]_vars => Order'
  BY OrderStep DEF IInv
<1>3. IInv /\ Order /\ [Next]_vars =>
        [\A j \in Jobs : (state[j] = "PENDING" /\ state'[j] = "ADMITTED") =>
           \A k \in seen[j] : ~(state[k] = "PENDING" /\ ~overdue[k])]_vars
  <2>1. SUFFICES ASSUME IInv, Order, [Next]_vars, NEW j \in Jobs,
                        state[j] = "PENDING", state'[j] = "ADMITTED", NEW k \in seen[j]
                 PROVE  ~(state[k] = "PENDING" /\ ~overdue[k])
    OBVIOUS
  <2>2. stamp[k] \in Stamps /\ stamp[j] \in Stamps /\ stamp[k] < stamp[j]
    BY <2>1, SeenEarlier
  <2>3. Precedes(k, j)
    BY <2>2 DEF InTimeOrder, Precedes
  <2>4. QED
    BY <2>1, <2>3, AdmitsInTextOrder DEF ByTextStep
<1>4. QED
  BY Invariance, <1>1, <1>2, <1>3, PTL DEF Spec, FifoAdmission

\* An admission goes over no job that was waiting when its request began and
\* that is older by more than the digits dropped from its created_at.
Older(k, j) == stamp[k] + Grain(stamp[k]) <= stamp[j]

OldestStep ==
  \A j \in Jobs : (state[j] = "PENDING" /\ state'[j] = "ADMITTED") =>
    \A k \in seen[j] : Older(k, j) => ~(state[k] = "PENDING" /\ ~overdue[k])

\* Whatever the instants, ORDER BY created_at keeps FIFO order between jobs that
\* are further apart than the digits RFC3339Nano drops, which SecondsApart has of
\* jobs of different seconds.
THEOREM FifoUpToDropped == ByText => (Spec => [][OldestStep]_vars)
<1> SUFFICES ASSUME ByText PROVE Spec => [][OldestStep]_vars
  OBVIOUS
<1>1. Init => Order
  BY StampAssumption DEF Init, Order, IdleAdm
<1>2. IInv /\ IInv' /\ Order /\ [Next]_vars => Order'
  BY OrderStep DEF IInv
<1>3. IInv /\ Order /\ [Next]_vars => [OldestStep]_vars
  <2>1. SUFFICES ASSUME IInv, Order, [Next]_vars, NEW j \in Jobs,
                        state[j] = "PENDING", state'[j] = "ADMITTED", NEW k \in seen[j],
                        Older(k, j)
                 PROVE  ~(state[k] = "PENDING" /\ ~overdue[k])
    BY DEF OldestStep
  <2>2. stamp[k] \in Stamps /\ stamp[j] \in Stamps
    BY <2>1, SeenEarlier
  <2>3. stamp[k] \in Nat /\ stamp[j] \in Nat /\ Stamps \subseteq Nat
    BY <2>2, StampAssumption
  <2>4. SortsBefore(Text(stamp[k]), Text(stamp[j]))
    <3>1. Grain(stamp[k]) \in Nat
      BY <2>3, GrainKnown DEF ByText
    <3>2. stamp[j] - stamp[k] >= Grain(stamp[k])
      BY <2>1, <2>3, <3>1 DEF Older
    <3>3. QED
      BY <2>3, <3>2, SortsLater DEF ByText
  <2>5. RankIn(Stamps)[stamp[k]] < RankIn(Stamps)[stamp[j]]
    BY <2>2, <2>3, <2>4, RankGrows DEF ByText
  <2>6. Precedes(k, j)
    BY <2>5 DEF ByText, Precedes
  <2>7. QED
    BY <2>1, <2>6, AdmitsInTextOrder DEF ByTextStep
<1>4. QED
  BY Invariance, <1>1, <1>2, <1>3, PTL DEF Spec

-----------------------------------------------------------------------------
(* Finished inputs leave the disk *)

\* Every step keeps track of the files still to be removed.
LEMMA SweptStep ==
  ASSUME TypeOK, TypeOK', Discipline, Swept, [Next]_vars
  PROVE  Swept'
<1> USE DEF TypeOK, Discipline, Swept, Terminal, store, disk, process, env
<1>1. CASE AdmStart
  BY <1>1 DEF AdmStart
<1>2. CASE AdmScan
  BY <1>2 DEF AdmScan, AdmGo, Fault
<1>3. CASE AdmReserve
  BY <1>3 DEF AdmReserve, AdmFail, Fault, Fail, FinRecord, IdleFin
<1>4. CASE AdmPrepare
  BY <1>4 DEF AdmPrepare, AdmFail, Fault, Fail, FinRecord, IdleFin
<1>5. CASE AdmAdmit
  BY <1>5 DEF AdmAdmit, AdmFail, Fault, Fail, FinRecord, IdleFin
<1>6. CASE AdmFailed
  BY <1>6 DEF AdmFailed
<1>7. CASE GcStart
  BY <1>7 DEF GcStart, MuFree
<1>8. CASE GcRemove
  BY <1>8 DEF GcRemove, RemoveSpool, Fault, GcRecord
<1>9. CASE GcEnd
  BY <1>9 DEF GcEnd, IdleGc
<1>10. CASE GcAbort
  BY <1>10 DEF GcAbort, Fault, IdleGc
<1>11. CASE Crash
  BY <1>11 DEF Crash
<1>12. CASE Restart
  BY <1>12 DEF Restart
<1>13. CASE EndReconcile
  BY <1>13 DEF EndReconcile
<1>14. CASE EndRecover
  BY <1>14 DEF EndRecover, Stale, FinAt, Fault, TypeOK
<1>15. ASSUME NEW j \in Jobs, GcExpire(j) PROVE Swept'
  <2>1. spool' = spool /\ fin' = fin /\ phase' = phase /\ faults' = faults /\ gc.pc = "next"
    BY <1>15 DEF GcExpire
  <2>2. CASE j \in Abandoned
    <3>1. \A k \in Jobs : k # j => state'[k] = state[k]
      BY <1>15, <2>2 DEF GcExpire
    <3>2. gc'.pc = "remove" /\ gc'.job = j
      <4>1. gc' = [gc EXCEPT !.pc = "remove", !.todo = @ \ {j}, !.job = j] /\ gc \in GcRecord
        BY <1>15, <2>2 DEF GcExpire
      <4>2. QED
        BY ONLY <4>1 DEF GcRecord
    <3>3. QED
      BY <2>1, <3>1, <3>2
  <2>3. CASE j \notin Abandoned
    <3>1. state' = state
      BY <1>15, <2>3 DEF GcExpire
    <3>2. QED
      BY <2>1, <3>1
  <2>4. QED
    BY <2>2, <2>3
<1>16. ASSUME NEW j \in Jobs, Reconcile(j) PROVE Swept'
  BY <1>16 DEF Reconcile, Open
<1>17. ASSUME NEW j \in Jobs, Sweep(j) PROVE Swept'
  BY <1>17 DEF Sweep, RemoveSpool
<1>18. ASSUME NEW j \in Jobs, Arrive(j) PROVE Swept'
  BY <1>18 DEF Arrive
<1>19. ASSUME NEW j \in Jobs, Insert(j) PROVE Swept'
  BY <1>19 DEF Insert
<1>20. ASSUME NEW j \in Jobs, TimePasses(j) PROVE Swept'
  BY <1>20 DEF TimePasses
<1>21. ASSUME NEW j \in Jobs, Finish(j) PROVE Swept'
  <2>1. /\ fin'[j].pc # "idle"
        /\ \A k \in Jobs : k # j => fin'[k] = fin[k] /\ state'[k] = state[k]
    BY <1>21, FinElsewhere DEF Finish
  <2>2. spool' = spool /\ gc' = gc /\ phase' = phase /\ faults' = faults
    BY <1>21 DEF Finish
  <2>3. QED
    BY <2>1, <2>2
<1>22. ASSUME NEW j \in Jobs, ReadJob(j) PROVE Swept'
  BY <1>22 DEF ReadJob, FinAt, Fault, GoFin, FinRecord
<1>23. ASSUME NEW j \in Jobs, ReleaseJob(j) PROVE Swept'
  <2>1. fin'[j].pc # "idle" /\ \A k \in Jobs : k # j => fin'[k] = fin[k]
    BY <1>23, FinElsewhere DEF ReleaseJob, AfterRelease
  <2>2. spool' = spool /\ gc' = gc /\ phase' = phase /\ state' = state
    BY <1>23 DEF ReleaseJob
  <2>3. faults' = 0 => faults = 0
    BY <1>23 DEF ReleaseJob, Fault
  <2>4. QED
    BY <2>1, <2>2, <2>3
<1>24. ASSUME NEW j \in Jobs, ReleaseCapacity(j) PROVE Swept'
  BY <1>24 DEF ReleaseCapacity, Fault, GoFin, FinRecord, FinAt
<1>25. ASSUME NEW j \in Jobs, ReleaseRow(j) PROVE Swept'
  BY <1>25 DEF ReleaseRow, Fault, GoFin, FinRecord, FinAt, AfterRelease
<1>26. ASSUME NEW j \in Jobs, RecordFailed(j) PROVE Swept'
  BY <1>26 DEF RecordFailed, FinAt, Fault, GoFin, FinRecord
<1>27. ASSUME NEW j \in Jobs, CleanupSpool(j) PROVE Swept'
  BY <1>27 DEF CleanupSpool, RemoveSpool, FinAt, Fault, GoFin, FinRecord, IdleFin
<1>28. ASSUME NEW j \in Jobs, ChunkStored(j) PROVE Swept'
  BY <1>28 DEF ChunkStored
<1>29. ASSUME NEW j \in Jobs, ChunkRejected(j) PROVE Swept'
  BY <1>29 DEF ChunkRejected
<1>30. ASSUME NEW j \in Jobs, ChunkReplayed(j) PROVE Swept'
  BY <1>30 DEF ChunkReplayed
<1>31. ASSUME NEW j \in Jobs, Complete(j) PROVE Swept'
  BY <1>31 DEF Complete
<1>32. CASE UNCHANGED vars
  BY <1>32 DEF vars
<1>33. QED
  BY <1>1, <1>2, <1>3, <1>4, <1>5, <1>6, <1>7, <1>8, <1>9, <1>10, <1>11, <1>12, <1>13, <1>14, <1>15, <1>16, <1>17, <1>18, <1>19, <1>20, <1>21, <1>22, <1>23, <1>24, <1>25, <1>26, <1>27, <1>28, <1>29, <1>30, <1>31, <1>32 DEF Next, AdmStep, GcStep, BootStep, FinStep

\* While no removal has failed, the input of a job that is over is off the
\* disk, or a goroutine is about to remove it, whenever the server is up.
THEOREM InputsRemoved == Spec => []NoOrphanSpool
<1>1. Init => Swept
  BY DEF Init, Swept
<1>2. IInv /\ IInv' /\ Swept /\ [Next]_vars => Swept'
  BY SweptStep DEF IInv
<1>3. Swept => NoOrphanSpool
  BY DEF Swept, NoOrphanSpool, FinAt
<1>4. QED
  BY Invariance, <1>1, <1>2, <1>3, PTL DEF Spec

-----------------------------------------------------------------------------
(* The client's view *)

\* Steps that leave every state alone are invisible to clients.
LEMMA StageStays ==
  ASSUME state' = state
  PROVE  [Lifecycle!Next]_[j \in Jobs |-> StageOf[state[j]]]
BY DEF StageOf

\* The steps of jobs.state.
Arrows ==
  { <<"ABSENT", "PENDING">>, <<"PENDING", "ADMITTED">>, <<"ADMITTED", "UPLOADING">>,
    <<"UPLOADING", "UPLOADING">>, <<"ADMITTED", "PROCESSING">>, <<"UPLOADING", "PROCESSING">>,
    <<"PROCESSING", "COMPLETED">>, <<"PENDING", "FAILED">>, <<"ADMITTED", "FAILED">>,
    <<"UPLOADING", "FAILED">>, <<"PROCESSING", "FAILED">>, <<"PENDING", "EXPIRED">>,
    <<"ADMITTED", "EXPIRED">>, <<"UPLOADING", "EXPIRED">> }

Moves(j, to) == state' = [state EXCEPT ![j] = to] /\ <<state[j], to>> \in Arrows

\* One job moving by such a step moves along an arrow of JobLifecycle, or stays
\* within a stage.
LEMMA StageMoves ==
  ASSUME TypeOK, NEW j \in Jobs, NEW to \in States, Moves(j, to)
  PROVE  [Lifecycle!Next]_[k \in Jobs |-> StageOf[state[k]]]
<1> DEFINE stage == [k \in Jobs |-> StageOf[state[k]]]
           from == state[j]
<1>1. stage' = [stage EXCEPT ![j] = StageOf[to]] /\ stage[j] = StageOf[from]
  BY DEF TypeOK, Moves, StageOf
<1>2. CASE StageOf[from] = StageOf[to]
  BY <1>1, <1>2
<1>3. CASE to = "PENDING"
  <2>1. stage[j] = "Absent" /\ stage' = [stage EXCEPT ![j] = "Waiting"]
    BY <1>1, <1>3 DEF Moves, Arrows, StageOf
  <2>2. Lifecycle!Accept(j)
    BY <2>1 DEF Lifecycle!Accept, Lifecycle!Move
  <2>3. QED
    BY <2>2 DEF Lifecycle!Next
<1>4. CASE to = "ADMITTED"
  <2>1. stage[j] = "Waiting" /\ stage' = [stage EXCEPT ![j] = "Receiving"]
    BY <1>1, <1>4 DEF Moves, Arrows, StageOf
  <2>2. Lifecycle!Admit(j)
    BY <2>1 DEF Lifecycle!Admit, Lifecycle!Move
  <2>3. QED
    BY <2>2 DEF Lifecycle!Next
<1>5. CASE to = "PROCESSING"
  <2>1. stage[j] = "Receiving" /\ stage' = [stage EXCEPT ![j] = "Processing"]
    BY <1>1, <1>5 DEF Moves, Arrows, StageOf
  <2>2. Lifecycle!Process(j)
    BY <2>1 DEF Lifecycle!Process, Lifecycle!Move
  <2>3. QED
    BY <2>2 DEF Lifecycle!Next
<1>6. CASE to = "COMPLETED"
  <2>1. stage[j] = "Processing" /\ stage' = [stage EXCEPT ![j] = "Completed"]
    BY <1>1, <1>6 DEF Moves, Arrows, StageOf
  <2>2. Lifecycle!Finish(j)
    BY <2>1 DEF Lifecycle!Finish, Lifecycle!Move
  <2>3. QED
    BY <2>2 DEF Lifecycle!Next
<1>7. CASE to = "FAILED"
  <2>1. stage[j] \in {"Waiting", "Receiving", "Processing"} /\ stage' = [stage EXCEPT ![j] = "Failed"]
    BY <1>1, <1>7 DEF Moves, Arrows, StageOf
  <2>2. Lifecycle!Fail(j)
    BY <2>1 DEF Lifecycle!Fail, Lifecycle!Move
  <2>3. QED
    BY <2>2 DEF Lifecycle!Next
<1>8. CASE to = "EXPIRED"
  <2>1. stage[j] \in {"Waiting", "Receiving"} /\ stage' = [stage EXCEPT ![j] = "Expired"]
    BY <1>1, <1>8 DEF Moves, Arrows, StageOf
  <2>2. Lifecycle!Expire(j)
    BY <2>1 DEF Lifecycle!Expire, Lifecycle!Move
  <2>3. QED
    BY <2>2 DEF Lifecycle!Next
<1>9. CASE to = "UPLOADING"
  BY <1>2, <1>9 DEF Moves, Arrows, StageOf
<1>10. QED
  BY <1>3, <1>4, <1>5, <1>6, <1>7, <1>8, <1>9 DEF Moves, Arrows

\* Every step is a step of JobLifecycle, or invisible.
LEMMA LifecycleStep ==
  ASSUME TypeOK, Discipline, [Next]_vars
  PROVE  [Lifecycle!Next]_[k \in Jobs |-> StageOf[state[k]]]
<1>1. CASE AdmStart
  <2>1. state' = state
    BY <1>1 DEF AdmStart, store
  <2>2. QED
    BY <2>1, StageStays
<1>2. CASE AdmScan
  <2>1. state' = state
    BY <1>2 DEF AdmScan, store
  <2>2. QED
    BY <2>1, StageStays
<1>3. CASE AdmReserve
  <2>1. state' = state
    BY <1>3 DEF AdmReserve, store
  <2>2. QED
    BY <2>1, StageStays
<1>4. CASE AdmPrepare
  <2>1. state' = state
    BY <1>4 DEF AdmPrepare, store
  <2>2. QED
    BY <2>1, StageStays
<1>5. CASE AdmAdmit
  <2>1. adm.job \in Jobs
    BY <1>5 DEF AdmAdmit, TypeOK
  <2>2. CASE state' = state
    BY <2>2, StageStays
  <2>3. CASE state[adm.job] = "PENDING" /\ state' = [state EXCEPT ![adm.job] = "ADMITTED"]
    <3>1. Moves(adm.job, "ADMITTED")
      BY <2>3 DEF Moves, Arrows
    <3>2. QED
      BY <2>1, <3>1, StageMoves DEF States
  <2>4. QED
    BY <1>5, <2>2, <2>3 DEF AdmAdmit
<1>6. CASE AdmFailed
  <2>1. state' = state
    BY <1>6 DEF AdmFailed, store
  <2>2. QED
    BY <2>1, StageStays
<1>7. CASE GcStart
  <2>1. state' = state
    BY <1>7 DEF GcStart, store
  <2>2. QED
    BY <2>1, StageStays
<1>8. CASE GcRemove
  <2>1. state' = state
    BY <1>8 DEF GcRemove, store
  <2>2. QED
    BY <2>1, StageStays
<1>9. CASE GcEnd
  <2>1. state' = state
    BY <1>9 DEF GcEnd, store
  <2>2. QED
    BY <2>1, StageStays
<1>10. CASE GcAbort
  <2>1. state' = state
    BY <1>10 DEF GcAbort, store
  <2>2. QED
    BY <2>1, StageStays
<1>11. CASE Crash
  <2>1. state' = state
    BY <1>11 DEF Crash, store
  <2>2. QED
    BY <2>1, StageStays
<1>12. CASE Restart
  <2>1. state' = state
    BY <1>12 DEF Restart, store
  <2>2. QED
    BY <2>1, StageStays
<1>13. CASE EndReconcile
  <2>1. state' = state
    BY <1>13 DEF EndReconcile, store
  <2>2. QED
    BY <2>1, StageStays
<1>14. CASE EndRecover
  <2>1. state' = state
    BY <1>14 DEF EndRecover, store
  <2>2. QED
    BY <2>1, StageStays
<1>15. ASSUME NEW j \in Jobs, GcExpire(j) PROVE [Lifecycle!Next]_[k \in Jobs |-> StageOf[state[k]]]
  <2>1. CASE state' = state
    BY <2>1, StageStays
  <2>2. CASE state[j] \in {"PENDING", "ADMITTED", "UPLOADING"} /\ state' = [state EXCEPT ![j] = "EXPIRED"]
    <3>1. Moves(j, "EXPIRED")
      BY <2>2 DEF Moves, Arrows
    <3>2. QED
      BY <3>1, StageMoves DEF States
  <2>3. QED
    BY <1>15, <2>1, <2>2 DEF GcExpire, Abandoned, Expiring, Open
<1>16. ASSUME NEW j \in Jobs, Reconcile(j) PROVE [Lifecycle!Next]_[k \in Jobs |-> StageOf[state[k]]]
  <2>1. state[j] \in {"ADMITTED", "UPLOADING"} /\ state' = [state EXCEPT ![j] = "FAILED"]
    BY <1>16 DEF Reconcile, Open
  <2>2. Moves(j, "FAILED")
    BY <2>1 DEF Moves, Arrows
  <2>3. QED
    BY <2>2, StageMoves DEF States
<1>17. ASSUME NEW j \in Jobs, Sweep(j) PROVE [Lifecycle!Next]_[k \in Jobs |-> StageOf[state[k]]]
  <2>1. state' = state
    BY <1>17 DEF Sweep, store
  <2>2. QED
    BY <2>1, StageStays
<1>18. ASSUME NEW j \in Jobs, Arrive(j) PROVE [Lifecycle!Next]_[k \in Jobs |-> StageOf[state[k]]]
  <2>1. state' = state
    BY <1>18 DEF Arrive, store
  <2>2. QED
    BY <2>1, StageStays
<1>19. ASSUME NEW j \in Jobs, Insert(j) PROVE [Lifecycle!Next]_[k \in Jobs |-> StageOf[state[k]]]
  <2>1. state[j] \in {"ABSENT"} /\ state' = [state EXCEPT ![j] = "PENDING"]
    BY <1>19 DEF Insert, Discipline
  <2>2. Moves(j, "PENDING")
    BY <2>1 DEF Moves, Arrows
  <2>3. QED
    BY <2>2, StageMoves DEF States
<1>20. ASSUME NEW j \in Jobs, TimePasses(j) PROVE [Lifecycle!Next]_[k \in Jobs |-> StageOf[state[k]]]
  <2>1. state' = state
    BY <1>20 DEF TimePasses, store
  <2>2. QED
    BY <2>1, StageStays
<1>21. ASSUME NEW j \in Jobs, Finish(j) PROVE [Lifecycle!Next]_[k \in Jobs |-> StageOf[state[k]]]
  <2>1. CASE state' = state
    BY <2>1, StageStays
  <2>2. CASE state[j] \in {"PROCESSING"} /\ state' = [state EXCEPT ![j] = "COMPLETED"]
    <3>1. Moves(j, "COMPLETED")
      BY <2>2 DEF Moves, Arrows
    <3>2. QED
      BY <3>1, StageMoves DEF States
  <2>3. QED
    BY <1>21, <2>1, <2>2 DEF Finish
<1>22. ASSUME NEW j \in Jobs, ReadJob(j) PROVE [Lifecycle!Next]_[k \in Jobs |-> StageOf[state[k]]]
  <2>1. state' = state
    BY <1>22 DEF ReadJob, store
  <2>2. QED
    BY <2>1, StageStays
<1>23. ASSUME NEW j \in Jobs, ReleaseJob(j) PROVE [Lifecycle!Next]_[k \in Jobs |-> StageOf[state[k]]]
  <2>1. state' = state
    BY <1>23 DEF ReleaseJob, store
  <2>2. QED
    BY <2>1, StageStays
<1>24. ASSUME NEW j \in Jobs, ReleaseCapacity(j) PROVE [Lifecycle!Next]_[k \in Jobs |-> StageOf[state[k]]]
  <2>1. state' = state
    BY <1>24 DEF ReleaseCapacity, store
  <2>2. QED
    BY <2>1, StageStays
<1>25. ASSUME NEW j \in Jobs, ReleaseRow(j) PROVE [Lifecycle!Next]_[k \in Jobs |-> StageOf[state[k]]]
  <2>1. state' = state
    BY <1>25 DEF ReleaseRow, store
  <2>2. QED
    BY <2>1, StageStays
<1>26. ASSUME NEW j \in Jobs, RecordFailed(j) PROVE [Lifecycle!Next]_[k \in Jobs |-> StageOf[state[k]]]
  <2>1. CASE state' = state
    BY <2>1, StageStays
  <2>2. CASE state[j] \notin {"COMPLETED", "FAILED"} /\ state' = [state EXCEPT ![j] = "FAILED"]
    <3>1. state[j] \in {"PENDING", "PROCESSING"}
      BY <1>26, <2>2 DEF RecordFailed, FinAt, Discipline
    <3>2. Moves(j, "FAILED")
      BY <2>2, <3>1 DEF Moves, Arrows
    <3>3. QED
      BY <3>2, StageMoves DEF States
  <2>3. QED
    BY <1>26, <2>1, <2>2 DEF RecordFailed
<1>27. ASSUME NEW j \in Jobs, CleanupSpool(j) PROVE [Lifecycle!Next]_[k \in Jobs |-> StageOf[state[k]]]
  <2>1. state' = state
    BY <1>27 DEF CleanupSpool, store
  <2>2. QED
    BY <2>1, StageStays
<1>28. ASSUME NEW j \in Jobs, ChunkStored(j) PROVE [Lifecycle!Next]_[k \in Jobs |-> StageOf[state[k]]]
  <2>1. state[j] \in {"ADMITTED", "UPLOADING"} /\ state' = [state EXCEPT ![j] = "UPLOADING"]
    BY <1>28 DEF ChunkStored, Open
  <2>2. Moves(j, "UPLOADING")
    BY <2>1 DEF Moves, Arrows
  <2>3. QED
    BY <2>2, StageMoves DEF States
<1>29. ASSUME NEW j \in Jobs, ChunkRejected(j) PROVE [Lifecycle!Next]_[k \in Jobs |-> StageOf[state[k]]]
  <2>1. state' = state
    BY <1>29 DEF ChunkRejected, store
  <2>2. QED
    BY <2>1, StageStays
<1>30. ASSUME NEW j \in Jobs, ChunkReplayed(j) PROVE [Lifecycle!Next]_[k \in Jobs |-> StageOf[state[k]]]
  <2>1. state' = state
    BY <1>30 DEF ChunkReplayed, store
  <2>2. QED
    BY <2>1, StageStays
<1>31. ASSUME NEW j \in Jobs, Complete(j) PROVE [Lifecycle!Next]_[k \in Jobs |-> StageOf[state[k]]]
  <2>1. state[j] \in {"ADMITTED", "UPLOADING"} /\ state' = [state EXCEPT ![j] = "PROCESSING"]
    BY <1>31 DEF Complete, Open
  <2>2. Moves(j, "PROCESSING")
    BY <2>1 DEF Moves, Arrows
  <2>3. QED
    BY <2>2, StageMoves DEF States
<1>32. CASE UNCHANGED vars
  <2>1. state' = state
    BY <1>32 DEF vars, store
  <2>2. QED
    BY <2>1, StageStays
<1>33. QED
  BY <1>1, <1>2, <1>3, <1>4, <1>5, <1>6, <1>7, <1>8, <1>9, <1>10, <1>11, <1>12, <1>13, <1>14, <1>15, <1>16, <1>17, <1>18, <1>19, <1>20, <1>21, <1>22, <1>23, <1>24, <1>25, <1>26, <1>27, <1>28, <1>29, <1>30, <1>31, <1>32 DEF Next, AdmStep, GcStep, BootStep, FinStep

\* The server implements JobLifecycle: whatever interleaves, fails or crashes,
\* a client sees a job move only along the documented arrows, and a job that
\* is COMPLETED, FAILED or EXPIRED never moves again.
THEOREM Refinement == Spec => ImplementsLifecycle
<1>1. Init => Lifecycle!Init
  BY DEF Init, Lifecycle!Init, StageOf
<1>2. IInv /\ [Next]_vars => [Lifecycle!Next]_[j \in Jobs |-> StageOf[state[j]]]
  BY LifecycleStep DEF IInv
<1>3. Spec => Lifecycle!Spec
  BY Invariance, <1>1, <1>2, PTL DEF Spec, Lifecycle!Spec
<1>4. QED
  BY <1>3 DEF ImplementsLifecycle
=============================================================================
