----------------------------- MODULE MCAdmission -----------------------------
(***************************************************************************)
(* Instances of Admission for TLC.                                         *)
(***************************************************************************)
EXTENDS Admission, TLC

CONSTANTS a, b    \* jobs

\* Input sizes, in chunks.
SmallLarge == (a :> 1) @@ (b :> 2)

\* created_at texts with two digits of a second.
Texts  == INSTANCE CreatedAt WITH Places <- 2
AsText == Texts!RankIn(Stamps)

\* Of two instants the later one sorts first exactly when it lies within the
\* digits dropped from the earlier one: "0.5Z" sorts after "0.55Z".
ASSUME DroppedDigits ==
  \A t, u \in 0 .. 150 : t < u =>
    /\ Texts!SortsBefore(Texts!Text(t), Texts!Text(u)) <=> u - t >= Texts!Grain(t)
    /\ Texts!SortsBefore(Texts!Text(u), Texts!Text(t)) <=> u - t < Texts!Grain(t)
=============================================================================
