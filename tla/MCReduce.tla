------------------------------ MODULE MCReduce ------------------------------
(* Model of one _reduce call on every triple of a small box that passes   *)
(* the discriminant assert of Cl.__init__.                                 *)
EXTENDS Reduce

CONSTANTS MaxA, MaxB, MaxC

\* The discriminant: -47 is prime and -47 % 4 = 1; its class group has order 5.
D47 == -47

\* The triples (a, b, c) with |a| <= MaxA, |b| <= MaxB, |c| <= MaxC and
\* b^2 - 4ac = D, with a of the signs in Signs.
FormsIn(Signs) ==
    { << x, y, (y * y - D) \div (4 * x) >> :
        x \in { sg * k : sg \in Signs, k \in 1 .. MaxA }, y \in -MaxB .. MaxB }
    \cap { f \in Int \X Int \X Int : Disc(f) = D /\ PyAbs(f[3]) <= MaxC }

\* Positive-definite forms: every element the class-group code itself builds.
PositiveInputs == FormsIn({1})

\* Also the negative-definite forms, which pass the same assert.
AllInputs == FormsIn({1, -1})
=============================================================================
