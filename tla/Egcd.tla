-------------------------------- MODULE Egcd --------------------------------
(***************************************************************************)
(* _egcd of prototypes/class_groups/cl.py: the gcd of its       *)
(* arguments and Bezout coefficients, by folding the two-argument          *)
(* extended Euclidean algorithm over the arguments.  Cl.__add__ calls it   *)
(* with three arguments.                                                   *)
(*                                                                         *)
(* The result is a sequence <<g, c1, ..., cn>>, or TypeError when an       *)
(* argument is not an int.                                                 *)
(***************************************************************************)
EXTENDS Integers, Sequences, PyInt
LOCAL INSTANCE FiniteSetsExt

CONSTANTS
    NotAnInt,   \* an argument that is not an int
    TypeError   \* the TypeError _egcd raises for it

IsInt(x) == x \in Int

\* The inner while loop, state (s, t, x0, x1, y0, y1); returns (s, x0, y0).
RECURSIVE EuclidLoop(_, _, _, _, _, _)
EuclidLoop(s, t, x0, x1, y0, y1) ==
    IF t = 0 THEN << s, x0, y0 >>
    ELSE LET q == FloorDiv(s, t)
         IN  EuclidLoop(t, PyMod(s, t), x1, x0 - q * x1, y1, y0 - q * y1)

\* One iteration of the for loop for i > 0: run the pair algorithm on
\* (g, a), then g, s, t = s, x0, y0 and cs = [c * s for c in cs] + [t].
FoldStep(acc, a) ==
    LET r == EuclidLoop(acc.g, a, 1, 0, 0, 1)
    IN  [ g |-> r[1],
          cs |-> [ k \in 1 .. Len(acc.cs) |-> acc.cs[k] * r[2] ] \o << r[3] >> ]

RECURSIVE FoldFrom(_, _, _)
FoldFrom(integers, j, acc) ==
    IF j > Len(integers) THEN acc
    ELSE FoldFrom(integers, j + 1, FoldStep(acc, integers[j]))

\* Variant: the final sign fix makes g positive but leaves the coefficients.
EgcdNoCoefficientNegation(integers) ==
    IF Len(integers) = 0 THEN << 0 >>
    ELSE IF \E j \in 1 .. Len(integers) : ~IsInt(integers[j]) THEN TypeError
    ELSE LET acc == FoldFrom(integers, 2, [ g |-> integers[1], cs |-> << 1 >> ])
         IN  << PyAbs(acc.g) >> \o acc.cs

\* The whole function: the empty case, the type check of every argument
\* (the first non-int raises; nothing the earlier iterations computed
\* survives the exception), the fold, and the final sign normalisation.
_egcd(integers) ==
    IF Len(integers) = 0 THEN << 0 >>
    ELSE IF \E j \in 1 .. Len(integers) : ~IsInt(integers[j]) THEN TypeError
    ELSE LET acc == FoldFrom(integers, 2, [ g |-> integers[1], cs |-> << 1 >> ])
         IN  << PyAbs(acc.g) >>
             \o (IF acc.g < 0 THEN [ k \in 1 .. Len(acc.cs) |-> -acc.cs[k] ]
                              ELSE acc.cs)

-----------------------------------------------------------------------------
(* Reference definitions.                                                  *)

Divides(d, x) == x % d = 0

\* The greatest common divisor of a finite set of integers, from its
\* definition; 0 when every element is 0.
GcdOf(S) ==
    IF \A x \in S : x = 0 THEN 0
    ELSE Max({ d \in 1 .. Max({ PyAbs(x) : x \in S }) : \A x \in S : Divides(d, x) })

\* c1 * x1 + ... + cn * xn
Combination(cs, xs) ==
    LET RECURSIVE S(_)
        S(k) == IF k = 0 THEN 0 ELSE cs[k] * xs[k] + S(k - 1)
    IN  S(Len(xs))

=============================================================================
