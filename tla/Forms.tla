-------------------------------- MODULE Forms --------------------------------
(***************************************************************************)
(* Binary quadratic forms x^2 a + xy b + y^2 c as triples <<a, b, c>>, and *)
(* the reduction functions of prototypes/class_groups/cl.py: _is_normal,   *)
(* _is_reduced, _reduction_step and _reduce.  Reduce.tla runs _reduce as a *)
(* state machine; ClassGroup.tla calls it as the operator below.           *)
(***************************************************************************)
EXTENDS Integers, PyInt

Disc(f) == f[2] * f[2] - 4 * f[1] * f[3]

-----------------------------------------------------------------------------
(* The functions of cl.py, on a triple f = <<a, b, c>>.                    *)

\* Variant: -a <= b, so both (a, a, c) and (a, -a, c) count as normal.
NormalClosedBelow(f) == -f[1] <= f[2] /\ f[2] <= f[1]

_is_normal(f) == -f[1] < f[2] /\ f[2] <= f[1]

_is_reduced(f) ==
    /\ _is_normal(f)
    /\ f[1] <= f[3]
    /\ f[1] = f[3] => f[2] >= 0

\* Variants with plausible slips, with which Reduce.tla shows its properties can fail:
\* the constant term with the sign of b*s flipped, and s rounded from b alone.
StepWrongConstant(f) ==
    LET s == FloorDiv(f[3] + f[2], 2 * f[3])
    IN  << f[3], -f[2] + 2 * s * f[3], f[3] * s * s + f[2] * s + f[1] >>

StepFloorOfB(f) ==
    LET s == FloorDiv(f[2], 2 * f[3])
    IN  << f[3], -f[2] + 2 * s * f[3], f[3] * s * s - f[2] * s + f[1] >>

_reduction_step(f) ==
    LET s == FloorDiv(f[3] + f[2], 2 * f[3])
    IN  << f[3], -f[2] + 2 * s * f[3], f[3] * s * s - f[2] * s + f[1] >>

\* Variant: the swap that forgets to negate b, (c, b, a).
NormalizeNoNegate(f) == IF _is_normal(f) THEN f ELSE << f[3], f[2], f[1] >>

\* The first statement of _reduce: swap a non-normal form to (c, -b, a).
_normalize(f) == IF _is_normal(f) THEN f ELSE << f[3], -f[2], f[1] >>

RECURSIVE ReductionLoop(_)
ReductionLoop(f) ==
    IF _is_reduced(f) THEN f ELSE ReductionLoop(_reduction_step(f))

_reduce(f) == ReductionLoop(_normalize(f))

-----------------------------------------------------------------------------
(* Proper equivalence of forms, the reference the reduction is checked     *)
(* against: g is f after a substitution x -> px + qy, y -> rx + sy with    *)
(* ps - qr = 1.                                                            *)

FormValue(f, x, y) == f[1] * x * x + f[2] * x * y + f[3] * y * y

Substitute(f, p, q, r, s) ==
    << FormValue(f, p, r),
       2 * f[1] * p * q + f[2] * (p * s + q * r) + 2 * f[3] * r * s,
       FormValue(f, q, s) >>

Equivalent(f, g, bound) ==
    LET K == -bound .. bound
    IN  \E p, r \in K :
          /\ FormValue(f, p, r) = g[1]
          /\ \E q, s \in K : p * s - q * r = 1 /\ Substitute(f, p, q, r, s) = g

=============================================================================
