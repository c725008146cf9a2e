------------------------------- MODULE PyInt -------------------------------
(***************************************************************************)
(* Python's integer operators, as the class-group prototype uses them.     *)
(* Python's // and % round toward minus infinity for every non-zero        *)
(* divisor; TLA+'s \div and % are fixed only for a positive divisor, and   *)
(* TLC rejects % by a negative number.  The source divides by negative     *)
(* numbers (_egcd's s // t, _reduction_step's (c + b) // (2 * c) on a      *)
(* negative-definite form), so these operators spell the Python meaning    *)
(* out.  They model the language, not code of the repository.              *)
(***************************************************************************)
EXTENDS Integers

\* a // b : floor division, b # 0.
FloorDiv(x, y) == IF y > 0 THEN x \div y ELSE (-x) \div (-y)

\* a % b : the remainder takes the sign of the divisor, b # 0.
PyMod(x, y) == x - y * FloorDiv(x, y)

PyAbs(x) == IF x < 0 THEN -x ELSE x

\* pow(x, ex, m) for ex >= 0 and m > 0, by square and multiply so that no
\* intermediate value leaves the range of the modulus squared.
RECURSIVE PowMod(_, _, _)
PowMod(x, ex, m) ==
    IF ex = 0 THEN 1 % m
    ELSE LET h == PowMod(x, ex \div 2, m)
             sq == (h * h) % m
         IN IF ex % 2 = 1 THEN (sq * (x % m)) % m ELSE sq
=============================================================================
