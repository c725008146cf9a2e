------------------------------- MODULE MCEgcd -------------------------------
(* _egcd called again and again, each time with an argument list of at    *)
(* most MaxLen elements of -Bound .. Bound and NotAnInt.                   *)
EXTENDS Egcd
LOCAL INSTANCE SequencesExt

CONSTANTS Bound, MaxLen, NoResult

Args == BoundedSeq((-Bound .. Bound) \cup { NotAnInt }, MaxLen)

VARIABLES args, result
vars == << args, result >>

\* Before the call: no arguments passed, nothing returned.
Init ==
    /\ args = << >>
    /\ result = NoResult

\* One call of _egcd with any argument list; the program then stops.
Call ==
    /\ result = NoResult
    /\ \E xs \in Args :
        /\ args' = xs
        /\ result' = _egcd(xs)

Spec == Init /\ [][Call]_vars

\* Whenever _egcd returns, its first component is the gcd of all the
\* arguments (never negative) and the other components are coefficients
\* of one per argument whose combination equals it (the Bezout identity
\* Cl.__add__ relies on).  The fold multiplies the earlier coefficients by
\* each pair result and the sign fix must negate all of them together.
GcdAndBezout ==
    result \notin { NoResult, TypeError } =>
        /\ Len(result) = Len(args) + 1
        /\ result[1] = GcdOf({ args[k] : k \in 1 .. Len(args) })
        /\ Combination(Tail(result), args) = result[1]

=============================================================================
