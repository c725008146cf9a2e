------------------------------- MODULE Squares -------------------------------
(***************************************************************************)
(* The deterministic helpers of the four-squares prototype                 *)
(* (prototypes/four_squares/four_squares.py): decompose, the bit lengths   *)
(* get_two_firsts draws its bounds from, the candidates it accepts, and    *)
(* euclidian_adhoc.  The random draws are left to the state machines.      *)
(***************************************************************************)
EXTENDS Integers, PyInt

\* int.bit_length(): the number of binary digits of |x|, 0 for 0.
RECURSIVE BitLength(_)
BitLength(x) == IF x = 0 THEN 0 ELSE 1 + BitLength(PyAbs(x) \div 2)

\* (mu & -mu).bit_length() - 1: the index of the lowest set bit of mu > 0.
RECURSIVE LowBit(_)
LowBit(x) == IF x % 2 = 1 THEN 0 ELSE 1 + LowBit(x \div 2)

\* decompose(mu) = (t, k) with mu = 2^t * (2k + 1), for mu > 0.
decompose(mu) == << LowBit(mu), mu \div 2^(LowBit(mu) + 1) >>

\* The pairs one pass of the loop of get_two_firsts can draw:
\* w1 = randint(0, 2**w1_len), then w2 = randint(0, 2**w2_len) with w2_len
\* computed from mu - w1 * w1.
Draws(mu) ==
    UNION { { << w1, w2 >> : w2 \in 0 .. 2^(BitLength(mu - w1 * w1) \div 2 + 1) } :
              w1 \in 0 .. 2^(BitLength(mu) \div 2 + 1) }

\* The pairs the loop returns: the first draw with w1^2 + w2^2 <= mu and
\* w1, w2 of different parity ends it.
TwoFirstsOk(mu, w) == w[1] * w[1] + w[2] * w[2] <= mu /\ w[1] % 2 # w[2] % 2

\* The while loop of euclidian_adhoc: Euclid's algorithm on (p, u) stopped
\* at the first remainder u with u * u <= p; r is the next remainder (or
\* the previous one when u has reached 0).
RECURSIVE AdhocLoop(_, _, _)
AdhocLoop(r, u, p) ==
    IF u * u > p
      THEN AdhocLoop(IF r # 0 THEN u % r ELSE r, r, p)
      ELSE << r, u >>

\* Variant: the first remainder is taken as the quotient p // u.
AdhocQuotient(u, p) == AdhocLoop(p \div u, u, p)

\* euclidian_adhoc(u, p): r = p % u, then the loop.  u = 0 divides by zero.
euclidian_adhoc(u, p) == AdhocLoop(p % u, u, p)

\* Variant: the t odd branch divides by s instead of s**2.
LoopArgumentNoSquare(mu, tk) ==
    LET t == tk[1]
    IN  CASE t = 1     -> mu
          [] t % 2 = 1 -> mu \div 2^((t - 1) \div 2)
          [] OTHER     -> 2 * (2 * tk[2] + 1)

\* The argument the t = 1 loop runs on for mu > 0: mu itself when t == 1,
\* else that of the recursive call, mu // s**2 with s = 2^((t-1)/2) for
\* odd t and 2 * (2k + 1) for even t (both have t = 1 again), where
\* tk = (t, k) is what decompose(mu) returned.
LoopArgument(mu, tk) ==
    LET t == tk[1]
    IN  CASE t = 1     -> mu
          [] t % 2 = 1 -> mu \div (2^((t - 1) \div 2))^2
          [] OTHER     -> 2 * (2 * tk[2] + 1)

\* What get_four_squares(mu) returns once the t = 1 call has returned v:
\* v itself for t = 1, v scaled by s = 2^((t-1)/2) for odd t, and for even
\* t, on u, the values sorted so that equal parities pair up, the halved (t = 0)
\* or scaled (s = 2^(t/2 - 1)) sums and differences of the pairs.
Assemble(t, v, u) ==
    LET s == 2^((t \div 2) - 1)
    IN  CASE t = 1     -> [ j \in 1 .. 4 |-> PyAbs(v[j]) ]
          [] t % 2 = 1 -> [ j \in 1 .. 4 |-> 2^((t - 1) \div 2) * PyAbs(v[j]) ]
          [] t = 0     -> << PyAbs(FloorDiv(u[1] + u[2], 2)), PyAbs(FloorDiv(u[1] - u[2], 2)),
                            PyAbs(FloorDiv(u[3] + u[4], 2)), PyAbs(FloorDiv(u[3] - u[4], 2)) >>
          [] OTHER     -> << PyAbs(s * (u[1] + u[2])), PyAbs(s * (u[1] - u[2])),
                            PyAbs(s * (u[3] + u[4])), PyAbs(s * (u[3] - u[4])) >>
=============================================================================
