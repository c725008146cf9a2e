------------------------------ MODULE FourSquare ------------------------------
(***************************************************************************)
(* One call get_four_square(mu) of the earlier prototype                  *)
(* prototypes/four_square/four_square.py.  The control is that of          *)
(* FourSquares, with three differences in the code: decompose is a loop,   *)
(* sort swaps w2 with w3 or w4, and get_two_lasts draws sqr_u and squares  *)
(* it itself, applies a Fermat test to u, then loops five times comparing  *)
(* u with p - 1 and redrawing u (not sqr_u) when they differ.              *)
(***************************************************************************)
EXTENDS Integers, Sequences, PyInt

S == INSTANCE Squares

CONSTANTS
    Inputs,     \* the arguments mu
    Tries       \* range(5) in get_two_lasts

VARIABLES mu, m, w, p, sqr_u, u, tries, pc, result
vars == << mu, m, w, p, sqr_u, u, tries, pc, result >>

\* Variant: t counts from 1.
DecomposeFromOne(n) ==
    LET RECURSIVE Halve(_, _)
        Halve(tmp, t) == IF tmp % 2 = 0 THEN Halve(tmp \div 2, t + 1) ELSE << t, (tmp - 1) \div 2 >>
    IN  Halve(n, 1)

\* decompose(mu): halve tmp while it is even, counting t; k = (tmp - 1) // 2.
decompose(n) ==
    LET RECURSIVE Halve(_, _)
        Halve(tmp, t) == IF tmp % 2 = 0 THEN Halve(tmp \div 2, t + 1) ELSE << t, (tmp - 1) \div 2 >>
    IN  Halve(n, 0)

\* euclidian_adhoc(u, p): the same loop as in four_squares.py.
euclidian_adhoc(x, q) == S!AdhocLoop(q % x, x, q)

\* quarter_p = (p - 1) >> 2
quarter(q) == (q - 1) \div 4

Init ==
    /\ mu \in Inputs
    /\ m = 0
    /\ w = << 0, 0, 0, 0 >>
    /\ p = 0
    /\ sqr_u = 0
    /\ u = 0
    /\ tries = 0
    /\ pc = "entry"
    /\ result = << >>

\* assert mu >= 0; if mu == 0: return 0, 0, 0, 0
ReturnZero ==
    /\ pc = "entry"
    /\ mu = 0
    /\ result' = << 0, 0, 0, 0 >>
    /\ pc' = "done"
    /\ UNCHANGED << mu, m, w, p, sqr_u, u, tries >>

\* (t, k) = decompose(mu), then the t = 1 loop on mu or the recursive call.
Dispatch ==
    /\ pc = "entry"
    /\ mu > 0
    /\ m' = S!LoopArgument(mu, decompose(mu))
    /\ pc' = "firsts"
    /\ UNCHANGED << mu, w, p, sqr_u, u, tries, result >>

\* (w1, w2) = get_two_firsts(mu); p = mu - w1 ** 2 - w2 ** 2.  The loop
\* starts at w1 = w2 = 0, which fails the parity test, so it always draws.
TwoFirsts(v) ==
    /\ pc = "firsts"
    /\ v \in S!Draws(m)
    /\ S!TwoFirstsOk(m, v)
    /\ w' = << v[1], v[2], 0, 0 >>
    /\ p' = m - v[1] * v[1] - v[2] * v[2]
    /\ pc' = "lasts"
    /\ UNCHANGED << mu, m, sqr_u, u, tries, result >>

\* get_two_lasts: p == 0 and p == 1 return True with (0, 0) and (1, 0).
LastsTrivial ==
    /\ pc = "lasts"
    /\ p \in { 0, 1 }
    /\ w' = << w[1], w[2], p, 0 >>
    /\ pc' = "found"
    /\ UNCHANGED << mu, m, p, sqr_u, u, tries, result >>

\* sqr_u = pow(randint(1, p), quarter_p, p); u = pow(sqr_u, 2, p).
Draw(x) ==
    /\ sqr_u' = PowMod(x, quarter(p), p)
    /\ u' = PowMod(sqr_u', 2, p)

\* pow(u, p - 1, p) != 1: get_two_lasts returns False, the loop restarts.
FermatFails(x) ==
    /\ pc = "lasts"
    /\ p > 1
    /\ Draw(x)
    /\ PowMod(u', p - 1, p) # 1
    /\ pc' = "firsts"
    /\ UNCHANGED << mu, m, w, p, tries, result >>

\* The Fermat test passes and the for loop over range(5) begins.
FermatPasses(x) ==
    /\ pc = "lasts"
    /\ p > 1
    /\ Draw(x)
    /\ PowMod(u', p - 1, p) = 1
    /\ tries' = 0
    /\ pc' = "loop"
    /\ UNCHANGED << mu, m, w, p, result >>

\* if u == (p - 1): euclidian_adhoc is called on sqr_u.
LoopHit ==
    /\ pc = "loop"
    /\ tries < Tries
    /\ u = p - 1
    /\ pc' = "euclid"
    /\ UNCHANGED << mu, m, w, p, sqr_u, u, tries, result >>

\* Otherwise u = pow(randint(1, p), quarter_p, p); sqr_u keeps its value.
LoopRedraw(x) ==
    /\ pc = "loop"
    /\ tries < Tries
    /\ u # p - 1
    /\ u' = PowMod(x, quarter(p), p)
    /\ tries' = tries + 1
    /\ UNCHANGED << mu, m, w, p, sqr_u, pc, result >>

\* After five iterations get_two_lasts returns False.
LoopExhausted ==
    /\ pc = "loop"
    /\ tries = Tries
    /\ pc' = "firsts"
    /\ UNCHANGED << mu, m, w, p, sqr_u, u, tries, result >>

\* (w3, w4) = euclidian_adhoc(sqr_u, p): True if they split p, else False.
Euclid ==
    /\ pc = "euclid"
    /\ LET r == euclidian_adhoc(sqr_u, p)
       IN  IF p = r[1] * r[1] + r[2] * r[2]
             THEN w' = << w[1], w[2], r[1], r[2] >> /\ pc' = "found"
             ELSE pc' = "firsts" /\ UNCHANGED w
    /\ UNCHANGED << mu, m, p, sqr_u, u, tries, result >>

\* Variant: the four values are left as they were found.
SortNone(v) == v

\* sort(w1, w2, w3, w4): if w1, w2 differ in parity, swap w2 with w3 when
\* w3 has the parity of w1, else with w4.
sort(v) ==
    CASE v[1] % 2 = v[2] % 2 -> v
      [] v[1] % 2 = v[3] % 2 -> << v[1], v[3], v[2], v[4] >>
      [] OTHER               -> << v[1], v[4], v[3], v[2] >>

\* The t = 1 call returns abs(w1), ..., abs(w4) and the caller assembles.
Return ==
    /\ pc = "found"
    /\ result' = S!Assemble(decompose(mu)[1], w, sort(w))
    /\ pc' = "done"
    /\ UNCHANGED << mu, m, w, p, sqr_u, u, tries >>

Next ==
    \/ ReturnZero
    \/ Dispatch
    \/ \E v \in S!Draws(m) : TwoFirsts(v)
    \/ LastsTrivial
    \/ \E x \in 1 .. p : FermatFails(x) \/ FermatPasses(x)
    \/ LoopHit
    \/ \E x \in 1 .. p : LoopRedraw(x)
    \/ LoopExhausted
    \/ Euclid
    \/ Return

Spec == Init /\ [][Next]_vars

-----------------------------------------------------------------------------
\* The locals have their types; the loop only runs on m = 2 mod 4.
TypeOK ==
    /\ mu \in Inputs
    /\ pc \in { "entry", "firsts", "lasts", "loop", "euclid", "found", "done" }
    /\ pc \notin { "entry", "done" } => m % 4 = 2
    /\ w \in (Nat \X Nat \X Nat \X Nat)
    /\ p \in Nat
    /\ tries \in 0 .. Tries
    /\ result \in { << >> } \cup (Nat \X Nat \X Nat \X Nat)

\* get_four_square returns four integers whose squares add up to mu: the
\* check p == w3 ** 2 + w4 ** 2 keeps any wrong split from being returned,
\* and sort pairs the values of equal parity before halving (t = 0).
SumOfFourSquares ==
    pc = "done" =>
        result[1]^2 + result[2]^2 + result[3]^2 + result[4]^2 = mu

\* The comment at the for loop: u == p - 1 holds half the time when p is
\* prime, so each of the five iterations is another chance.  It takes it
\* for granted that euclidian_adhoc is then given a square root of -1.
EuclidOnRoot ==
    pc = "euclid" => PowMod(sqr_u, 2, p) = p - 1
=============================================================================
