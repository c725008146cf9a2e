----------------------------- MODULE FourSquares -----------------------------
(***************************************************************************)
(* One call get_four_squares(mu) of prototypes/four_squares/             *)
(* four_squares.py.  For t = 1 (mu = 2 mod 4) the function loops: two      *)
(* random squares w1^2 + w2^2 below mu, then sqrt_minus_one draws up to 5  *)
(* candidate square roots of -1 modulo p = mu - w1^2 - w2^2, and           *)
(* euclidian_adhoc splits p into w3^2 + w4^2; any failure starts over.     *)
(* Every other mu > 0 makes one recursive call on 2 * (2k + 1), whose t is *)
(* 1, and rescales its answer.  `m` is the argument of the t = 1 loop;     *)
(* every randint is a nondeterministic choice.                             *)
(***************************************************************************)
EXTENDS Integers, Sequences, Squares

CONSTANTS
    Inputs,     \* the arguments mu
    Tries       \* range(5) in sqrt_minus_one

VARIABLES mu, m, w, p, tries, root, pc, result
vars == << mu, m, w, p, tries, root, pc, result >>

Init ==
    /\ mu \in Inputs
    /\ m = 0
    /\ w = << 0, 0, 0, 0 >>
    /\ p = 0
    /\ tries = 0
    /\ root = 0
    /\ pc = "entry"
    /\ result = << >>

\* if mu == 0: return 0, 0, 0, 0
ReturnZero ==
    /\ pc = "entry"
    /\ mu = 0
    /\ result' = << 0, 0, 0, 0 >>
    /\ pc' = "done"
    /\ UNCHANGED << mu, m, w, p, tries, root >>

\* t == 1: the loop runs on mu itself; otherwise the recursive call
\* get_four_squares(mu // s**2) (t odd) or get_four_squares(2 * (2k + 1))
\* (t even), which decomposes its argument again and finds t = 1.
Dispatch ==
    /\ pc = "entry"
    /\ mu > 0
    /\ m' = LoopArgument(mu, decompose(mu))
    /\ pc' = "firsts"
    /\ UNCHANGED << mu, w, p, tries, root, result >>

\* w1, w2 = get_two_firsts(mu); p = mu - w1**2 - w2**2.  The draws the
\* loop of get_two_firsts rejects change nothing and are left out.
TwoFirsts(v) ==
    /\ pc = "firsts"
    /\ v \in Draws(m)
    /\ TwoFirstsOk(m, v)
    /\ w' = << v[1], v[2], 0, 0 >>
    /\ p' = m - v[1] * v[1] - v[2] * v[2]
    /\ pc' = "lasts"
    /\ UNCHANGED << mu, m, tries, root, result >>

\* get_two_lasts: p == 0 and p == 1 return (0, 0) and (1, 0) at once.
LastsTrivial ==
    /\ pc = "lasts"
    /\ p \in { 0, 1 }
    /\ w' = << w[1], w[2], p, 0 >>
    /\ pc' = "found"
    /\ UNCHANGED << mu, m, p, tries, root, result >>

\* Otherwise sqrt_minus_one(p) is called.
LastsSearch ==
    /\ pc = "lasts"
    /\ p > 1
    /\ tries' = 0
    /\ pc' = "sqrt"
    /\ UNCHANGED << mu, m, w, p, root, result >>

\* Variant: the exponent is (p - 1) >> 1.
CandidateHalfExponent(x, q) == PowMod(x, (q - 1) \div 2, q)

\* sqrt_candidate = pow(x, quarter_p, p) with quarter_p = (p - 1) >> 2.
sqrt_candidate(x, q) == PowMod(x, (q - 1) \div 4, q)

\* One round of sqrt_minus_one: sqrt_candidate = pow(randint(1, p),
\* quarter_p, p) is returned when its square is p - 1.
SqrtHit(x) ==
    /\ pc = "sqrt"
    /\ tries < Tries
    /\ x \in 1 .. p
    /\ PowMod(sqrt_candidate(x, p), 2, p) = p - 1
    /\ root' = sqrt_candidate(x, p)
    /\ pc' = "euclid"
    /\ UNCHANGED << mu, m, w, p, tries, result >>

SqrtMiss(x) ==
    /\ pc = "sqrt"
    /\ tries < Tries
    /\ x \in 1 .. p
    /\ PowMod(sqrt_candidate(x, p), 2, p) # p - 1
    /\ tries' = tries + 1
    /\ UNCHANGED << mu, m, w, p, root, pc, result >>

\* All rounds missed: None, get_two_lasts returns False, the loop restarts.
SqrtNone ==
    /\ pc = "sqrt"
    /\ tries = Tries
    /\ pc' = "firsts"
    /\ UNCHANGED << mu, m, w, p, tries, root, result >>

\* w3, w4 = euclidian_adhoc(minus_one_root, p): if they split p,
\* get_two_lasts returns True and the loop of get_four_squares ends;
\* otherwise it returns False and the loop starts over.
Euclid ==
    /\ pc = "euclid"
    /\ LET r == euclidian_adhoc(root, p)
       IN  IF p = r[1] * r[1] + r[2] * r[2]
             THEN w' = << w[1], w[2], r[1], r[2] >> /\ pc' = "found"
             ELSE pc' = "firsts" /\ UNCHANGED w
    /\ UNCHANGED << mu, m, p, tries, root, result >>

IsEven(x) == x % 2 = 0
IsOdd(x) == x % 2 = 1

\* Variant: the four values are left in the order they were found.
ParityUnsorted(v) == v

\* sorted([w1, w2, w3, w4], key=lambda x: x % 2): a stable sort, evens first.
ParitySort(v) == SelectSeq(v, IsEven) \o SelectSeq(v, IsOdd)

\* The t = 1 call returns abs(w1), ..., abs(w4) and the caller assembles.
Return ==
    /\ pc = "found"
    /\ result' = Assemble(decompose(mu)[1], w, ParitySort(w))
    /\ pc' = "done"
    /\ UNCHANGED << mu, m, w, p, tries, root >>

Next ==
    \/ ReturnZero
    \/ Dispatch
    \/ \E v \in Draws(m) : TwoFirsts(v)
    \/ LastsTrivial
    \/ LastsSearch
    \/ \E x \in 1 .. p : SqrtHit(x) \/ SqrtMiss(x)
    \/ SqrtNone
    \/ Euclid
    \/ Return

Spec == Init /\ [][Next]_vars

-----------------------------------------------------------------------------
\* The locals have their types; the loop only runs on m = 2 mod 4 and
\* p = m - w1^2 - w2^2 is never negative.
TypeOK ==
    /\ mu \in Inputs
    /\ pc \in { "entry", "firsts", "lasts", "sqrt", "euclid", "found", "done" }
    /\ pc \notin { "entry", "done" } => m % 4 = 2
    /\ w \in (Nat \X Nat \X Nat \X Nat)
    /\ p \in Nat
    /\ tries \in 0 .. Tries
    /\ result \in { << >> } \cup (Nat \X Nat \X Nat \X Nat)

\* get_four_squares returns four integers whose squares add up to mu:
\* the t = 1 loop splits m, and the rescaling (t odd) or the pairing by
\* parity, halving or scaling (t even) carries that over to mu.
SumOfFourSquares ==
    pc = "done" =>
        result[1]^2 + result[2]^2 + result[3]^2 + result[4]^2 = mu

\* The check p != w3**2 + w4**2 of get_two_lasts never fails: whenever
\* sqrt_minus_one has found a square root of -1 modulo p, the two
\* remainders euclidian_adhoc stops at split p into two squares, whether p
\* is prime or not.
RootSplits ==
    pc = "euclid" =>
        LET r == euclidian_adhoc(root, p) IN p = r[1] * r[1] + r[2] * r[2]

\* One pass of the t = 1 loop on m can return: p is 0 or 1, or one of the
\* draws of sqrt_minus_one gives a square root of -1 modulo p (which then
\* splits p, by RootSplits).
PassSucceeds(q) ==
    \/ q \in { 0, 1 }
    \/ \E x \in 1 .. q : PowMod(sqrt_candidate(x, q), 2, q) = q - 1

\* Every time the retry loop of get_four_squares starts a pass, some draws
\* of get_two_firsts and sqrt_minus_one make that pass return.  Each pass
\* is independent of the last, so with a fair random source the call
\* returns with probability 1; without an exit it would loop forever.
LoopHasExit ==
    pc = "firsts" =>
        \E v \in Draws(m) :
            TwoFirstsOk(m, v) /\ PassSucceeds(m - v[1] * v[1] - v[2] * v[2])
=============================================================================
