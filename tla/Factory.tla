------------------------------- MODULE Factory -------------------------------
(***************************************************************************)
(* One call new_cl_class(discriminant) of prototypes/class_groups/cl.py:  *)
(* the assert on discriminant % 4 == 1, then _is_probably_prime(-D): its   *)
(* own assert on p % 4 == 3 and 16 Euler-criterion rounds, each drawing    *)
(* x = randint(2, p - 1).  The draw is a nondeterministic choice; an empty *)
(* range makes randint raise ValueError.                                   *)
(***************************************************************************)
EXTENDS Integers, PyInt

CONSTANTS
    Discriminants,      \* the arguments new_cl_class is called with
    Rounds,             \* range(16) in _is_probably_prime
    AssertionError,     \* a failing assert
    ValueError,         \* randint(lo, hi) with lo > hi
    Created,            \* the returned subclass of Cl
    NoResult

ASSUME Discriminants \subseteq Int /\ Rounds \in Nat

VARIABLES d, p, round, pc, outcome
vars == << d, p, round, pc, outcome >>

Init ==
    /\ d \in Discriminants
    /\ p = 0
    /\ round = 0
    /\ pc = "entry"
    /\ outcome = NoResult

Raise(err) == pc' = "done" /\ outcome' = err

\* assert discriminant % 4 == 1 and _is_probably_prime(-discriminant):
\* the left conjunct fails, and the test is never called.
ModRejected ==
    /\ pc = "entry"
    /\ PyMod(d, 4) # 1
    /\ Raise(AssertionError)
    /\ UNCHANGED << d, p, round >>

\* The left conjunct holds: _is_probably_prime is called with p = -D.
CallPrime ==
    /\ pc = "entry"
    /\ PyMod(d, 4) = 1
    /\ p' = -d
    /\ pc' = "prime"
    /\ UNCHANGED << d, round, outcome >>

\* assert p % 4 == 3 in _is_probably_prime.
PrimeAssert ==
    /\ pc = "prime"
    /\ IF PyMod(p, 4) = 3
         THEN pc' = "loop" /\ UNCHANGED outcome
         ELSE Raise(AssertionError)
    /\ UNCHANGED << d, p, round >>

\* Variant: only y == 1 counts as passing the round.
WitnessOnlyOne(x) == PowMod(x, FloorDiv(p - 1, 2), p) # 1

\* y = pow(x, (p - 1) // 2, p) is a witness of compositeness.
Witness(x) == LET y == PowMod(x, FloorDiv(p - 1, 2), p) IN y # 1 /\ y # p - 1

\* The draws x = randint(2, p - 1) that are witnesses, and those that are
\* not; a round's outcome depends only on which of the two x falls in.
Witnesses == { x \in 2 .. p - 1 : Witness(x) }
NonWitnesses == { x \in 2 .. p - 1 : ~Witness(x) }

\* One round with x = randint(2, p - 1) finding a witness: the test returns
\* False, and the assert of new_cl_class fails.
RoundRejects ==
    /\ pc = "loop"
    /\ round < Rounds
    /\ Witnesses # {}
    /\ Raise(AssertionError)
    /\ UNCHANGED << d, p, round >>

\* One round whose x is not a witness: on to the next round.
RoundPasses ==
    /\ pc = "loop"
    /\ round < Rounds
    /\ NonWitnesses # {}
    /\ round' = round + 1
    /\ UNCHANGED << d, p, pc, outcome >>

\* randint(2, p - 1) on an empty range raises ValueError.
RandintEmpty ==
    /\ pc = "loop"
    /\ round < Rounds
    /\ p - 1 < 2
    /\ Raise(ValueError)
    /\ UNCHANGED << d, p, round >>

\* All rounds passed: the test returns True and the class is created.
Accept ==
    /\ pc = "loop"
    /\ round = Rounds
    /\ pc' = "done"
    /\ outcome' = Created
    /\ UNCHANGED << d, p, round >>

Next == ModRejected \/ CallPrime \/ PrimeAssert \/ RoundRejects \/ RoundPasses \/ RandintEmpty \/ Accept

Spec == Init /\ [][Next]_vars /\ WF_vars(Next)

-----------------------------------------------------------------------------
IsPrime(m) == m > 1 /\ \A q \in 2 .. m - 1 : m % q # 0

\* No false negative: for a D the spec admits (negative, D % 4 == 1, -D
\* prime), every sequence of 16 draws ends with the class created, since
\* by Euler's criterion x^((p-1)/2) is 1 or p - 1 modulo a prime p.
PrimeAccepted ==
    pc = "done" /\ d < 0 /\ PyMod(d, 4) = 1 /\ IsPrime(-d) => outcome = Created

=============================================================================
