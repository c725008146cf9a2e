# TLA+ models of the class-group and four-squares prototypes

These modules model two Python prototypes under `src/prototypes/`.

The binary-quadratic-form class-group code is in `class_groups/`:

- `cl.py` holds the `Cl` element type, reduction, composition, the extended GCD, the primality test and the factory.
- `group.py` holds the generic `AbelianGroup` operations and `element_order`.
- `main.py` is a regression script that calls all of them on one discriminant and asserts the values Sage computed.

The randomised four-squares decomposition comes in two versions:

- `four_squares/four_squares.py` is the current one.
- `four_square/four_square.py` is the earlier one.

Every definition that models code is listed, with its source lines, under
`map` in `PROJECT.json`.

## The system

The class-group core is a pure, single-threaded library. Its parts, leaves
first:

| Part | Code | What it does |
|---|---|---|
| Extended GCD | `cl.py` `_egcd` (105-137) | gcd and Bezout coefficients of one or more integers. It folds the pairwise Euclidean algorithm over the arguments, then makes the gcd non-negative. |
| Reduction | `cl.py` `_is_normal`, `_is_reduced`, `_reduction_step`, `_reduce` (69-102) | Maps a form (a, b, c) to the reduced representative of its class. It swaps to (c, -b, a) if the form is not normal, then applies Gauss steps until reduced. |
| Element type | `cl.py` `Cl` (7-53) | Stores a reduced triple. `__init__` asserts the discriminant and reduces. `zero`, `__eq__`, `__neg__`, `__add__` (composition through `_egcd`) and `__copy__` each build a new element. `random` raises `NotImplementedError`. |
| Generic operations | `group.py` `__sub__`, `__mul__`, `element_order` (33-62) | Subtraction, double-and-add scalar multiplication, and brute-force order, all written against the abstract interface. |
| Four squares | `four_squares.py` (5-106) | `get_four_squares(mu)` writes mu >= 0 as a sum of four squares. It first runs `decompose`, which gives mu = 2^t (2k+1). For t = 1 it loops: `get_two_firsts` draws w1, w2 of different parity with w1² + w2² <= mu. Then `get_two_lasts` asks `sqrt_minus_one` for a square root of -1 mod p = mu - w1² - w2², with up to 5 random draws. `euclidian_adhoc` turns that root into p = w3² + w4². Any failure starts a new pass. Other values of t recurse once onto an argument with t = 1 and rescale the result, after a parity sort for even t. |
| Four squares, earlier version | `four_square.py` (4-95) | Same structure, with three differences. `decompose` is a loop, and `sort` swaps values by hand. `get_two_lasts` draws `sqr_u`, squares it to u, and applies a Fermat test to u. It then loops 5 times comparing u with p - 1, redrawing u (but not `sqr_u`). |
| Regression script | `main.py` (4-38) | Builds the kind for D = -4643654683, takes one element, and asserts its order, one scalar multiple, the zero element and one sum against Sage's values. |
| Factory | `cl.py` `new_cl_class`, `_is_probably_prime` (56-85) | Asserts D % 4 == 1 and that -D passes 16 Euler-criterion rounds with random bases. It then builds a fresh `Cl` subclass (a group "kind") bound to D. |

How the parts interact:

- The factory yields a kind.
- Elements of a kind are built from triples.
- Every construction runs reduction.
- `__add__` runs `_egcd`, then reduction.
- `__mul__` and `element_order` call `__add__`, `zero` and `__eq__` repeatedly.
- `main.py` calls the factory, then `element_order`, `__mul__`, `zero` and `__add__` on the kind it made, one after the other.

The four-squares code is independent of the class-group code: a caller
passes it an integer and gets four back.

Nothing runs concurrently, nothing is persisted, and nothing is sent over a
network. The hard behaviours are these:

- loops whose termination depends on the input;
- Python's floor division and modulo on negative numbers;
- the order of the steps inside a loop;
- the random draws of the primality test;
- a sequence of legal calls that mixes two kinds;
- a retry loop that ends only with probability 1;
- a value drawn in one step and used after a later redraw.

## Modules

| Module | Models | State and actions |
|---|---|---|
| `PyInt` | Python's `//`, `%`, `abs` and three-argument `pow`. This is the language, not repository code, so it is not in the map. | Operators only. |
| `Forms` | `_is_normal`, `_is_reduced`, `_reduction_step`, `_reduce` (as `_normalize` + `ReductionLoop`). | Operators only. It also holds `Equivalent`, a bounded search for an SL2(Z) substitution. This is the reference for "same class". |
| `Reduce` | One call of `_reduce`. | Variables: `input`, `form`, `pc`. Actions: `Normalize` (the swap at line 98-99), `Step` (one loop iteration at 100-101) and `Return` (102). |
| `Egcd` | `_egcd`. | `EuclidLoop` is the while loop of 124-127. `FoldStep` and `FoldFrom` are the for loop of 110-132. `_egcd` is the whole function, with `TypeError` as a value. |
| `MCEgcd` | Calls of `_egcd`. | `Call` picks any sequence of up to `MaxLen` arguments, each from -`Bound`..`Bound` or a non-int. |
| `ClGroup` | The `Cl` methods and `__sub__` as operators on records `[kind, form]`. | Exceptions are model values (`AssertionError`, `NotImplementedError`, `TypeError`). A kind is a model value with its discriminant in `DiscOf`. |
| `ClassGroup` | Any sequence of calls on `Cl` elements. | `held` is the set of elements the program holds. `last` is the last call's outcome. There is one action per method: `Construct`, `Zero`, `Random`, `Add`, `Neg`, `Sub`, `Copy`, `Equals`. |
| `ClKind` | The elements of one kind. | `AddTable` tabulates `_add`. `Sum` looks it up in the constant `SumTable`, which every model sets to `AddTable` (an `ASSUME` says so). TLC evaluates a constant once; a definition inside a module instantiated with substituted variables it would recompute at every use. `Multiple` and `OrderOf` are the reference definitions. |
| `ScalarMul` | One call `e * n` of `__mul__`. | Variables: `e`, `n`, the locals `other`, `res`, `tmp`, and `pc`. Actions: `ReturnZero` (37-38), `Negate` (39-40, the re-entry with -n), `Start` (42-43), `Bit(1)`/`Bit(0)` (one loop iteration, 44-48) and `Return` (49). |
| `ElementOrder` | One call of `element_order`. | Variables: `e`, `identity`, `order`, `i`, `pc`. Actions: `Start` (55-58), `Step` (59-61) and `Return` (62). |
| `CallAbstract` | What a call of `element_order` or `__mul__` promises its caller: an abstract specification, not code. | Constants: `Args` and `Result`, a function on them. Variables: `arg`, `result`, `pc`. Actions: `Call` (any argument) and `Return` (`Result[arg]`, in one step), with weak fairness on `Return`. A caller is seen from before the call (`element_order` inside `main.py`) or from the call's entry (`__mul__` on its own). `ElementOrder` implements it with `Result` the order (`ImplementsOrder` in `Regression`); `ScalarMul` with `Result` the multiple e * \|n\| (`ImplementsMul`). |
| `Regression` | `main.py` as a composition. | It instantiates `Factory` as `F`, `ElementOrder` as `EO` and `ScalarMul` as `SM`, each on its own copy of its variables, and adds `stage` (the line the script is at) and the script's `yv`, `zv`. Actions: `Factory` (a step of `new_cl_class`, line 5), `NewClass` (the exception ends the script, or line 11 picks `elem`), `Order` (a step of `element_order`, 13), `AssertOrder` (13, then the call at 20 begins), `Mul` (a step of `__mul__`, 20), `AssertMul` (21), `AssertZero` (27) and `AssertAdd` (33-34). Each assert that fails moves to `stage = "failed"`. `OrderTable`, `MultipleTable` and `AddResult` tabulate the asserted values once, so that TLC does not recompute them when it evaluates `ENABLED` for fairness. |
| `Factory` | One call of `new_cl_class`. | Variables: `d`, `p`, `round`, `pc`, `outcome`. Actions: `ModRejected`/`CallPrime` (the two sides of the assert at 57), `PrimeAssert` (78), `RoundRejects`/`RoundPasses` (one round, 80-84: the round rejects if some draw x is a witness, and passes if some draw is not; `Witnesses` and `NonWitnesses` are the two sets of draws, so that the draw is one choice between outcomes rather than one transition per x), `RandintEmpty` (the `ValueError` of `randint` on an empty range) and `Accept` (85). |

| `Squares` | The deterministic helpers of `four_squares.py`. | Operators only. `decompose` (with `LowBit`, `BitLength`); `Draws` and `TwoFirstsOk` are the pairs one pass of `get_two_firsts` can draw and the ones it accepts; `AdhocLoop`/`euclidian_adhoc`; `LoopArgument` (the argument the t = 1 loop runs on, after the one recursive call) and `Assemble` (the rescaling after it). |
| `FourSquares` | One call of `get_four_squares`. | Variables: `mu`, `m` (the t = 1 argument), `w`, `p`, `tries`, `root`, `pc`, `result`. Actions: `ReturnZero` (68-69), `Dispatch` (71-89), `TwoFirsts(v)` (76-77), `LastsTrivial` (48-52), `LastsSearch` (54), `SqrtHit(x)`/`SqrtMiss(x)` (one round of `sqrt_minus_one`, 38-41), `SqrtNone` (43, 55-56), `Euclid` (58-62, both outcomes) and `Return` (80-106, with `ParitySort` as the `sorted` of line 90). |
| `FourSquare` | One call of the earlier `get_four_square`. | The same variables, with `sqr_u` and `u` in place of `root`. It instantiates `Squares` as `S`. `decompose` is the loop of 13-21 and `sort` is lines 4-10. `FermatFails(x)`/`FermatPasses(x)` model the first draw and the test (52-56). `LoopHit`, `LoopRedraw(x)` and `LoopExhausted` model the for loop (57-65). `Euclid` runs on `sqr_u` (59-63). |

`MC*` modules fix the constants:

- `D47` and `MCDiscOf` give the discriminants.
- `PositiveInputs` and `AllInputs` are the boxes of input forms.
- `MCScalars` is the range of scalars.
- `MCDiscriminants` is the set of factory arguments.
- `MaxMu` bounds the four-squares arguments `0 .. MaxMu`.

## Runs

| Run | Module / cfg | Checks | Result |
|---|---|---|---|
| reduce_safety | MCReduce / MCReduce.cfg | `TypeOK`: every state holds a form of discriminant D. `SameClass`: the current form is properly equivalent to the input. `Termination`: `_reduce` returns, under weak fairness. All hold for every positive-definite form of D = -47 with a, c <= 120 and \|b\| <= 41 (310 inputs). | pass |
| reduce_hang | MCReduce / MCReduceHang.cfg | `Termination` when the inputs include negative-definite forms. | violation: (-2,-1,-6) and (-6,1,-2) alternate forever |
| egcd | MCEgcd / MCEgcd.cfg | `GcdAndBezout`: the result has one coefficient per argument, its first component is the non-negative gcd, and the coefficients combine to it. A remainder of the wrong sign in the pairwise loop, or a sign fix that leaves the coefficients, breaks it. Checked for every sequence of up to 3 arguments in -6..6. A non-int raises TypeError. | pass |
| class_group | MCClassGroup / MCClassGroup.cfg | Checked over every sequence of calls on D = -71 (class number 7). `TypeOK`: every held element has its kind's discriminant. `Closure`: held elements are reduced and positive-definite, and `_add` of two of them is an element. `GroupLaws`: commutativity, associativity, identity and inverse. `Canonical`: no held element changes under reduction of an equivalent form. | pass |
| class_group_kinds | MCClassGroup / MCClassGroupKinds.cfg | `KindIsolation` (spec section 8), with two kinds (D = -71 and D = -47). | violation: the two zeros add to an element |
| scalar_mul | MCScalarMul / MCScalarMul.cfg | `TypeOK`: the loop only sees a non-negative scalar (`>>=` never ends on a negative one). `DoubleAndAdd`: the loop invariant res + other*tmp = \|n\|*e. `ImplementsMul`: `__mul__` implements `CallAbstract`, under a mapping that hides the re-entry and the loop: the call returns, and it returns \|n\|*e. Checked for every element of D = -71 and -16 <= n <= 16. | pass |
| scalar_negative | MCScalarMul / MCScalarMulNegative.cfg | `NegativeScalar`: e*n = -(e*\|n\|) for n < 0. | violation: (2,-1,9) * -1 = (2,-1,9) |
| regression | MCRegression / MCRegression.cfg | `main.py` on D = -239 (class number 15, so elements of order 1, 3, 5 and 15 occur), for every element, every scalar 0..16 and every draw of the 16 primality rounds. `TypeOK`: the script's and each called component's locals have their types (the order count stays within 1..class number). `ScriptPasses`: no assert fails. `ScriptCompletes`: the script reaches its end. `ImplementsOrder`: the `element_order` call implements `CallAbstract` under the refinement mapping (entry is idle, the loop is a pending call, and `order` is visible only on return). | pass (2,522 states) |
| factory | MCFactory / MCFactory.cfg | `PrimeAccepted`: an admissible prime -D is accepted for every sequence of draws. | pass |
| four_squares | MCFourSquares / MCFourSquares.cfg | Checked for every mu <= 40 and every sequence of draws. `TypeOK`: the loop only runs on m = 2 mod 4, with p >= 0. `SumOfFourSquares`: the result's squares add up to mu. `RootSplits`: whenever `sqrt_minus_one` has found a root of -1, `euclidian_adhoc` splits p, so the check at line 59 never fails. `LoopHasExit`: every pass of the retry loop has draws that make it return. | pass (12,118 states) |
| four_square | MCFourSquare / MCFourSquare.cfg | `TypeOK` and `SumOfFourSquares` for the earlier version, mu <= 14. The sum holds whatever stale `sqr_u` reaches `euclidian_adhoc`, because the check at line 60 discards a wrong split. Its retry loop has the same exit condition as the current version's, so `LoopHasExit` is checked there only. | pass (19,464 states) |
| four_square_stale_root | MCFourSquare / MCFourSquareStale.cfg | `EuclidOnRoot`: `euclidian_adhoc` is only given a square root of -1, as the comment at line 57 assumes. | violation: mu = 3, p = 5. The first draw gives sqr_u = 1 and u = 1, and the redraw gives u = 4 = p - 1. Euclid then runs on 1. The check at line 60 makes that a wasted pass, never a wrong result. |

Every property of a passing run has a mutant in `PROJECT.json`. A mutant is a
plausible slip in the modelled code, and TLC finds it violating the property.
The mutants are:

- a wrong constant term in the reduction step;
- a missing discriminant assert;
- a loop entered with a negative scalar;
- a count starting at 0;
- s computed from b alone;
- the swap without negating b;
- normality closed at -a;
- coefficients left un-negated in `_egcd`;
- elements left unreduced;
- negation that keeps b;
- doubling before adding;
- a re-entry that loses the sign flip;
- leaving the `element_order` loop before i reaches the identity;
- losing the shift `other >>= 1` in `__mul__`;
- a primality round that rejects y == p - 1;
- dividing by s instead of s² in the dispatch on t;
- no parity sort before halving;
- the quotient instead of the remainder in `euclidian_adhoc`;
- the exponent (p - 1) >> 1 for the square-root candidate;
- `decompose` counting t from 1;
- no `sort` in the earlier version.

## Bounds

- **Discriminants.** -47, -71 and -239 are primes with D % 4 == 1, as the factory demands. Their class numbers are 5, 7 and 15. Composite class numbers (D = -239) are needed for `element_order` to meet orders other than 1 and the group order.
- **Reduce inputs.** The box a, c <= 120, |b| <= 41 holds 310 positive-definite forms of D = -47. It reaches both branches of the normal test and forms that need up to three reduction steps, where the box a, c <= 40 needs at most two. `SameClass` searches SL2(Z) matrices with entries up to `MatBound` = 12, which finds the substitution for every form in the box.
- **Scalars.** Scalars up to 16 exercise five-bit loops, with both bit values at every position.
- **Factory arguments.** They cover every branch:
  - admissible primes;
  - composites with Euler liars, so some rounds pass;
  - D % 4 != 1 (the spec's negative control, -21);
  - positive D.
- **Rounds.** The factory keeps the real 16 rounds, and both four-squares versions keep the real 5 tries.
- **Four-squares arguments.** mu <= 40 covers t = 0 to 5 (32 = 2^5). The t = 1 loop then runs on m up to 78 (m = 2 * mu for odd mu), so p ranges over every value = 1 mod 4 up to 77, primes and composites alike. For the earlier version, mu <= 14 keeps the run fast (19,464 states) and still reaches every p = 1 mod 4 up to 25. Those include the first draws that fail the Fermat test and the redraws that expose the stale `sqr_u`.
- **Regression script.** D = -4643654683 and the forms of `main.py` do not fit TLC's integers. `MCRegression` runs the same script on D = -239, with the element and the scalar chosen nondeterministically (every element, scalars 0..16), so the fixed element and scalar of `main.py` are one case among those checked in shape, not in value.

## Fairness

The code runs each call to completion on one thread. There is no other actor
that could starve a step. So the single-call state machines (`Reduce`,
`ScalarMul`, `ElementOrder`, `Factory`) assume weak fairness of `Next`, and the
termination properties ask whether the loops end by themselves.
`Regression` runs the script on one thread, so it too assumes weak fairness of
`Next`. `CallAbstract` asks weak fairness of its `Return` only: a call that has
begun returns, and nothing obliges a caller to call.
`ClassGroup` is a sequence of calls chosen by a user, so it has no fairness and
checks only safety.

The four-squares loop ends only with probability 1, because each pass depends
on fresh random draws. No fairness the code guarantees makes it end: an
adversarial random source could fail forever. So the modules state no
termination property. Instead, `LoopHasExit` checks in every state where a
pass begins that some draws make that pass return. Passes are independent, so
the chance of running n passes without returning then shrinks geometrically.

`CHECK_DEADLOCK FALSE` is set where a call ends in `pc = "done"`, or where
`MCEgcd` has made its call. A finished call stops by design.

## Not modelled

- `src/main.py` is a lint runner. It runs `golangci-lint` once for each suffix of its list of linters, then once in debug mode, and appends the output to a file. Its behaviour is that of the processes it starts; it has no state of its own beyond the loop index.
- `src/docs/build.py` builds the documentation. It checks paths, then runs LaTeX in a docker container. It is file and process I/O only.
- `bf128.py` prints test vectors for GF(2^128). The arithmetic is Sage's. The script's own code is `int_repr`, which packs 128 coefficients into an integer, and hex formatting. None of it is stateful, and the values are 128 bits wide.
- `root-of-unity.sage.py` prints g^(p >> e) for a modulus p, with e the number of trailing zero bits of p - 1 and g Sage's primitive element of GF(p). Its own logic is one argument check and one exponentiation around two Sage library calls (`trailing_zero_bits`, `primitive_element`). The one point of its own that could go wrong, `p >> e` in place of `(p - 1) >> e`, is equal for every odd p, since 2^e divides p - 1. It is a single computation with no state and is left out.
- In the four-squares modules, the draws `get_two_firsts` rejects change no state and are left out, as are the rejected draws of `randint` inside one pass. The `assert mu >= 0 and isinstance(mu, int)` is not modelled, since the inputs are non-negative integers.
- Which exception rejects a positive discriminant (spec 7): a positive D % 4 == 1 gets a ValueError from `randint` instead of the assert. Both reject D, so no run asks which exception is raised. The hazard is listed in `PROJECT.json`.
- `assert` statements disappear under `python -O`; the models keep them as they run by default.
