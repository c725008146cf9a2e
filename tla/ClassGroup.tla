----------------------------- MODULE ClassGroup -----------------------------
(***************************************************************************)
(* A client of the class-group library (ClGroup.tla).  The library keeps   *)
(* no state of its own, so the state is the client's: `held` is every     *)
(* element it has obtained so far and `last` the outcome of its latest     *)
(* call (what it returned, or the exception it raised).  Each action is    *)
(* one call of the library on elements the client holds.                   *)
(***************************************************************************)
EXTENDS ClGroup

CONSTANT Triples    \* the (a, b, c) the client passes to Cl

VARIABLES held, last
vars == << held, last >>

\* The call returned or raised r; a returned element is kept.
Outcome(r) ==
    /\ last' = IF IsElement(r) THEN [ tag |-> "returned", val |-> r ]
                              ELSE [ tag |-> "raised", val |-> r ]
    /\ held' = IF IsElement(r) THEN held \cup { r } ELSE held

Init ==
    /\ held = {}
    /\ last = [ tag |-> "none", val |-> NoResult ]

Construct == \E k \in Kinds, f \in Triples : Outcome(Cl(k, f))
Zero      == \E k \in Kinds : Outcome(zero(k))
Random    == \E k \in Kinds : Outcome(random(k))
Add       == \E x, y \in held : Outcome(_add(x, y))
Neg       == \E x \in held : Outcome(_neg(x))
Sub       == \E x, y \in held : Outcome(_sub(x, y))
Copy      == \E x \in held : Outcome(_copy(x))
Equals    == \E x, y \in held :
                /\ last' = [ tag |-> "compared", val |-> _eq(x, y) ]
                /\ UNCHANGED held

Next == Construct \/ Zero \/ Random \/ Add \/ Neg \/ Sub \/ Copy \/ Equals

Spec == Init /\ [][Next]_vars

-----------------------------------------------------------------------------
(* Properties.                                                             *)

SameKind(S) == { xs \in S \X S \X S : xs[1].kind = xs[2].kind /\ xs[2].kind = xs[3].kind }

\* Every element held is a form of its kind's discriminant, and the last
\* outcome is a held element, an exception or a comparison.
TypeOK ==
    /\ \A x \in held : /\ x.kind \in Kinds
                        /\ x.form \in Int \X Int \X Int
                        /\ Disc(x.form) = DiscOf[x.kind]
    /\ last.tag = "none" => last.val = NoResult
    /\ last.tag = "returned" => last.val \in held
    /\ last.tag = "raised" => last.val \in Exceptions
    /\ last.tag = "compared" => last.val \in BOOLEAN

\* Every element the client obtains is positive definite and reduced, and
\* the divisions in __add__ are exact, so adding two elements of one kind
\* never trips the assert of Cl.__init__.
Closure ==
    /\ \A x \in held : x.form[1] > 0 /\ _is_reduced(x.form)
    /\ \A x, y \in held : x.kind = y.kind => IsElement(_add(x, y))

\* Within one kind, the elements obtained form an abelian group under
\* __add__ with zero() as identity and __neg__ as inverse: composition,
\* the egcd coefficients and the reduction agree with one another.
GroupLaws ==
    \A xs \in SameKind(held) :
        LET x == xs[1]  y == xs[2]  z == xs[3]
        IN  /\ _add(x, y) = _add(y, x)
            /\ Plus(_add(x, y), z) = Plus(x, _add(y, z))
            /\ _add(x, zero(x.kind)) = x
            /\ _add(x, _neg(x)) = zero(x.kind)

\* The substitutions x -> y, y -> -x and x -> x + y, x -> x - y, which
\* generate SL2(Z).
Moves == { << 0, -1, 1, 0 >>, << 1, 1, 0, 1 >>, << 1, -1, 0, 1 >> }

\* Every element is the unique reduced representative of its class: each
\* form one generator away from it reduces back to it, so equal classes
\* give equal triples and __eq__ is equality of classes.
Canonical ==
    \A x \in held : \A m \in Moves :
        _reduce(Substitute(x.form, m[1], m[2], m[3], m[4])) = x.form

\* Combining elements of two different kinds must fail and never return
\* a result (spec section 8, discriminant isolation).
KindIsolation ==
    \A x, y \in held : x.kind # y.kind => ~IsElement(_add(x, y))
=============================================================================
