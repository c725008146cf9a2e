------------------------------- MODULE ClGroup -------------------------------
(***************************************************************************)
(* The class group Cl(D) of binary quadratic forms: class Cl of            *)
(* prototypes/class_groups/cl.py and the generic operators of AbelianGroup *)
(* (group.py) it inherits, as operators on values.                        *)
(*                                                                         *)
(* A group kind is a class new_cl_class returned (a model value of Kinds)  *)
(* with its discriminant DiscOf[k].  An element is the object Cl.__init__  *)
(* builds: a record of its kind and its reduced triple.  A call that       *)
(* raises yields the exception instead.                                    *)
(***************************************************************************)
EXTENDS Integers, FiniteSets, Forms, Egcd

CONSTANTS
    Kinds,                  \* classes returned by new_cl_class
    DiscOf,                 \* DiscOf[k]: the discriminant class k returns
    AssertionError,         \* raised by a failing assert
    NotImplementedError,    \* raised by Cl.random
    NoResult                \* the value of `last` before the first call

ASSUME DiscOf \in [Kinds -> { d \in Int : d < 0 }]

Exceptions == { AssertionError, NotImplementedError }

-----------------------------------------------------------------------------
\* Variant: the constructor stores the triple without reducing it.
\* Variant: the discriminant assert is missing.
ClNoAssert(k, f) == [ kind |-> k, form |-> _reduce(f) ]

ClUnreduced(k, f) ==
    IF Disc(f) = DiscOf[k] THEN [ kind |-> k, form |-> f ] ELSE AssertionError

\* Cl.__init__: assert b * b - 4 * a * c == self.discriminant(), then
\* self.a, self.b, self.c = _reduce(a, b, c).
Cl(k, f) ==
    IF Disc(f) = DiscOf[k] THEN [ kind |-> k, form |-> _reduce(f) ]
                           ELSE AssertionError

\* Cl.zero: the principal form (1, 1, (1 - d) / 4), or (1, 0, -d / 4) for an
\* even discriminant.
zero(k) ==
    LET d == DiscOf[k]
    IN  IF PyMod(d, 2) = 1 THEN Cl(k, << 1, 1, FloorDiv(-(d - 1), 4) >>)
                           ELSE Cl(k, << 1, 0, FloorDiv(-d, 4) >>)

\* Cl.random
random(k) == NotImplementedError

\* Cl.__eq__: False for an object of another class, else the triples agree.
_eq(x, y) == x.kind = y.kind /\ x.form = y.form

\* Variant: the inverse built without flipping the middle coefficient.
NegSameForm(x) == Cl(x.kind, x.form)

\* Cl.__neg__: type(self)(self.a, -self.b, self.c)
_neg(x) == Cl(x.kind, << x.form[1], -x.form[2], x.form[3] >>)

\* Cl.__add__: composition.  d, r, s, t = _egcd(a1, a2, (b1 + b2) // 2);
\* a = a1 * a2 // d**2; b = b2 + 2 * a2 * (s * (b1 - b2) // 2 - t * c2) // d;
\* c = (b**2 - self.discriminant()) // (4 * a); return type(self)(a, b, c).
\* Nothing compares the kinds of self and other: the result has self's kind.
_add(x, y) ==
    LET a1 == x.form[1]  b1 == x.form[2]
        a2 == y.form[1]  b2 == y.form[2]  c2 == y.form[3]
        eg == _egcd(<< a1, a2, FloorDiv(b1 + b2, 2) >>)
        d == eg[1]  s == eg[3]  t == eg[4]
        a == FloorDiv(a1 * a2, d * d)
        b == b2 + FloorDiv(2 * a2 * (FloorDiv(s * (b1 - b2), 2) - t * c2), d)
    IN  Cl(x.kind, << a, b, FloorDiv(b * b - DiscOf[x.kind], 4 * a) >>)

\* Cl.__copy__: type(self)(self.a, self.b, self.c)
_copy(x) == Cl(x.kind, x.form)

\* AbelianGroup.__sub__: self + -other
_sub(x, y) == _add(x, _neg(y))


IsElement(r) == r \notin Exceptions

\* a + b where either operand may already be an exception, which the
\* Python expression propagates.
Plus(x, y) == IF IsElement(x) /\ IsElement(y) THEN _add(x, y) ELSE AssertionError

\* The elements of kind k: every reduced positive-definite form of its
\* discriminant (a reduced form has a <= sqrt(-D / 3)).
ElementsOf(k) ==
    LET d == DiscOf[k]
        bound == CHOOSE m \in 1 .. -d : m * m * 3 <= -d /\ (m + 1) * (m + 1) * 3 > -d
    IN  { [ kind |-> k, form |-> << x, y, (y * y - d) \div (4 * x) >> ] :
            x \in 1 .. bound, y \in -bound .. bound }
        \cap { el \in [ kind : { k }, form : Int \X Int \X Int ] :
                Disc(el.form) = d /\ _is_reduced(el.form) }

\* The class number: the order of the group of kind k.
ClassNumber(k) == Cardinality(ElementsOf(k))
=============================================================================
