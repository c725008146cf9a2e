------------------------------ MODULE ScalarMul ------------------------------
(***************************************************************************)
(* One call e * n of AbelianGroup.__mul__ (prototypes/class_groups/       *)
(* group.py) on a class-group element: double-and-add over the bits of n,  *)
(* least significant first.  `other`, `res` and `tmp` are the method's     *)
(* locals; a negative n re-enters the method with -n.                      *)
(***************************************************************************)
EXTENDS ClKind

CONSTANT Scalars    \* the integers n the element is multiplied by

VARIABLES e, n, other, res, tmp, pc
vars == << e, n, other, res, tmp, pc >>

Init ==
    /\ e \in Elements
    /\ n \in Scalars
    /\ other = n
    /\ res = NoResult
    /\ tmp = NoResult
    /\ pc = "entry"

\* if other == 0: return self.zero()
ReturnZero ==
    /\ pc = "entry"
    /\ other = 0
    /\ res' = zero(e.kind)
    /\ pc' = "done"
    /\ UNCHANGED << e, n, other, tmp >>

\* Variant: the re-entry passes other on unchanged.
NegateSameSign ==
    /\ pc = "entry"
    /\ other < 0
    /\ UNCHANGED << e, n, other, res, tmp, pc >>

\* if other < 0: return self * -other
Negate ==
    /\ pc = "entry"
    /\ other < 0
    /\ other' = -other
    /\ UNCHANGED << e, n, res, tmp, pc >>

\* Variant: the loop is entered for any non-zero scalar.
StartAnySign ==
    /\ pc = "entry"
    /\ other # 0
    /\ res' = zero(e.kind)
    /\ tmp' = e
    /\ pc' = "loop"
    /\ UNCHANGED << e, n, other >>

\* res = self.zero(); tmp = self
Start ==
    /\ pc = "entry"
    /\ other > 0
    /\ res' = zero(e.kind)
    /\ tmp' = e
    /\ pc' = "loop"
    /\ UNCHANGED << e, n, other >>

\* One iteration of: while other != 0: if other % 2 == 1: res = res + tmp;
\* tmp = tmp + tmp; other >>= 1.  Bit(bit) is the iteration whose low bit is bit.
Halve(x) == x \div 2

\* Variant: tmp is doubled before it is added into res.
BitDoubleFirst(bit) ==
    /\ pc = "loop"
    /\ other # 0
    /\ other % 2 = bit
    /\ res' = IF bit = 1 THEN Sum(res, Sum(tmp, tmp)) ELSE res
    /\ tmp' = Sum(tmp, tmp)
    /\ other' = Halve(other)
    /\ UNCHANGED << e, n, pc >>

\* Variant: other is left as it was (the other >>= 1 is lost).
BitNoShift(bit) ==
    /\ pc = "loop"
    /\ other # 0
    /\ other % 2 = bit
    /\ res' = IF bit = 1 THEN Sum(res, tmp) ELSE res
    /\ tmp' = Sum(tmp, tmp)
    /\ UNCHANGED << e, n, other, pc >>

Bit(bit) ==
    /\ pc = "loop"
    /\ other # 0
    /\ other % 2 = bit
    /\ res' = IF bit = 1 THEN Sum(res, tmp) ELSE res
    /\ tmp' = Sum(tmp, tmp)
    /\ other' = Halve(other)
    /\ UNCHANGED << e, n, pc >>

\* The loop test fails: return res.
Return ==
    /\ pc = "loop"
    /\ other = 0
    /\ pc' = "done"
    /\ UNCHANGED << e, n, other, res, tmp >>

Next == ReturnZero \/ Negate \/ Start \/ Bit(1) \/ Bit(0) \/ Return

Spec == Init /\ [][Next]_vars /\ WF_vars(Next)

-----------------------------------------------------------------------------
\* The locals have their types, and the loop only ever sees a scalar that
\* is not negative: other >>= 1 leaves -1 at -1, so the loop would never
\* end on a negative one.
TypeOK ==
    /\ e \in Elements
    /\ n \in Scalars
    /\ other \in Int
    /\ pc \in { "entry", "loop", "done" }
    /\ pc = "loop" => other \in Nat /\ res \in Elements /\ tmp \in Elements

\* Double-and-add keeps res + other * tmp equal to e * |n|: after every
\* iteration the bits of other still to come, weighted by tmp, make up what
\* res lacks, so that on return res is e added to itself |n| times.  It
\* needs the add before the doubling and the shift after both.
DoubleAndAdd ==
    pc = "loop" => Sum(res, Multiple(tmp, other)) = Multiple(e, PyAbs(n))

\* What e * n returns: e added to itself |n| times.  For n >= 0 this is
\* the consistency with repeated addition of spec section 8; for n < 0 it is
\* the re-entry with -n that spec section 9 describes.
ProductOf == [ a \in Elements \X Scalars |-> Multiple(a[1], PyAbs(a[2])) ]

\* The refinement mapping: from its entry on the call is pending, and res
\* is visible only on return.
Abs == INSTANCE CallAbstract WITH
    Args <- Elements \X Scalars,
    Result <- ProductOf,
    None <- NoResult,
    arg <- << e, n >>,
    result <- IF pc = "done" THEN res ELSE NoResult,
    pc <- IF pc = "done" THEN "returned" ELSE "called"

\* __mul__ implements CallAbstract: the re-entry for a negative n and every
\* loop iteration are invisible to the caller, the call returns, and the
\* one value it returns is e added to itself |n| times.
ImplementsMul == Abs!Spec

\* For a negative n the result is the inverse of e * -n, as the scalar
\* action of an abelian group requires (spec section 9 records the doubt).
NegativeScalar ==
    pc = "done" /\ n < 0 => res = _neg(Multiple(e, -n))
=============================================================================
