------------------------------ MODULE Regression ------------------------------
(***************************************************************************)
(* The regression script prototypes/class_groups/main.py as a composition *)
(* of the components it calls, one after the other: new_cl_class(D) (the   *)
(* Factory state machine), element_order(elem) (ElementOrder), elem * N    *)
(* (ScalarMul), Group.zero() and elem + y (ClGroup).  Each component runs  *)
(* on its own copy of its variables; `stage` is the line the script is at. *)
(* Each assert compares with the value Sage computed, which is the         *)
(* reference definition here (OrderOf, Multiple); the issubclass and       *)
(* isinstance asserts hold by construction and are left out.               *)
(***************************************************************************)
EXTENDS ClKind

CONSTANTS
    Rounds,     \* range(16) in _is_probably_prime
    ValueError, \* randint on an empty range
    Created,    \* new_cl_class returned the subclass
    MaxOrder,   \* the bound of ElementOrder's counter
    Scalars     \* the scalars N of y = elem * N

VARIABLES
    stage,                              \* the line of main.py
    fd, fp, round, fpc, outcome,        \* new_cl_class
    elem, identity, order, i, opc,      \* element_order(elem)
    scalar, other, res, tmp, mpc,       \* elem * scalar
    yv, zv                              \* the script's y and z

fvars == << fd, fp, round, fpc, outcome >>
ovars == << identity, order, i, opc >>
mvars == << other, res, tmp, mpc >>
vars == << stage, fvars, elem, ovars, scalar, mvars, yv, zv >>

\* The values Sage computed for the asserts, one table per kind of value.
OrderTable == [ x \in Elements |-> OrderOf(x) ]
MultipleTable == [ x \in Elements, m \in Scalars \cup { N + 1 : N \in Scalars } |-> Multiple(x, m) ]
AddResult == [ x, y \in Elements |-> _add(x, y) ]

F == INSTANCE Factory WITH Discriminants <- { DiscOf[Kind] }, d <- fd, p <- fp, pc <- fpc
EO == INSTANCE ElementOrder WITH e <- elem, pc <- opc
SM == INSTANCE ScalarMul WITH e <- elem, n <- scalar, pc <- mpc

\* Before line 11 there is no elem and before line 20 no scalar: the
\* component locals start as their calls find them.
Init ==
    /\ stage = "factory"
    /\ F!Init
    /\ elem = NoResult
    /\ identity = NoResult
    /\ order = 0
    /\ i = NoResult
    /\ opc = "entry"
    /\ scalar = 0
    /\ other = 0
    /\ res = NoResult
    /\ tmp = NoResult
    /\ mpc = "entry"
    /\ yv = NoResult
    /\ zv = NoResult

\* A step of new_cl_class(D) (line 5).
Factory ==
    /\ stage = "factory"
    /\ F!Next
    /\ UNCHANGED << stage, elem, ovars, scalar, mvars, yv, zv >>

\* new_cl_class has returned or raised; an exception ends the script.
\* Otherwise elem = Group(33821, -16349, 36301) (line 11): an element.
NewClass ==
    /\ stage = "factory"
    /\ fpc = "done"
    /\ IF outcome = Created
         THEN stage' = "order" /\ \E x \in Elements : elem' = x
         ELSE stage' = "failed" /\ UNCHANGED elem
    /\ UNCHANGED << fvars, ovars, scalar, mvars, yv, zv >>

\* A step of element_order(elem) (line 13).
Order ==
    /\ stage = "order"
    /\ EO!Next
    /\ UNCHANGED << stage, fvars, scalar, mvars, yv, zv >>

\* assert element_order(elem) == 3135; then the call elem * 4873 of line
\* 20 begins with other = 4873.
AssertOrder ==
    /\ stage = "order"
    /\ opc = "done"
    /\ IF order = OrderTable[elem]
         THEN /\ stage' = "mul"
              /\ \E N \in Scalars : scalar' = N /\ other' = N
         ELSE stage' = "failed" /\ UNCHANGED << scalar, other >>
    /\ UNCHANGED << fvars, elem, ovars, res, tmp, mpc, yv, zv >>

\* A step of y = elem * 4873 (line 20).
Mul ==
    /\ stage = "mul"
    /\ SM!Next
    /\ UNCHANGED << stage, fvars, ovars, yv, zv >>

\* y = elem * 4873; assert y == Group(2099, 605, 553123)
AssertMul ==
    /\ stage = "mul"
    /\ mpc = "done"
    /\ yv' = res
    /\ stage' = IF _eq(res, MultipleTable[elem, scalar]) THEN "zero" ELSE "failed"
    /\ UNCHANGED << fvars, elem, ovars, scalar, mvars, zv >>

\* assert Group.zero() == Group(1, 1, 1160913671): the principal form
\* (1, 1, (1 - D) / 4).
AssertZero ==
    /\ stage = "zero"
    /\ stage' = IF _eq(zero(Kind), Cl(Kind, << 1, 1, (1 - DiscOf[Kind]) \div 4 >>))
                  THEN "add" ELSE "failed"
    /\ UNCHANGED << fvars, elem, ovars, scalar, mvars, yv, zv >>

\* z = elem + y; assert z == Group(21923, 21401, 58177)
AssertAdd ==
    /\ stage = "add"
    /\ zv' = AddResult[elem, yv]
    /\ stage' = IF _eq(zv', MultipleTable[elem, scalar + 1]) THEN "done" ELSE "failed"
    /\ UNCHANGED << fvars, elem, ovars, scalar, mvars, yv >>

Next ==
    \/ Factory
    \/ NewClass
    \/ Order
    \/ AssertOrder
    \/ Mul
    \/ AssertMul
    \/ AssertZero
    \/ AssertAdd

\* The script runs on one thread to its end.
Spec == Init /\ [][Next]_vars /\ WF_vars(Next)

-----------------------------------------------------------------------------
\* The script's stage and locals have their types, and so do those of each
\* component it has called.
TypeOK ==
    /\ stage \in { "factory", "order", "mul", "zero", "add", "done", "failed" }
    /\ elem # NoResult => EO!TypeOK
    /\ stage \in { "mul", "zero", "add", "done" } => SM!TypeOK
    /\ yv \in Elements \cup { NoResult }
    /\ zv \in Elements \cup { NoResult }

\* Every assert of main.py holds, for every element and scalar of the
\* group and every sequence of random draws of the primality test: the
\* class is created, element_order returns the order, double-and-add
\* agrees with repeated addition, zero() is the principal form, and
\* composing elem with elem * N gives elem * (N + 1).
ScriptPasses == stage # "failed"

\* The script reaches its end: every call it makes returns.
ScriptCompletes == <>(stage = "done")

\* The refinement mapping: before Start nothing is called, in the loop the
\* call is pending, and only on return is order visible.
Abs == INSTANCE CallAbstract WITH
    Args <- Elements,
    Result <- OrderTable,
    None <- NoResult,
    arg <- IF opc = "entry" THEN NoResult ELSE elem,
    result <- IF opc = "done" THEN order ELSE NoResult,
    pc <- CASE opc = "entry" -> "idle" [] opc = "loop" -> "called" [] opc = "done" -> "returned"

\* The element_order call of the script implements CallAbstract: seen
\* from the script, the call begins with Start, does nothing visible until
\* it returns, and then returns the order of elem (the least m >= 1 with
\* m * elem the identity) that line 13 asserts; and it does return.
ImplementsOrder == Abs!Spec
=============================================================================
