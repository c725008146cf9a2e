----------------------------- MODULE ElementOrder -----------------------------
(***************************************************************************)
(* One call element_order(e) of prototypes/class_groups/group.py: count    *)
(* the additions of e to a copy of itself until the identity is reached.   *)
(* `identity`, `order` and `i` are the function's locals.                  *)
(***************************************************************************)
EXTENDS ClKind

\* A bound on the loop counter; the element's order never exceeds the
\* class number, so a bound above it is never reached by the code.
CONSTANT MaxOrder

VARIABLES e, identity, order, i, pc
vars == << e, identity, order, i, pc >>

Init ==
    /\ e \in Elements
    /\ identity = NoResult
    /\ order = 0
    /\ i = NoResult
    /\ pc = "entry"

\* Variant: the count starts at 0.
StartCountFromZero ==
    /\ pc = "entry"
    /\ identity' = zero(e.kind)
    /\ order' = 0
    /\ i' = _copy(e)
    /\ pc' = "loop"
    /\ UNCHANGED e

\* identity = e.zero(); order = 1; i = copy(e)
Start ==
    /\ pc = "entry"
    /\ identity' = zero(e.kind)
    /\ order' = 1
    /\ i' = _copy(e)
    /\ pc' = "loop"
    /\ UNCHANGED e

\* while i != identity: order += 1; i = i + e
Step ==
    /\ pc = "loop"
    /\ ~_eq(i, identity)
    /\ order < MaxOrder
    /\ order' = order + 1
    /\ i' = Sum(i, e)
    /\ UNCHANGED << e, identity, pc >>

\* Variant: the loop may be left before i reaches the identity.
ReturnAnyTime ==
    /\ pc = "loop"
    /\ pc' = "done"
    /\ UNCHANGED << e, identity, order, i >>

\* The loop test fails: return order.
Return ==
    /\ pc = "loop"
    /\ _eq(i, identity)
    /\ pc' = "done"
    /\ UNCHANGED << e, identity, order, i >>

Next == Start \/ Step \/ Return

\* The function runs to completion once called.
Spec == Init /\ [][Next]_vars /\ WF_vars(Next)

-----------------------------------------------------------------------------
GroupOrder == Cardinality(Elements)

\* The locals have their types, and inside the loop the count lies between
\* 1 and the class number (the loop never counts past the group's size).
TypeOK ==
    /\ e \in Elements
    /\ identity \in Elements \cup { NoResult }
    /\ order \in 0 .. MaxOrder
    /\ pc = "loop" => order \in 1 .. GroupOrder
    /\ i \in Elements \cup { NoResult }
    /\ pc \in { "entry", "loop", "done" }
=============================================================================
