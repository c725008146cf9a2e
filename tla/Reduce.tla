------------------------------- MODULE Reduce -------------------------------
(***************************************************************************)
(* Reduction of a binary quadratic form (a, b, c), x^2 a + xy b + y^2 c,   *)
(* to the reduced representative of its class: _is_normal, _is_reduced,   *)
(* _reduction_step and _reduce of prototypes/class_groups/cl.py.           *)
(*                                                                         *)
(* The state machine is one call of _reduce: `form` is the triple the      *)
(* function's locals a, b, c hold, `input` the triple it was called with,  *)
(* `pc` the point the single thread has reached.  The functions it calls   *)
(* are the operators of Forms.tla.                                         *)
(***************************************************************************)
EXTENDS Integers, Forms

CONSTANTS
    D,          \* the discriminant of the group kind (negative)
    Inputs,     \* triples _reduce may be called with
    MatBound    \* bound on the entries of the SL2(Z) substitutions searched

\* Cl.__init__ asserts b * b - 4 * a * c == discriminant before it reduces.
ASSUME D < 0 /\ \A f \in Inputs : Disc(f) = D

-----------------------------------------------------------------------------
(* One call of _reduce as a state machine.                                 *)

VARIABLES input, form, pc
vars == << input, form, pc >>

Init ==
    /\ input \in Inputs
    /\ form = input
    /\ pc = "normalize"

\* if not _is_normal(a, b, c): a, b, c = c, -b, a
Normalize ==
    /\ pc = "normalize"
    /\ form' = _normalize(form)
    /\ pc' = "loop"
    /\ UNCHANGED input

\* while not _is_reduced(a, b, c): a, b, c = _reduction_step(a, b, c)
Step ==
    /\ pc = "loop"
    /\ ~_is_reduced(form)
    /\ form' = _reduction_step(form)
    /\ UNCHANGED << input, pc >>

\* The loop test fails: return a, b, c.
Return ==
    /\ pc = "loop"
    /\ _is_reduced(form)
    /\ pc' = "done"
    /\ UNCHANGED << input, form >>

Next == Normalize \/ Step \/ Return

\* _reduce is sequential code with no waits: once a step is enabled the
\* interpreter keeps taking it.
Spec == Init /\ [][Next]_vars /\ WF_vars(Next)

-----------------------------------------------------------------------------
\* The locals always hold a form of the discriminant Cl.__init__ asserted
\* on entry: every assignment _reduce makes to (a, b, c) keeps b^2 - 4ac.
TypeOK ==
    /\ input \in Inputs
    /\ form \in Int \X Int \X Int
    /\ Disc(form) = D
    /\ pc \in {"normalize", "loop", "done"}

\* Every assignment _reduce makes to (a, b, c) keeps the form in the class
\* of the triple it was called with: the swap and each _reduction_step are
\* proper (determinant 1) substitutions, never the improper one that maps
\* a class to its inverse.
SameClass == Equivalent(input, form, MatBound)

\* The while loop of _reduce exits: every call returns.
Termination == <>(pc = "done")
=============================================================================
