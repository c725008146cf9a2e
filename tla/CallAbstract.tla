---------------------------- MODULE CallAbstract ----------------------------
(***************************************************************************)
(* What a call of one of group.py's algorithms promises its caller: a call *)
(* on an argument returns, in one step, the value Result gives for that    *)
(* argument, and it does return.  ElementOrder (element_order, Result the  *)
(* order) and ScalarMul (__mul__, Result the multiple) implement it.       *)
(***************************************************************************)
CONSTANTS
    Args,       \* the arguments the call may be made with
    Result,     \* what the call returns, a function on Args
    None        \* no argument or result yet

VARIABLES arg, result, pc
vars == << arg, result, pc >>

\* The caller is seen either before it calls or from the call's entry on.
Init ==
    /\ result = None
    /\ \/ pc = "idle" /\ arg = None
       \/ pc = "called" /\ arg \in Args

\* The caller makes the call with some argument.
Call ==
    /\ pc = "idle"
    /\ \E a \in Args : arg' = a
    /\ pc' = "called"
    /\ UNCHANGED result

\* The call returns the result for its argument.
Return ==
    /\ pc = "called"
    /\ result' = Result[arg]
    /\ pc' = "returned"
    /\ UNCHANGED arg

Next == Call \/ Return

\* A call that has begun returns; nothing obliges the caller to call.
Spec == Init /\ [][Next]_vars /\ WF_vars(Return)
=============================================================================
