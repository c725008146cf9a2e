-------------------------------- MODULE ClKind --------------------------------
(***************************************************************************)
(* The elements of one group kind, with Cl.__add__ on them tabulated once  *)
(* (the values of _add of ClGroup.tla), and the reference definitions the  *)
(* generic algorithms of group.py are checked against.                     *)
(***************************************************************************)
EXTENDS ClGroup

CONSTANT Kind       \* the group kind the algorithms run in

Elements == ElementsOf(Kind)

\* A table of x + y for all elements; a state machine whose steps add
\* elements looks the sums up here.
AddTable == [ x, y \in Elements |-> _add(x, y) ]

\* The table itself is a constant the model supplies and TLC checks
\* against AddTable once, so that instances of the modules that extend
\* this one (whose variables are substituted) do not recompute it.
CONSTANT SumTable
ASSUME SumTable = AddTable

Sum(x, y) == SumTable[x, y]

\* x + x + ... + x (m >= 0 terms) by repeated addition.
RECURSIVE Multiple(_, _)
Multiple(x, m) == IF m = 0 THEN zero(Kind) ELSE Sum(Multiple(x, m - 1), x)

\* The order of x: the least m >= 1 with m * x the identity.
OrderOf(x) ==
    CHOOSE m \in 1 .. Cardinality(Elements) :
        /\ Multiple(x, m) = zero(Kind)
        /\ \A j \in 1 .. m - 1 : Multiple(x, j) # zero(Kind)
=============================================================================
