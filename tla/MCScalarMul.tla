----------------------------- MODULE MCScalarMul -----------------------------
EXTENDS ScalarMul

CONSTANTS K1, MaxN

\* -71: -D prime, D % 4 = 1, class number 7.
MCDiscOf == [ k \in { K1 } |-> -71 ]

MCScalars == -MaxN .. MaxN
\* The addition table ClKind checks its constant SumTable against.
MCSumTable == AddTable
=============================================================================
