---------------------------- MODULE MCRegression ----------------------------
EXTENDS Regression

CONSTANTS K1, MaxN

\* -239 in place of -4643654683 (beyond TLC's integers): -D is prime,
\* D % 4 = 1, and the class number 15 gives elements of order 1, 3, 5, 15.
MCDiscOf == [ k \in { K1 } |-> -239 ]

\* The scalar 4873 of main.py has both bit values; 0 .. MaxN gives every
\* bit pattern of up to five bits.
MCScalars == 0 .. MaxN

\* The addition table ClKind checks its constant SumTable against.
MCSumTable == AddTable
=============================================================================
