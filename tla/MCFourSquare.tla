----------------------------- MODULE MCFourSquare -----------------------------
EXTENDS FourSquare

CONSTANT MaxMu

\* Every mu up to MaxMu: t = 0 .. 4 all occur, and p = 5, 13 and 17 give
\* both first draws that pass and retries of the for loop.
MCInputs == 0 .. MaxMu
=============================================================================
