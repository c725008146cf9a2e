---------------------------- MODULE MCFourSquares ----------------------------
EXTENDS FourSquares

CONSTANT MaxMu

\* Every mu up to MaxMu: t = 0 to 5 all occur (32 = 2^5), and
\* m = 22 needs a square root of -1 modulo a prime.
MCInputs == 0 .. MaxMu
=============================================================================
