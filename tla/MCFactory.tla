------------------------------ MODULE MCFactory ------------------------------
EXTENDS Factory

\* Primes with D % 4 == 1 (-3, -7, -23, -47); composites with D % 4 == 1
\* (-15, -35, -39), whose Euler liars let some draws pass; D % 4 # 1
\* (-21, the negative control of spec section 8, and -4); positive D with
\* D % 4 == 1 (1, 5), outside the spec's domain.
MCDiscriminants == { -3, -7, -23, -47, -15, -35, -39, -21, -4, 1, 5 }
=============================================================================
