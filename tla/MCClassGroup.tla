---------------------------- MODULE MCClassGroup ----------------------------
EXTENDS ClassGroup

CONSTANTS K1, K2, MaxA, MaxB

\* -71 and -47: -D prime and D % 4 = 1, class numbers 7 and 5.
OneKind == { K1 }
TwoKinds == { K1, K2 }
MCDiscOf == [ k \in Kinds |-> IF k = K1 THEN -71 ELSE -47 ]

\* Positive-definite triples of every kind's discriminant with a <= MaxA,
\* |b| <= MaxB (reduced and unreduced), and one triple of no kind's.
MCTriples ==
    ({ << x, y, (y * y - d) \div (4 * x) >> :
        x \in 1 .. MaxA, y \in -MaxB .. MaxB, d \in { MCDiscOf[k] : k \in Kinds } }
     \cap { f \in Int \X Int \X Int : Disc(f) \in { MCDiscOf[k] : k \in Kinds } })
    \cup { << 1, 1, 1 >> }
=============================================================================
