--------------------------- MODULE MCIdempotency ---------------------------
\* Idempotency for TLC.  Calls and payloads are interchangeable.
EXTENDS Idempotency, TLC

Symmetry == Permutations(Calls) \union Permutations(Payloads)
=============================================================================
