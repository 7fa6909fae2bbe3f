------------------------- MODULE MCSessionLifecycle -------------------------
\* SessionLifecycle for TLC.  Ids, requests and logins are interchangeable.
EXTENDS SessionLifecycle, TLC

Symmetry == Permutations(Ids) \union Permutations(Requests) \union Permutations(Logins)
=============================================================================
