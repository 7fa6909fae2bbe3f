------------------------------ MODULE MCSignIn ------------------------------
\* SignIn for TLC.
EXTENDS SignIn, TLC

Symmetry == Permutations(Flows) \union Permutations(Grants) \union Permutations(Requests)
              \union Permutations(Slugs)
=============================================================================
