---------------------------- MODULE MCLocalAuth ----------------------------
\* LocalAuth for TLC.
EXTENDS LocalAuth, TLC

Symmetry == Permutations(Passwords) \union Permutations(Tokens) \union Permutations(Sessions)
              \union Permutations(Requests)
=============================================================================
