-------------------------- MODULE MCScimDirectory --------------------------
\* ScimDirectory for TLC.
EXTENDS ScimDirectory, TLC

Symmetry == Permutations(UserGroups) \union Permutations(Requests)
=============================================================================
