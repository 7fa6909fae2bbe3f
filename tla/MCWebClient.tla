---------------------------- MODULE MCWebClient ----------------------------
\* WebClient for TLC.
EXTENDS WebClient, TLC

Symmetry == Permutations(Tabs) \union Permutations(Sessions) \union Permutations(Calls)
=============================================================================
