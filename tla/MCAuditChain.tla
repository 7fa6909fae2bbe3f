---------------------------- MODULE MCAuditChain ----------------------------
\* AuditChain for TLC.  Writers are interchangeable; ids are not: they are ordered.
EXTENDS AuditChain, TLC

Symmetry == Permutations(Writers)
=============================================================================
