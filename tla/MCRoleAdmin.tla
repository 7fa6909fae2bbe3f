---------------------------- MODULE MCRoleAdmin ----------------------------
\* RoleAdmin for TLC, with the fairness that its liveness property needs; no
\* symmetry, which is not sound for it.
EXTENDS RoleAdmin
=============================================================================
