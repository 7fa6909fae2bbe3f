------------------------ MODULE MCEnterpriseIdentity ------------------------
\* EnterpriseIdentity for TLC.  All these values are only compared; e-mails may be
\* permuted because the runs have all of them verified.
EXTENDS EnterpriseIdentity, TLC

CONSTANT g1

Mappings == {<<g1, "admin">>, <<g1, "member">>}

Symmetry == Permutations(Accounts) \union Permutations(Emails)
                \union Permutations(Subjects) \union Permutations(Calls)
=============================================================================
