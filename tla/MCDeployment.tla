---------------------------- MODULE MCDeployment ----------------------------
\* Deployment and Bootstrap for TLC: they write no row in common, so each is explored
\* beside the initial state of the other.
EXTENDS Deployment, Bootstrap, TLC

CONSTANTS okta, entra

\* Slugs are only compared: blanks around one of the two are enough.
SomeNames == [slug : {okta, None}, blanks : BOOLEAN] \union {[slug |-> entra, blanks |-> FALSE]}

NoAccounts == [a \in Accounts |-> [role |-> "none", email |-> DefaultEmail]]
IdleJobs == [j \in Jobs |-> Idle]

Unseeded == account = NoAccounts /\ job = IdleJobs /\ UNCHANGED seedVars
Undeployed == Listed = {} /\ (\A i \in Instances : inst[i] = Down) /\ UNCHANGED vars

\* Next of Deployment, with the environments bound outermost: TLC evaluates them once.
DeployNext ==
    \E i \in Instances :
        \/ \E e \in AcceptedEnvironments : Start(i, e) /\ Unseeded
        \/ (SyncOidc(i) \/ SyncSaml(i) \/ Stop(i)) /\ Unseeded

AllInit == Init /\ SeedInit

AllNext == DeployNext \/ (Undeployed /\ SeedNext)

DeploySpec == AllInit /\ [][AllNext]_<<vars, seedVars>>

Symmetry == Permutations(Instances) \union Permutations(Jobs) \union Permutations(Accounts)
=============================================================================
