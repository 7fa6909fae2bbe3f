------------------------------ MODULE Bootstrap ------------------------------
(***************************************************************************)
(* The seed job (seed.mjs), which docker-compose runs before every start   *)
(* of the API: the bootstrap owner in a serializable transaction that is   *)
(* repeated after a conflict, then the default accounts in statements of   *)
(* their own.  Jobs overlap, fail, and are configured with different       *)
(* owners, while accounts sign up, change roles and emails.                *)
(*                                                                         *)
(* One default account stands for the two of the code.  The names of the   *)
(* module let it be extended beside others.                                *)
(***************************************************************************)
EXTENDS Naturals, FiniteSets

CONSTANTS
    Accounts,       \* user ids
    NoAccount,
    Emails,         \* email addresses
    DefaultEmail,   \* admin@example.com
    Jobs,           \* seed jobs under way
    MaxAttempts     \* maxAttempts of runSerializableRetry

ASSUME NoAccountAssumption == NoAccount \notin Accounts
ASSUME DefaultEmailAssumption == DefaultEmail \in Emails
ASSUME MaxAttemptsAssumption == MaxAttempts \in Nat \ {0}

VARIABLES
    account,    \* account[a]: a User row
    bootstrap,  \* bootstrapOwnerId of the one BootstrapState row
    job,        \* job[j]: the locals of a seed job
    past        \* history: what the properties need to know

seedVars == <<account, bootstrap, job, past>>

Roles == {"owner", "admin", "member"}

Account == [role : Roles \union {"none"}, email : Emails]

Job == [ pc : {"idle", "begin", "write", "users"},
         email : Emails,                    \* SEED_OWNER_EMAIL
         found : Accounts \union {NoAccount},
         stale : BOOLEAN,                   \* what it has read was written since
         attempt : 1..MaxAttempts ]

Past == [ made : SUBSET Accounts,   \* accounts that a job has made the bootstrap owner
          passed : SUBSET Emails,   \* owner emails of the jobs that got past the owner
          renamed : BOOLEAN,        \* the bootstrap owner has changed the email address
          demoted : BOOLEAN ]       \* a job has overwritten the role of an owner

Existing == {a \in Accounts : account[a].role # "none"}
Owners == {a \in Accounts : account[a].role = "owner"}
Holders(e) == {a \in Existing : account[a].email = e}

\* Types, and email addresses are unique.
SeedTypeOK ==
    /\ account \in [Accounts -> Account]
    /\ \A e \in Emails : Cardinality(Holders(e)) <= 1
    /\ bootstrap \in Existing \union {NoAccount}
    /\ job \in [Jobs -> Job]
    /\ past \in Past

-----------------------------------------------------------------------------

Idle == [pc |-> "idle", email |-> DefaultEmail, found |-> NoAccount, stale |-> FALSE,
         attempt |-> 1]

SeedInit == /\ account = [a \in Accounts |-> [role |-> "none", email |-> DefaultEmail]]
            /\ bootstrap = NoAccount
            /\ job = [j \in Jobs |-> Idle]
            /\ past = [made |-> {}, passed |-> {}, renamed |-> FALSE, demoted |-> FALSE]

\* Account a is written: the snapshots that have its row, or have missed it, are stale.
Write(a, role, email) ==
    /\ account' = [account EXCEPT ![a] = [role |-> role, email |-> email]]
    /\ Holders(email) \subseteq {a}

Stale(jobs, a) ==
    [j \in Jobs |-> IF jobs[j].pc = "write" /\ (jobs[j].found = a \/ jobs[j].email = account'[a].email)
                    THEN [jobs[j] EXCEPT !.stale = TRUE] ELSE jobs[j]]

\* main: a job starts with a configured owner.
Begin(j, e) ==
    /\ job[j].pc = "idle"
    /\ job' = [job EXCEPT ![j] = [Idle EXCEPT !.pc = "begin", !.email = e]]
    /\ UNCHANGED <<account, bootstrap, past>>

\* The bootstrap owner is another one than the job is configured with.
Mismatch(j) == account[bootstrap].email # job[j].email

\* ensureBootstrapOwner, the snapshot: an existing bootstrap owner is checked and
\* left alone, or else the account of the email is looked up.
ReadOwner(j) ==
    /\ job[j].pc = "begin"
    /\ IF bootstrap = NoAccount
       THEN /\ \E a \in Holders(job[j].email) \union {NoAccount} :
                  /\ a = NoAccount => Holders(job[j].email) = {}
                  /\ job' = [job EXCEPT ![j].pc = "write", ![j].found = a, ![j].stale = FALSE]
            /\ UNCHANGED past
       ELSE IF Mismatch(j)
       THEN job' = [job EXCEPT ![j] = Idle] /\ UNCHANGED past
       ELSE /\ job' = [job EXCEPT ![j].pc = "users"]
            /\ past' = [past EXCEPT !.passed = @ \union {job[j].email}]
    /\ UNCHANGED <<account, bootstrap>>

\* Slips next to the code: what a plausible bug would make of the operator that
\* follows, kept to see that a property notices.
SeededRoleSlip(a) == IF account[a].role = "none" THEN "owner" ELSE account[a].role

SeededRole(a) == "owner"

ExcludedSlip(j) == FALSE

\* The database refuses the transaction: a row it has read was written, or the
\* row of the bootstrap state or of the email exists by now.
Excluded(j) == job[j].stale

\* The owner is created or promoted, and bound.
CommitOwner(j, a) ==
    /\ job[j].pc = "write" /\ ~Excluded(j)
    /\ IF job[j].found = NoAccount THEN a \notin Existing ELSE a = job[j].found
    /\ Write(a, SeededRole(a), job[j].email)
    /\ bootstrap' = a
    /\ past' = [past EXCEPT !.made = @ \union {a}, !.passed = @ \union {job[j].email}]
    /\ job' = [k \in Jobs |->
                 IF k = j THEN [job[j] EXCEPT !.pc = "users", !.found = NoAccount]
                 ELSE [job[k] EXCEPT !.stale = @ \/ job[k].pc = "write"]]

\* runSerializableRetry: P2002 and P2034 repeat the transaction, MaxAttempts times
\* in all.
Abort(j) ==
    /\ job[j].pc = "write"
    /\ job' = [job EXCEPT ![j] = IF @.attempt = MaxAttempts THEN Idle
                                 ELSE [Idle EXCEPT !.pc = "begin", !.email = job[j].email,
                                                   !.attempt = job[j].attempt + 1]]
    /\ UNCHANGED <<account, bootstrap, past>>

\* upsertSeedUser: the role of the default account is overwritten, whoever holds it.
SeedUser(j, a) ==
    /\ job[j].pc = "users"
    /\ IF Holders(DefaultEmail) = {} THEN a \notin Existing ELSE a \in Holders(DefaultEmail)
    /\ Write(a, "admin", DefaultEmail)
    /\ past' = [past EXCEPT !.demoted = @ \/ a \in Owners]
    /\ job' = Stale([job EXCEPT ![j] = Idle], a)
    /\ UNCHANGED bootstrap

\* A statement fails or the job is killed: what was committed stays.
Fail(j) ==
    /\ job[j].pc # "idle"
    /\ job' = [job EXCEPT ![j] = Idle]
    /\ UNCHANGED <<account, bootstrap, past>>

-----------------------------------------------------------------------------
\* Beside the jobs

SignUp(a, e) ==
    /\ a \notin Existing
    /\ Write(a, "member", e)
    /\ job' = Stale(job, a)
    /\ UNCHANGED <<bootstrap, past>>

\* updateRole, as far as OwnerRegistry promises it: an owner remains.
ChangeRole(a, role) ==
    /\ a \in Existing /\ account[a].role # role
    /\ Owners # {} /\ (role # "owner" => Owners # {a})
    /\ Write(a, role, account[a].email)
    /\ job' = Stale(job, a)
    /\ UNCHANGED <<bootstrap, past>>

\* upsertEnterpriseUser writes the email address that the provider sends.
Rename(a, e) ==
    /\ a \in Existing /\ account[a].email # e
    /\ Write(a, account[a].role, e)
    /\ job' = Stale(job, a)
    /\ past' = [past EXCEPT !.renamed = @ \/ a = bootstrap]
    /\ UNCHANGED bootstrap

SeedNext ==
    \/ \E j \in Jobs : \/ \E e \in Emails : Begin(j, e)
                       \/ ReadOwner(j) \/ Abort(j) \/ Fail(j)
                       \/ \E a \in Accounts : CommitOwner(j, a) \/ SeedUser(j, a)
    \/ \E a \in Accounts : \/ \E e \in Emails : SignUp(a, e) \/ Rename(a, e)
                           \/ \E role \in Roles : ChangeRole(a, role)

SeedSpec == SeedInit /\ [][SeedNext]_seedVars

-----------------------------------------------------------------------------

\* However many jobs race, with whatever owners, one account is made the bootstrap
\* owner: the promotion of a loser is rolled back.  docs/environment.md: 'rerunning
\* seed data with a different SEED_OWNER_EMAIL fails loudly': jobs of two owners get
\* past the check only when the address of the bootstrap owner was changed in
\* between (ensureBootstrapOwner).
OneOwnerSeeded ==
    /\ Cardinality(past.made) <= 1
    /\ Cardinality(past.passed) <= 1 \/ past.renamed

\* Once there is a bootstrap owner, there is an owner until a seed job overwrites
\* the role of an owner that holds the default address (upsertSeedUser).
OwnersLostBySeedOnly == bootstrap # NoAccount /\ Owners = {} => past.demoted
=============================================================================
