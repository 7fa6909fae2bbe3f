------------------------- MODULE EnterpriseIdentity -------------------------
(***************************************************************************)
(* The accounts as enterprise identity changes them (IdentityService):     *)
(* just-in-time provisioning by an OIDC or SAML login, SCIM users, SCIM    *)
(* deactivation and the role mappings of the startup synchronization,      *)
(* together with what else writes an account: a role update and a signup.  *)
(* One provider; group memberships decide nothing here, because roles are  *)
(* mapped from the groups a call names, and are left out.                  *)
(*                                                                         *)
(* upsertEnterpriseUser runs in a serializable transaction, of which       *)
(* PostgreSQL is used here only for this: it cannot commit once a row it   *)
(* writes was changed by others after its snapshot (doomed), and e-mail    *)
(* addresses are unique.  Every other abort is Abort.  The role update is  *)
(* the step of OwnerRegistry that RoleAdmin implements.                    *)
(***************************************************************************)
EXTENDS Naturals

CONSTANTS
    Accounts,       \* ids of user rows; bounds how many accounts are created
    NoAccount,
    Emails,
    NoEmail,        \* the e-mail of a row that does not exist
    VerifiedEmails, \* those in a verified domain of the provider
    Subjects,       \* external subjects
    NoSubject,
    Groups,         \* external groups
    Configured,     \* pairs of a group and the role that some start of a process maps it to
    Calls,          \* concurrent logins and SCIM calls
    MaxAttempts     \* transaction attempts of one call (3 in the code)

ASSUME NoneAssumption == NoAccount \notin Accounts /\ NoEmail \notin Emails /\ NoSubject \notin Subjects
ASSUME VerifiedAssumption == VerifiedEmails \subseteq Emails
ASSUME ConfiguredAssumption == Configured \subseteq Groups \X {"admin", "member"}
ASSUME AttemptsAssumption == MaxAttempts \in Nat \ {0}

VARIABLES
    email, role, disabled,  \* the columns of user a; an absent row has no e-mail
    identity,               \* identity[s]: the account UserIdentity links subject s to
    mapping,                \* mapping[g]: the role of g's GroupRoleMapping, or "none"
    call,                   \* call[c]: what a login or SCIM call holds
    doomed                  \* calls whose open transaction can no longer commit

vars == <<email, role, disabled, identity, mapping, call, doomed>>

Roles == {"owner", "admin", "member"}

Call == [ pc : {"idle", "begin", "commit", "audit", "finish", "disable"},
          subject : Subjects \union {NoSubject},
          email : Emails \union {NoEmail},
          groups : SUBSET Groups,
          active : BOOLEAN,
          attempt : 1..MaxAttempts,
          account : Accounts \union {NoAccount},    \* linkedUser, or the row to create
          newRole : Roles,                          \* the role the transaction writes
          sawDisabled : BOOLEAN ]                   \* history: its snapshot has disabledAt

TypeOK ==
    /\ email \in [Accounts -> Emails \union {NoEmail}]
    /\ role \in [Accounts -> Roles]
    /\ disabled \in [Accounts -> BOOLEAN]
    /\ identity \in [Subjects -> Accounts \union {NoAccount}]
    /\ mapping \in [Groups -> {"admin", "member", "none"}]
    /\ call \in [Calls -> Call]
    /\ doomed \in SUBSET Calls

-----------------------------------------------------------------------------

Exists(a) == email[a] # NoEmail

\* A row id that no open transaction is about to create.
Unused(a) == ~Exists(a) /\ \A c \in Calls : call[c].account # a

\* "...Slip": what a plausible bug would make of the operator that follows it.
LinkedSlip(s, e) == {a \in Accounts : email[a] = e}

\* existingIdentity?.user ?? the user with this e-mail; empty when there is neither.
Linked(s, e) == IF identity[s] # NoAccount THEN {identity[s]}
                ELSE {a \in Accounts : email[a] = e}

MappedRoleSlip(w, G) == IF \E g \in G : mapping[g] = "admin" THEN "admin"
                        ELSE IF \E g \in G : mapping[g] = "member" THEN "member" ELSE w

\* resolveMappedRole for an account of role w; a new account counts as a member.
MappedRole(w, G) ==
    IF w = "owner" THEN "owner"
    ELSE IF \E g \in G : mapping[g] = "admin" THEN "admin"
    ELSE IF \E g \in G : mapping[g] = "member" THEN "member" ELSE w

ExcludedSlip(a) == {}

\* Serializable isolation: a change of a's row excludes the calls whose open
\* transaction writes this row; their snapshot is from before it.
Excluded(a) == {c \in Calls : call[c].pc = "commit" /\ call[c].account = a}

\* Likewise for the unique row of UserIdentity of subject s.
SameSubject(s) == {c \in Calls : call[c].pc = "commit" /\ call[c].subject = s}

Idle == [ pc |-> "idle", subject |-> NoSubject, email |-> NoEmail, groups |-> {},
          active |-> TRUE, attempt |-> 1, account |-> NoAccount, newRole |-> "member",
          sawDisabled |-> FALSE ]

\* Nothing that a call still holds matters to other state.
Finishing == [Idle EXCEPT !.pc = "finish"]

\* The snapshot is gone; what the call was asked to do stays.
Reopened(c) == [call[c] EXCEPT !.pc = "begin", !.account = NoAccount,
                               !.newRole = "member", !.sawDisabled = FALSE]

ConflictUncapped(c) == call' = [call EXCEPT ![c] = [Reopened(c) EXCEPT !.attempt = @ + 1]]

\* P2034 from any call inside the try: another attempt, or the error is thrown.
Conflict(c) ==
    call' = [call EXCEPT ![c] = IF call[c].attempt < MaxAttempts
                                THEN [Reopened(c) EXCEPT !.attempt = @ + 1] ELSE Idle]

-----------------------------------------------------------------------------

\* Seed/setup has created an owner; nobody has been provisioned.
Init ==
    /\ email \in [Accounts -> Emails \union {NoEmail}]
    /\ \A a, b \in Accounts : email[a] = email[b] => a = b \/ ~Exists(a)
    /\ role \in [Accounts -> Roles]
    /\ \A a \in Accounts : ~Exists(a) => role[a] = "member"
    /\ \E a \in Accounts : role[a] = "owner"
    /\ disabled = [a \in Accounts |-> FALSE]
    /\ identity = [s \in Subjects |-> NoAccount]
    /\ mapping = [g \in Groups |-> "none"]
    /\ call = [c \in Calls |-> Idle]
    /\ doomed = {}

\* A callback whose state, token or assertion holds, for an e-mail of a verified domain.
Login(c, s, e, G) ==
    /\ call[c].pc = "idle"
    /\ e \in VerifiedEmails
    /\ call' = [call EXCEPT ![c] = [Idle EXCEPT !.pc = "begin", !.subject = s,
                                                !.email = e, !.groups = G]]
    /\ UNCHANGED <<email, role, disabled, identity, mapping, doomed>>

\* POST and PUT /scim/v2/Users.
Scim(c, s, e, G, active) ==
    /\ call[c].pc = "idle"
    /\ call' = [call EXCEPT ![c] = [Idle EXCEPT !.pc = "begin", !.subject = s, !.email = e,
                                                !.groups = G, !.active = active]]
    /\ UNCHANGED <<email, role, disabled, identity, mapping, doomed>>

\* What the transaction reads: the link, the account, the mappings.
Read(c) ==
    /\ call[c].pc = "begin"
    /\ LET found == Linked(call[c].subject, call[c].email)
       IN \E a \in IF found = {} THEN {b \in Accounts : Unused(b)} ELSE found :
             call' = [call EXCEPT ![c].pc = "commit", ![c].account = a,
                                  ![c].newRole = MappedRole(role[a], call[c].groups),
                                  ![c].sawDisabled = disabled[a]]
    /\ UNCHANGED <<email, role, disabled, identity, mapping, doomed>>

\* What the transaction writes, and its commit: the account with its e-mail, role
\* and disabledAt, and the link.  A call that named groups has an audit entry to write.
Commit(c) ==
    /\ call[c].pc = "commit"
    /\ c \notin doomed
    /\ \A b \in Accounts : email[b] = call[c].email => b = call[c].account
    /\ LET a == call[c].account
       IN /\ email' = [email EXCEPT ![a] = call[c].email]
          /\ role' = [role EXCEPT ![a] = call[c].newRole]
          /\ disabled' = [disabled EXCEPT ![a] = ~call[c].active]
          /\ identity' = [identity EXCEPT ![call[c].subject] = a]
          /\ doomed' = (doomed \union Excluded(a) \union SameSubject(call[c].subject)) \ {c}
    /\ call' = [call EXCEPT ![c] = IF call[c].groups = {} THEN Finishing
                                   ELSE [Reopened(c) EXCEPT !.pc = "audit"]]
    /\ UNCHANGED mapping

Abort(c) ==
    /\ call[c].pc = "commit"
    /\ Conflict(c)
    /\ doomed' = doomed \ {c}
    /\ UNCHANGED <<email, role, disabled, identity, mapping>>

\* auditService.log('identity.group_mapping_applied') returns.
AuditMapping(c) ==
    /\ call[c].pc = "audit"
    /\ call' = [call EXCEPT ![c] = Finishing]
    /\ UNCHANGED <<email, role, disabled, identity, mapping, doomed>>

\* It gives up with P2034 inside the try: the committed work is done again.
AuditConflict(c) ==
    /\ call[c].pc = "audit"
    /\ Conflict(c)
    /\ UNCHANGED <<email, role, disabled, identity, mapping, doomed>>

\* The rest of the handler: session or cursor, audit entry, answer.
Finish(c) ==
    /\ call[c].pc = "finish"
    /\ call' = [call EXCEPT ![c] = Idle]
    /\ UNCHANGED <<email, role, disabled, identity, mapping, doomed>>

\* Any other error, a taken e-mail address among them, or the end of the process.
Fail(c) ==
    /\ call[c].pc # "idle"
    /\ call' = [call EXCEPT ![c] = Idle]
    /\ doomed' = doomed \ {c}
    /\ UNCHANGED <<email, role, disabled, identity, mapping>>

\* DELETE /scim/v2/Users/:id finds the linked account (404 without one) ...
FindDisable(c, s) ==
    /\ call[c].pc = "idle"
    /\ identity[s] # NoAccount
    /\ call' = [call EXCEPT ![c] = [Idle EXCEPT !.pc = "disable", !.account = identity[s]]]
    /\ UNCHANGED <<email, role, disabled, identity, mapping, doomed>>

\* ... and updates it in a statement of its own.
Disable(c) ==
    /\ call[c].pc = "disable"
    /\ disabled' = [disabled EXCEPT ![call[c].account] = TRUE]
    /\ doomed' = doomed \union Excluded(call[c].account)
    /\ call' = [call EXCEPT ![c] = Finishing]
    /\ UNCHANGED <<email, role, identity, mapping>>

\* updateRole, by an owner o, never for the last owner.
ChangeRole(o, a, w) ==
    /\ role[o] = "owner"
    /\ Exists(a)
    /\ role[a] = "owner" /\ w # "owner" => \E b \in Accounts \ {a} : role[b] = "owner"
    /\ role' = [role EXCEPT ![a] = w]
    /\ doomed' = IF role[a] = w THEN doomed ELSE doomed \union Excluded(a)
    /\ UNCHANGED <<email, disabled, identity, mapping, call>>

\* Public signup creates members.
Signup(a, e) ==
    /\ Unused(a)
    /\ \A b \in Accounts : email[b] # e
    /\ email' = [email EXCEPT ![a] = e]
    /\ UNCHANGED <<role, disabled, identity, mapping, call, doomed>>

\* Another process starts: syncConfiguredProviders upserts the configured mappings.
Sync(g, w) ==
    /\ <<g, w>> \in Configured
    /\ mapping' = [mapping EXCEPT ![g] = w]
    /\ UNCHANGED <<email, role, disabled, identity, call, doomed>>

-----------------------------------------------------------------------------

Step(c) ==
    \/ \E s \in Subjects, e \in Emails, G \in SUBSET Groups :
          \/ Login(c, s, e, G)
          \/ \E active \in BOOLEAN : Scim(c, s, e, G, active)
    \/ \E s \in Subjects : FindDisable(c, s)
    \/ Read(c) \/ Commit(c) \/ Abort(c) \/ AuditMapping(c) \/ AuditConflict(c)
    \/ Disable(c) \/ Finish(c) \/ Fail(c)

Next ==
    \/ \E c \in Calls : Step(c)
    \/ \E o, a \in Accounts, w \in Roles : ChangeRole(o, a, w)
    \/ \E a \in Accounts, e \in Emails : Signup(a, e)
    \/ \E g \in Groups, w \in {"admin", "member"} : Sync(g, w)

Spec == Init /\ [][Next]_vars

-----------------------------------------------------------------------------

\* What the owner registry sees of the accounts: who is an owner.
Ownership == [a \in Accounts |-> IF role[a] = "owner" THEN "owner" ELSE "member"]

Registry == INSTANCE OwnerRegistry
                WITH Users <- Accounts, Roles <- {"owner", "member"}, role <- Ownership

\* Provisioning is invisible to the ownership of the system: with logins, SCIM
\* and mappings beside it, owners still come and go only by the hand of an owner,
\* although each call writes a role it computed from what it read.
OwnersOnlyByOwners == Registry!Spec

\* Once linked, a subject stays with its account, whatever e-mail it is later
\* sent with and however many first logins race.
SubjectKeepsAccount ==
    [][\A s \in Subjects : identity[s] # NoAccount => identity'[s] = identity[s]]_vars

\* A deactivation is not lost to a call under way: only a call whose
\* transaction has seen the account disabled enables it again.
NoLostDeactivation ==
    [][\A a \in Accounts : disabled[a] /\ ~disabled'[a] =>
          \E c \in Calls : /\ call[c].pc = "commit" /\ call'[c].pc \in {"audit", "finish"}
                           /\ call[c].account = a /\ call[c].sawDisabled]_vars
=============================================================================
