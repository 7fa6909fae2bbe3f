--------------------------- MODULE ScimDirectory ---------------------------
(***************************************************************************)
(* Groups and memberships of one identity provider, as SCIM requests and   *)
(* enterprise logins write them.  A user request (POST or PUT of a user,   *)
(* or a login) replaces the groups of one user in a serializable           *)
(* transaction that is repeated after a conflict; a group request replaces *)
(* the members of one group in separate statements, each committed at      *)
(* once.  Requests overlap.  Role and state of the account are the subject *)
(* of EnterpriseIdentity.                                                  *)
(***************************************************************************)
EXTENDS Naturals, FiniteSets

CONSTANTS
    Users,      \* users of the provider, by external subject
    ByEmail,    \* those whose external subject is their email address
    UserGroups, \* external ids of groups
    Requests,   \* requests under way
    None,       \* no user, no group
    Attempts    \* maxAttempts of upsertEnterpriseUser

ASSUME DirectoryNoneAssumption == None \notin Users \union UserGroups
ASSUME ByEmailAssumption == ByEmail \subseteq Users
ASSUME DirectoryAttemptsAssumption == Attempts \in Nat \ {0}

VARIABLES
    linked,     \* users with a UserIdentity
    group,      \* groups with a UserGroup
    member,     \* the UserGroupMembership rows
    req         \* req[r]: a request and its locals

directoryVars == <<linked, group, member, req>>

\* What names a member: toScimUser answers with the subjects of users,
\* listScimGroups with the email addresses of members.
Values == Users \X {"subject", "email"}

Request == [ pc : {"idle", "upsert", "find", "delete", "create", "done",    \* of a group request
                   "read", "write"},                                        \* of a user request
             user : Users \union {None}, group : UserGroups \union {None},
             members : SUBSET Values,               \* members of the payload
             want : SUBSET (Users \union UserGroups), \* groups of the payload, or the users found
             groups : SUBSET UserGroups,            \* existingGroups of the snapshot
             mine : SUBSET UserGroups,              \* memberships of the snapshot
             stale : BOOLEAN,                       \* the user has been written since the snapshot
             attempt : 0..Attempts,
             held : SUBSET (Users \X UserGroups) ]  \* history: see TookEffect

DirectoryTypeOK ==
    /\ linked \subseteq Users /\ group \subseteq UserGroups
    /\ member \subseteq linked \X group
    /\ req \in [Requests -> Request]

-----------------------------------------------------------------------------

NoRequest == [ pc |-> "idle", user |-> None, group |-> None, members |-> {}, want |-> {},
               groups |-> {}, mine |-> {}, stale |-> FALSE, attempt |-> 0, held |-> {} ]

\* The pairs that request q decides about, and those that it wants to be rows.
Scope(q) == IF q.user # None THEN {q.user} \X UserGroups ELSE Users \X {q.group}
Wants(q) == IF q.user # None THEN {q.user} \X q.want ELSE q.want \X {q.group}

Decided(q) == q.pc \in {"delete", "create", "write", "done"}

\* The requests, with what each has seen fulfilled of its wishes.
Observe(requests, rows) ==
    [r \in Requests |->
        LET q == requests[r] IN
        IF Decided(q)
        THEN [q EXCEPT !.held = @ \union {p \in Scope(q) : p \in rows <=> p \in Wants(q)}]
        ELSE q]

Set(r, q) == req' = Observe([req EXCEPT ![r] = q], member')

DirectoryInit == /\ linked \in SUBSET Users
                 /\ group \in SUBSET UserGroups
                 /\ member \in SUBSET (linked \X group)
                 /\ req = [r \in Requests |-> NoRequest]

-----------------------------------------------------------------------------
\* upsertEnterpriseUser, from upsertScimUser or a login

SendUser(r, u, gs) ==
    /\ req[r].pc = "idle"
    /\ UNCHANGED <<linked, group, member>>
    /\ Set(r, [NoRequest EXCEPT !.pc = "read", !.user = u, !.want = gs])

\* The snapshot of the transaction.
ReadGroups(r) ==
    /\ req[r].pc = "read"
    /\ UNCHANGED <<linked, group, member>>
    /\ Set(r, [req[r] EXCEPT !.pc = "write", !.attempt = @ + 1, !.stale = FALSE,
                             !.groups = group,
                             !.mine = {g \in UserGroups : <<req[r].user, g>> \in member},
                             !.held = {}])

\* Rows that the transaction finds otherwise than in its snapshot when it writes
\* them: the database refuses it.
Conflicts(q) ==
    \/ q.stale
    \/ \E g \in q.mine \ q.want : <<q.user, g>> \notin member
    \/ \E g \in q.want \ q.mine : <<q.user, g>> \in member

\* A group that is missing in the snapshot and exists by now: userGroup.create fails.
Duplicates(q) == (q.want \ q.groups) \intersect group # {}

RemovedSlip(q) == {}

\* The memberships that syncEnterpriseMemberships deletes.
Removed(q) == q.mine \ q.want

\* Others' snapshots of this user are out of date.
Write(r) ==
    LET q == req[r] IN
    /\ q.pc = "write" /\ ~Conflicts(q) /\ ~Duplicates(q)
    /\ linked' = linked \union {q.user}
    /\ group' = group \union q.want
    /\ member' = (member \ ({q.user} \X Removed(q))) \union ({q.user} \X q.want)
    /\ req' = Observe([s \in Requests |->
                         IF s = r THEN [q EXCEPT !.pc = "done"]
                         ELSE [req[s] EXCEPT !.stale = @ \/ (req[s].user = q.user
                                                             /\ req[s].pc = "write")]],
                      member')

\* P2034 is repeated, Attempts times in all.  The database may abort transactions
\* that would not have conflicted.
AbortWrite(r) ==
    /\ req[r].pc = "write"
    /\ UNCHANGED <<linked, group, member>>
    /\ Set(r, IF req[r].attempt < Attempts THEN [req[r] EXCEPT !.pc = "read"] ELSE NoRequest)

\* Any other failure, of a duplicate group too, is final.
FailRequest(r) ==
    /\ req[r].pc # "idle"
    /\ UNCHANGED <<linked, group, member>>
    /\ Set(r, NoRequest)

-----------------------------------------------------------------------------
\* upsertScimGroup

SendGroup(r, g, values) ==
    /\ req[r].pc = "idle"
    /\ UNCHANGED <<linked, group, member>>
    /\ Set(r, [NoRequest EXCEPT !.pc = "upsert", !.group = g, !.members = values])

UpsertGroup(r) ==
    /\ req[r].pc = "upsert"
    /\ group' = group \union {req[r].group}
    /\ UNCHANGED <<linked, member>>
    /\ Set(r, [req[r] EXCEPT !.pc = "find"])

\* The identities whose subject is the value of a member of the payload.  The
\* email addresses that listScimGroups answers with are subjects of ByEmail only.
Found(values) ==
    {u \in linked : <<u, "subject">> \in values \/ (u \in ByEmail /\ <<u, "email">> \in values)}

Find(r) ==
    /\ req[r].pc = "find"
    /\ UNCHANGED <<linked, group, member>>
    /\ Set(r, [req[r] EXCEPT !.pc = "delete", !.want = Found(req[r].members), !.members = {}])

DeletedAnywhereSlip(q) == {p \in member : p[1] \notin q.want}

\* deleteMany: also without any member found.
Deleted(q) == {p \in member : p[2] = q.group /\ p[1] \notin q.want}

DeleteOthers(r) ==
    /\ req[r].pc = "delete"
    /\ member' = member \ Deleted(req[r])
    /\ UNCHANGED <<linked, group>>
    /\ Set(r, [req[r] EXCEPT !.pc = "create"])

\* createMany, which skips the rows that exist.
CreateMembers(r) ==
    /\ req[r].pc = "create"
    /\ member' = member \union (req[r].want \X {req[r].group})
    /\ UNCHANGED <<linked, group>>
    /\ Set(r, [req[r] EXCEPT !.pc = "done"])

-----------------------------------------------------------------------------

EndRequest(r) ==
    /\ req[r].pc = "done"
    /\ UNCHANGED <<linked, group, member>>
    /\ Set(r, NoRequest)

\* upsertScimUser, upsertScimGroup: cursor, audit entry and answer.
FinishUser(r) == req[r].user # None /\ EndRequest(r)

FinishGroup(r) == req[r].group # None /\ EndRequest(r)

RequestStep(r) == \/ ReadGroups(r) \/ Write(r) \/ AbortWrite(r) \/ FailRequest(r)
                  \/ UpsertGroup(r) \/ Find(r) \/ DeleteOthers(r) \/ CreateMembers(r)
                  \/ FinishUser(r) \/ FinishGroup(r)

DirectoryNext == \E r \in Requests :
            \/ RequestStep(r)
            \/ \E u \in Users, gs \in SUBSET UserGroups : SendUser(r, u, gs)
            \/ \E g \in UserGroups, values \in SUBSET Values :
                  SendGroup(r, g, values)

DirectorySpec == DirectoryInit /\ [][DirectoryNext]_directoryVars

-----------------------------------------------------------------------------

\* A request that has done its work has had its way with every membership it is
\* about, each at some moment while it was under way: requests that overlap may
\* mix their memberships, but none is without effect (syncEnterpriseMemberships,
\* upsertScimGroup).
TookEffect == \A r \in Requests : req[r].pc = "done" => Scope(req[r]) \subseteq req[r].held

\* When a membership is changed, a request under way wants it so: nobody
\* loses or gets a group by the request of another user or for another group.
ChangesAreWanted ==
    [][\A p \in Users \X UserGroups :
          (p \in member) # (p \in member') =>
             \E r \in Requests : /\ Decided(req[r]) /\ p \in Scope(req[r])
                                 /\ (p \in member') = (p \in Wants(req[r]))]_directoryVars
=============================================================================
